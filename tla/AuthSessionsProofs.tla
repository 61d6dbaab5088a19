-------------------------- MODULE AuthSessionsProofs --------------------------
(***************************************************************************)
(* Proofs about AuthSessions, for every value of its constants.            *)
(*                                                                         *)
(* RevocationHolds is not inductive.  IInv adds what makes it so: what a   *)
(* revocation in flight covers, what a rotation in flight knows of it, and *)
(* that the tables still name the family of every triple a client may hold.*)
(***************************************************************************)
EXTENDS AuthSessions, FiniteSetTheorems, TLAPS

Present(s) == sess[s].st \in {"live", "revoked"}
Fresh(s)   == sess[s].st = "absent"

\* Rows and families are numbered in the order of insertion, and a family
\* belongs to one account.
Numbered ==
    /\ \A s \in Sids : Fresh(s) <=> s >= nextSid
    /\ \A s \in Sids : ~Fresh(s) =>
          /\ sess[s].fam \in Sids
          /\ sess[s].fam < nextSid
          /\ sess[s].tok \in Triples
          /\ sess[s].tok < nextTok
          /\ sess[s].user \in Users
          /\ sess[sess[s].fam].user = sess[s].user
    /\ \A t \in Triples : famOf[t] < nextSid
    /\ \A t \in Triples : t >= nextTok => famOf[t] = 0
    /\ \A f \in ended \cup burned : f < nextSid
    /\ \A t \in Triples : Consumed(t) => used[t].sid \in Sids /\ ~Fresh(used[t].sid)

\* A rotation in flight holds a live row, which a live rotation was asked for by
\* its own triple.
RotationsLocked ==
    \A r \in rotations : Live(r.sid) /\ (r.kind = "live" => sess[r.sid].tok = r.tok)

\* A rotation whose family is being revoked knows that it overlaps.
OverlapSeen ==
    \A r \in rotations, v \in revocations : sess[r.sid].fam \in v.fams => r.overlap

\* A revocation in flight has every live session of its families in its snapshot,
\* late siblings excepted.
RevocationsCover ==
    \A v \in revocations :
        /\ \A f \in v.fams : f < nextSid
        /\ \A s \in Sids : Live(s) /\ sess[s].fam \in v.fams => s \in v.rows \/ sess[s].late

\* The tables name the family of every remembered triple, until it is purged.
TriplesNamed ==
    /\ \A s \in Sids : Present(s) /\ famOf[sess[s].tok] # 0 => famOf[sess[s].tok] = sess[s].fam
    /\ \A t \in Triples : famOf[t] # 0 => famOf[t] \in NamedBy(t) \/ famOf[t] \in burned

\* A verified password is the account's password as long as the version is.
LoginsDated ==
    \A l \in logins :
        /\ l.epoch <= acct[l.user].epoch
        /\ l.epoch = acct[l.user].epoch => l.pw = acct[l.user].pw

\* A revocation that bumps token_version holds the account's row lock: it is alone,
\* and the version is the one it read.
AccountsLocked ==
    \A v \in revocations : v.kind # "logout" =>
        /\ acct[v.user].epoch < MaxEpoch
        /\ \A w \in revocations : w.kind # "logout" /\ w.user = v.user => w = v

\* The inductive invariant.
IInv ==
    /\ TypeOK
    /\ Numbered
    /\ RotationsLocked
    /\ OverlapSeen
    /\ RevocationsCover
    /\ TriplesNamed
    /\ LoginsDated
    /\ AccountsLocked
    /\ ReuseEndsFamily
    /\ RevocationHolds

-------------------------------------------------------------------------------
(***************************************************************************)
(* Steps that insert no row and draw no triple.                            *)
(***************************************************************************)

\* What such a step leaves of the rows: their columns, and no row comes alive.
RowsOnlyDie ==
    /\ \A s \in Sids :
          /\ sess'[s].fam = sess[s].fam
          /\ sess'[s].tok = sess[s].tok
          /\ sess'[s].user = sess[s].user
          /\ sess'[s].late = sess[s].late
          /\ Fresh(s)' <=> Fresh(s)
          /\ Live(s)' => Live(s)
          /\ Present(s)' => Present(s)
    /\ nextSid' = nextSid
    /\ nextTok' = nextTok

\* The rest of what such a step may do: forget triples and consumed tokens, drop
\* transactions, and end families that exist.
OthersShrink ==
    /\ rotations' \subseteq rotations
    /\ revocations' \subseteq revocations
    /\ \A t \in Triples : famOf'[t] \in {famOf[t], 0}
    /\ \A t \in Triples : used'[t] \in {used[t], NoUse}
    /\ \A f \in ended' \cup burned' : f < nextSid

\* Rows that only die keep the numbering and what the transactions in flight know.
LEMMA DyingIsSafe ==
    ASSUME IInv, RowsOnlyDie, OthersShrink, \A r \in rotations' : Live(r.sid)'
    PROVE  Numbered' /\ RotationsLocked' /\ OverlapSeen' /\ RevocationsCover'
<1> USE SessionsAssumption
<1>1. Numbered'
  BY DEF IInv, TypeOK, Numbered, RowsOnlyDie, OthersShrink, Consumed
<1>2. RotationsLocked'
  BY DEF IInv, TypeOK, Rotations, RotationsLocked, RowsOnlyDie, OthersShrink
<1>3. OverlapSeen'
  BY DEF IInv, TypeOK, Rotations, OverlapSeen, RowsOnlyDie, OthersShrink
<1>4. RevocationsCover'
  BY DEF IInv, RevocationsCover, RowsOnlyDie, OthersShrink
<1> QED BY <1>1, <1>2, <1>3, <1>4

\* A step that leaves the tables alone keeps every part that is about them.
LEMMA TablesUntouched ==
    ASSUME IInv, UNCHANGED <<sess, used, nextSid, nextTok, famOf, ended, burned>>,
           rotations' \subseteq rotations, revocations' \subseteq revocations
    PROVE  /\ Numbered' /\ RotationsLocked' /\ OverlapSeen' /\ RevocationsCover'
           /\ TriplesNamed' /\ ReuseEndsFamily' /\ RevocationHolds'
<1>1. RowsOnlyDie
  BY DEF RowsOnlyDie, Fresh, Live, Present
<1>2. OthersShrink
  BY DEF OthersShrink, IInv, Numbered
<1>3. \A r \in rotations' : Live(r.sid)'
  BY DEF IInv, RotationsLocked, Live
<1>4. TriplesNamed' /\ ReuseEndsFamily' /\ RevocationHolds'
  BY DEF IInv, TriplesNamed, NamedBy, Stored, Consumed, Present, ReuseEndsFamily,
         RevocationHolds, Live
<1> QED BY <1>1, <1>2, <1>3, <1>4, DyingIsSafe

\* Revoke turns live rows of its argument into revoked ones and nothing else.
LEMMA RevokeEffect ==
    ASSUME IInv, NEW R, Revoke(R)
    PROVE  /\ sess' \in [Sids -> Rows]
           /\ \A s \in Sids : /\ sess'[s].fam = sess[s].fam
                              /\ sess'[s].tok = sess[s].tok
                              /\ sess'[s].user = sess[s].user
                              /\ sess'[s].late = sess[s].late
                              /\ Fresh(s)' <=> Fresh(s)
                              /\ Present(s)' <=> Present(s)
                              /\ Live(s)' <=> Live(s) /\ s \notin R
BY SessionsAssumption DEF IInv, TypeOK, Rows, Revoke, Live, Fresh, Present

-------------------------------------------------------------------------------
(***************************************************************************)
(* Steps that insert a row or draw a triple.                               *)
(***************************************************************************)

\* A new live row keeps the invariant when it founds a family of its own or joins
\* one of the same account, when that family was not purged, and when the row is
\* marked late in case the family was, or is being, revoked.
LEMMA InsertEffect ==
    ASSUME IInv, NEW row \in Rows, Insert(row), row.st = "live", row.tok = nextTok,
           row.user \in Users, row.fam \in Sids, row.fam <= nextSid,
           row.fam # nextSid => sess[row.fam].user = row.user,
           row.fam \notin burned,
           row.fam \in ended => row.late,
           \A v \in revocations : row.fam \in v.fams => row.late,
           rotations' \subseteq rotations,
           UNCHANGED <<used, revocations, ended, burned>>
    PROVE  /\ sess' \in [Sids -> Rows] /\ famOf' \in [Triples -> 0..MaxSessions]
           /\ nextSid' \in 1..(MaxSessions + 1) /\ nextTok' \in 1..(MaxTriples + 1)
           /\ Numbered' /\ RotationsLocked' /\ OverlapSeen' /\ RevocationsCover'
           /\ TriplesNamed' /\ ReuseEndsFamily' /\ RevocationHolds'
<1> USE SessionsAssumption
<1>1. /\ sess' \in [Sids -> Rows] /\ famOf' \in [Triples -> 0..MaxSessions]
      /\ nextSid' \in 1..(MaxSessions + 1) /\ nextTok' \in 1..(MaxTriples + 1)
      /\ nextSid \in Sids /\ nextTok \in Triples
  BY DEF IInv, TypeOK, Insert, Sids, Triples
<1>2. /\ \A s \in Sids : sess'[s] = IF s = nextSid THEN row ELSE sess[s]
      /\ \A t \in Triples : famOf'[t] = IF t = nextTok THEN row.fam ELSE famOf[t]
      /\ nextSid' = nextSid + 1 /\ nextTok' = nextTok + 1
  BY <1>1 DEF IInv, TypeOK, Insert
<1>3. Fresh(nextSid)
  BY <1>1 DEF IInv, Numbered, Sids
<1>4. Numbered'
  <2>1. \A s \in Sids : Fresh(s)' <=> s >= nextSid'
    BY <1>1, <1>2 DEF IInv, Numbered, Fresh, Sids
  <2>2. ASSUME NEW s \in Sids, ~Fresh(s)'
        PROVE  /\ sess'[s].fam \in Sids /\ sess'[s].fam < nextSid'
               /\ sess'[s].tok \in Triples /\ sess'[s].tok < nextTok'
               /\ sess'[s].user \in Users
               /\ sess'[sess'[s].fam].user = sess'[s].user
    <3>1. CASE s = nextSid
      BY <3>1, <1>1, <1>2 DEF Sids, Triples
    <3>2. CASE s # nextSid
      <4>1. sess'[s] = sess[s] /\ ~Fresh(s)
        BY <3>2, <2>2, <1>2 DEF Fresh
      <4>2. /\ sess[s].fam \in Sids /\ sess[s].fam < nextSid
            /\ sess[s].tok \in Triples /\ sess[s].tok < nextTok
            /\ sess[s].user \in Users /\ sess[sess[s].fam].user = sess[s].user
        BY <4>1 DEF IInv, Numbered
      <4>3. sess[s].fam # nextSid
        BY <4>2, <1>1, SMTT(60) DEF Sids
      <4>4. sess'[sess[s].fam] = sess[sess[s].fam]
        BY <4>2, <4>3, <1>2
      <4> QED BY <4>1, <4>2, <4>4, <1>1, <1>2 DEF Sids, Triples
    <3> QED BY <3>1, <3>2
  <2>3. /\ \A t \in Triples : famOf'[t] < nextSid'
        /\ \A t \in Triples : t >= nextTok' => famOf'[t] = 0
        /\ \A f \in ended' \cup burned' : f < nextSid'
    BY <1>1, <1>2 DEF IInv, TypeOK, Numbered, Sids, Triples
  <2>4. \A t \in Triples : Consumed(t)' => used'[t].sid \in Sids /\ ~Fresh(used[t].sid)'
    BY <1>1, <1>2, <1>3 DEF IInv, Numbered, Fresh, Consumed
  <2> QED BY <2>1, <2>2, <2>3, <2>4 DEF Numbered
<1>5. \A r \in rotations : r.sid \in Sids /\ r.sid # nextSid /\ sess'[r.sid] = sess[r.sid]
  BY <1>2, <1>3 DEF IInv, TypeOK, Rotations, RotationsLocked, Fresh, Live
<1>6. RotationsLocked'
  BY <1>5 DEF IInv, RotationsLocked, Live
<1>7. OverlapSeen'
  BY <1>5 DEF IInv, OverlapSeen
<1>8. RevocationsCover'
  <2> SUFFICES ASSUME NEW v \in revocations
               PROVE  /\ \A f \in v.fams : f < nextSid'
                      /\ \A s \in Sids : Live(s)' /\ sess'[s].fam \in v.fams
                                            => s \in v.rows \/ sess'[s].late
    BY DEF RevocationsCover
  <2>1. v.fams \subseteq Sids
    BY DEF IInv, TypeOK, Revocations
  <2>2. \A f \in v.fams : f < nextSid'
    BY <2>1, <1>1, <1>2 DEF IInv, RevocationsCover, Sids
  <2>3. \A s \in Sids : Live(s)' /\ sess'[s].fam \in v.fams => s \in v.rows \/ sess'[s].late
    BY <1>2 DEF IInv, RevocationsCover, Live
  <2> QED BY <2>2, <2>3
<1>9. ReuseEndsFamily' /\ RevocationHolds'
  BY <1>2 DEF IInv, ReuseEndsFamily, RevocationHolds, Live
<1>10. TriplesNamed'
  <2>1. ASSUME NEW s \in Sids, Present(s)', famOf'[sess'[s].tok] # 0
        PROVE  famOf'[sess'[s].tok] = sess'[s].fam
    <3>1. CASE s = nextSid
      BY <3>1, <1>1, <1>2
    <3>2. CASE s # nextSid
      <4>1. sess'[s] = sess[s] /\ Present(s) /\ ~Fresh(s)
        BY <3>2, <2>1, <1>2 DEF Present, Fresh
      <4>2. sess[s].tok \in Triples /\ sess[s].tok # nextTok
        BY <4>1, <1>1 DEF IInv, Numbered, Triples
      <4> QED BY <2>1, <4>1, <4>2, <1>2 DEF IInv, TriplesNamed
    <3> QED BY <3>1, <3>2
  <2>2. ASSUME NEW t \in Triples, famOf'[t] # 0
        PROVE  famOf'[t] \in NamedBy(t)' \/ famOf'[t] \in burned'
    <3>1. CASE t = nextTok
      <4>1. nextSid \in Stored(t)' /\ sess'[nextSid].fam = famOf'[t]
        BY <3>1, <1>1, <1>2 DEF Stored
      <4> QED BY <4>1 DEF NamedBy
    <3>2. CASE t # nextTok
      <4>1. famOf'[t] = famOf[t]
        BY <3>2, <1>2
      <4>2. CASE famOf[t] \in burned
        BY <4>1, <4>2
      <4>3. CASE \E s \in Stored(t) : famOf[t] = sess[s].fam
        <5>1. PICK s \in Stored(t) : famOf[t] = sess[s].fam
          BY <4>3
        <5>2. s \in Stored(t)' /\ sess'[s].fam = sess[s].fam
          BY <5>1, <1>2, <1>3 DEF Stored, Fresh
        <5> QED BY <4>1, <5>1, <5>2 DEF NamedBy
      <4>4. CASE Consumed(t) /\ famOf[t] = sess[used[t].sid].fam
        <5>1. Consumed(t)' /\ sess'[used'[t].sid].fam = famOf[t]
          BY <4>4, <1>2, <1>3 DEF IInv, Numbered, Consumed, Fresh
        <5> QED BY <4>1, <5>1 DEF NamedBy
      <4>5. famOf[t] \in NamedBy(t) \/ famOf[t] \in burned
        BY <2>2, <4>1 DEF IInv, TriplesNamed
      <4> QED BY <4>2, <4>3, <4>4, <4>5 DEF NamedBy
    <3> QED BY <3>1, <3>2
  <2> QED BY <2>1, <2>2 DEF TriplesNamed
<1> QED BY <1>1, <1>4, <1>6, <1>7, <1>8, <1>9, <1>10

\* A row that is given another triple is a row.
LEMMA RowRetokened ==
    ASSUME NEW row \in Rows, NEW k \in 0..MaxTriples, NEW at \in Times
    PROVE  [row EXCEPT !.tok = k, !.issued = at] \in Rows
BY DEF Rows

\* A sibling of a row is a row.
LEMMA RowForked ==
    ASSUME NEW row \in Rows, NEW k \in 0..MaxTriples, NEW at \in Times, NEW b \in BOOLEAN
    PROVE  [row EXCEPT !.st = "live", !.tok = k, !.issued = at, !.late = row.late \/ b] \in Rows
BY DEF Rows

\* A live rotation that commits moves its row to the new triple and records the
\* old one as consumed.
LEMMA WriteNewTokensEffect ==
    ASSUME IInv, NEW r \in rotations, r.kind = "live", WriteNewTokens(r),
           rotations' = rotations \ ({r} \cup Conflicting(sess[r.sid].fam)),
           UNCHANGED <<revocations, ended, burned>>
    PROVE  /\ sess' \in [Sids -> Rows] /\ used' \in [Triples -> Uses]
           /\ famOf' \in [Triples -> 0..MaxSessions]
           /\ nextTok' \in 1..(MaxTriples + 1)
           /\ Numbered' /\ RotationsLocked' /\ OverlapSeen' /\ RevocationsCover'
           /\ TriplesNamed' /\ ReuseEndsFamily' /\ RevocationHolds'
<1> USE SessionsAssumption
<1>1. /\ r.sid \in Sids /\ r.tok \in Triples /\ r.at \in Times
      /\ nextTok \in Triples /\ Live(r.sid) /\ sess[r.sid].tok = r.tok
  <2>1. r \in Rotations /\ Live(r.sid) /\ sess[r.sid].tok = r.tok
    BY DEF IInv, TypeOK, RotationsLocked
  <2>2. nextTok \in Triples
    BY DEF IInv, TypeOK, WriteNewTokens, Triples
  <2> QED BY <2>1, <2>2 DEF Rotations
<1>2. /\ sess' \in [Sids -> Rows] /\ used' \in [Triples -> Uses]
      /\ nextTok' \in 1..(MaxTriples + 1)
  <2>1. used' \in [Triples -> Uses] /\ nextTok' \in 1..(MaxTriples + 1)
    <3>1. [sid |-> r.sid, at |-> r.at] \in Uses
      BY <1>1 DEF Uses, Sids
    <3>2. used' \in [Triples -> Uses]
      BY <3>1, <1>1 DEF IInv, TypeOK, WriteNewTokens
    <3>3. nextTok' \in 1..(MaxTriples + 1)
      BY <1>1 DEF WriteNewTokens, Triples
    <3> QED BY <3>2, <3>3
  <2>2. [sess[r.sid] EXCEPT !.tok = nextTok, !.issued = r.at] \in Rows
    <3>1. sess[r.sid] \in Rows
      BY <1>1 DEF IInv, TypeOK
    <3>2. nextTok \in 0..MaxTriples
      BY <1>1 DEF Triples
    <3> QED BY <3>1, <3>2, <1>1, RowRetokened
  <2>3. sess' = [sess EXCEPT ![r.sid] = [sess[r.sid] EXCEPT !.tok = nextTok, !.issued = r.at]]
    BY <1>1 DEF IInv, TypeOK, WriteNewTokens, Rows
  <2>4. sess' \in [Sids -> Rows]
    BY <1>1, <2>2, <2>3 DEF IInv, TypeOK
  <2> QED BY <2>1, <2>4
<1>3. famOf' \in [Triples -> 0..MaxSessions]
  BY <1>1 DEF IInv, TypeOK, WriteNewTokens, Rows
<1>4. \A s \in Sids :
          /\ sess'[s].st = sess[s].st /\ sess'[s].fam = sess[s].fam
          /\ sess'[s].user = sess[s].user /\ sess'[s].late = sess[s].late
          /\ sess'[s].tok = IF s = r.sid THEN nextTok ELSE sess[s].tok
  <2> TAKE s \in Sids
  <2>1. sess[s] \in Rows /\ sess \in [Sids -> Rows]
    BY DEF IInv, TypeOK
  <2>2. CASE s # r.sid
    BY <2>1, <2>2, <1>1 DEF WriteNewTokens
  <2>3. CASE s = r.sid
    BY <2>1, <2>3, <1>1 DEF WriteNewTokens, Rows
  <2> QED BY <2>2, <2>3
<1>5. /\ \A t \in Triples : famOf'[t] = IF t = nextTok THEN sess[r.sid].fam ELSE famOf[t]
      /\ \A t \in Triples : used'[t] = IF t = r.tok THEN [sid |-> r.sid, at |-> r.at]
                                                    ELSE used[t]
      /\ nextTok' = nextTok + 1 /\ nextSid' = nextSid
  BY <1>1 DEF IInv, TypeOK, WriteNewTokens
<1>6. ~Fresh(r.sid) /\ Present(r.sid)
  BY <1>1 DEF Live, Fresh, Present
<1>7. Consumed(r.tok)' /\ used'[r.tok].sid = r.sid
  BY <1>1, <1>5 DEF Consumed, NoUse, Sids
<1>8. Numbered'
  <2>1. \A s \in Sids : Fresh(s)' <=> s >= nextSid'
    BY <1>4, <1>5 DEF IInv, Numbered, Fresh
  <2>2. \A s \in Sids : ~Fresh(s)' =>
            /\ sess'[s].fam \in Sids /\ sess'[s].fam < nextSid'
            /\ sess'[s].tok \in Triples /\ sess'[s].tok < nextTok'
            /\ sess'[s].user \in Users /\ sess'[sess'[s].fam].user = sess'[s].user
    BY <1>1, <1>4, <1>5 DEF IInv, Numbered, Fresh, Triples
  <2>3. /\ \A t \in Triples : famOf'[t] < nextSid'
        /\ \A t \in Triples : t >= nextTok' => famOf'[t] = 0
        /\ \A f \in ended' \cup burned' : f < nextSid'
    BY <1>1, <1>5, <1>6 DEF IInv, Numbered, Triples
  <2>4. \A t \in Triples : Consumed(t)' => used'[t].sid \in Sids /\ ~Fresh(used[t].sid)'
    <3> SUFFICES ASSUME NEW t \in Triples, Consumed(t)'
                 PROVE  used'[t].sid \in Sids /\ sess'[used'[t].sid].st # "absent"
      BY DEF Fresh
    <3>1. CASE t = r.tok
      BY <3>1, <1>1, <1>4, <1>6, <1>7 DEF Fresh
    <3>2. CASE t # r.tok
      BY <3>2, <1>4, <1>5 DEF IInv, Numbered, Fresh, Consumed
    <3> QED BY <3>1, <3>2
  <2> QED BY <2>1, <2>2, <2>3, <2>4 DEF Numbered
<1>9. ASSUME NEW q \in rotations'
      PROVE  q \in rotations /\ q.sid \in Sids /\ q.sid # r.sid
  BY DEF IInv, TypeOK, Rotations, Conflicting
<1>10. RotationsLocked' /\ OverlapSeen'
  <2>1. RotationsLocked'
    BY <1>4, <1>9 DEF IInv, RotationsLocked, Live
  <2>2. OverlapSeen'
    BY <1>4, <1>9 DEF IInv, OverlapSeen
  <2> QED BY <2>1, <2>2
<1>11. RevocationsCover' /\ ReuseEndsFamily' /\ RevocationHolds'
  BY <1>4, <1>5 DEF IInv, RevocationsCover, ReuseEndsFamily, RevocationHolds, Live
<1>12. TriplesNamed'
  <2>1. \A s \in Sids : Present(s)' /\ famOf'[sess'[s].tok] # 0
                           => famOf'[sess'[s].tok] = sess'[s].fam
    BY <1>1, <1>4, <1>5, <1>6 DEF IInv, Numbered, TriplesNamed, Present, Fresh, Triples
  <2>2. ASSUME NEW t \in Triples, famOf'[t] # 0
        PROVE  famOf'[t] \in NamedBy(t)' \/ famOf'[t] \in burned'
    <3>1. CASE t = nextTok
      <4>1. r.sid \in Stored(t)' /\ sess'[r.sid].fam = famOf'[t]
        BY <3>1, <1>1, <1>4, <1>5, <1>6 DEF Stored, Present
      <4> QED BY <4>1 DEF NamedBy
    <3>2. CASE t = r.tok /\ t # nextTok
      <4>1. famOf'[t] = sess'[used'[t].sid].fam
        BY <2>2, <3>2, <1>1, <1>4, <1>5, <1>6, <1>7 DEF IInv, TriplesNamed
      <4> QED BY <3>2, <4>1, <1>7 DEF NamedBy
    <3>3. CASE t # r.tok /\ t # nextTok
      <4>1. famOf'[t] = famOf[t]
        BY <3>3, <1>5
      <4>2. CASE famOf[t] \in burned
        BY <4>1, <4>2
      <4>3. CASE \E s \in Stored(t) : famOf[t] = sess[s].fam
        <5>1. PICK s \in Stored(t) : famOf[t] = sess[s].fam
          BY <4>3
        <5>2. s # r.sid
          BY <5>1, <3>3, <1>1 DEF Stored
        <5>3. s \in Stored(t)' /\ sess'[s].fam = sess[s].fam
          BY <5>1, <5>2, <1>4 DEF Stored
        <5> QED BY <4>1, <5>1, <5>3 DEF NamedBy
      <4>4. CASE Consumed(t) /\ famOf[t] = sess[used[t].sid].fam
        <5>1. Consumed(t)' /\ sess'[used'[t].sid].fam = famOf[t]
          BY <4>4, <3>3, <1>4, <1>5 DEF IInv, Numbered, Consumed
        <5> QED BY <4>1, <5>1 DEF NamedBy
      <4>5. famOf[t] \in NamedBy(t) \/ famOf[t] \in burned
        BY <2>2, <4>1 DEF IInv, TriplesNamed
      <4> QED BY <4>2, <4>3, <4>4, <4>5 DEF NamedBy
    <3> QED BY <3>1, <3>2, <3>3
  <2> QED BY <2>1, <2>2 DEF TriplesNamed
<1> QED BY <1>2, <1>3, <1>5, <1>8, <1>10, <1>11, <1>12

-------------------------------------------------------------------------------
(***************************************************************************)
(* Every action preserves the invariant.                                   *)
(***************************************************************************)

\* Verifying a password (repository.go: verifyPassword) only adds a login in flight.
LEMMA VerifyPasswordStep ==
    ASSUME IInv, NEW u \in Users, NEW pw \in Passwords, VerifyPassword(u, pw)
    PROVE  IInv'
<1> USE DEF VerifyPassword
<1>1. TypeOK'
  BY DEF IInv, TypeOK, Logins, Accounts
<1>2. LoginsDated' /\ AccountsLocked'
  BY SessionsAssumption DEF IInv, TypeOK, LoginsDated, AccountsLocked, Accounts
<1> QED BY <1>1, <1>2, TablesUntouched DEF IInv

\* A refused login writes nothing (repository.go: IssueSession).
LEMMA IssueRefusedStep ==
    ASSUME IInv, NEW l \in logins, IssueRefused(l)
    PROVE  IInv'
<1> USE DEF IssueRefused
<1>1. TypeOK'
  BY DEF IInv, TypeOK
<1>2. LoginsDated' /\ AccountsLocked'
  BY DEF IInv, LoginsDated, AccountsLocked
<1> QED BY <1>1, <1>2, TablesUntouched DEF IInv

\* A login founds a family of its own, whose number no revocation knows yet.
LEMMA IssueSessionStep ==
    ASSUME IInv, NEW l \in logins, IssueSession(l)
    PROVE  IInv'
<1> USE SessionsAssumption
<1> DEFINE row == [st |-> "live", user |-> l.user, fam |-> nextSid, tok |-> nextTok,
                   born |-> now, issued |-> now, proof |-> l.pw, late |-> FALSE]
<1>1. Insert(row) /\ UNCHANGED <<now, acct, used, rotations, revocations, ended, burned>>
      /\ logins' = logins \ {l}
  BY DEF IssueSession
<1>2. nextSid \in Sids /\ nextTok \in Triples /\ l.user \in Users /\ l.pw \in Passwords
      /\ now \in Times
  BY <1>1 DEF IInv, TypeOK, Insert, Logins, Sids, Triples
<1>3. row \in Rows
  BY <1>2 DEF Rows, Sids, Triples
<1>4. nextSid \notin burned /\ nextSid \notin ended
  BY <1>2 DEF IInv, Numbered, Sids
<1>5. \A v \in revocations : nextSid \notin v.fams
  BY <1>2 DEF IInv, RevocationsCover, Sids
<1>6. /\ row.st = "live" /\ row.tok = nextTok /\ row.user \in Users /\ row.fam \in Sids
      /\ row.fam = nextSid /\ row.fam <= nextSid
  BY <1>2 DEF Sids
<1> HIDE DEF row
<1>7. /\ sess' \in [Sids -> Rows] /\ famOf' \in [Triples -> 0..MaxSessions]
      /\ nextSid' \in 1..(MaxSessions + 1) /\ nextTok' \in 1..(MaxTriples + 1)
      /\ Numbered' /\ RotationsLocked' /\ OverlapSeen' /\ RevocationsCover'
      /\ TriplesNamed' /\ ReuseEndsFamily' /\ RevocationHolds'
  BY <1>1, <1>3, <1>4, <1>5, <1>6, InsertEffect
<1>8. TypeOK'
  BY <1>1, <1>7 DEF IInv, TypeOK
<1>9. LoginsDated' /\ AccountsLocked'
  BY <1>1 DEF IInv, LoginsDated, AccountsLocked
<1> QED BY <1>7, <1>8, <1>9 DEF IInv

\* A rotation that locks a live row knows which revocations it overlaps.
LEMMA BeginRotationStep ==
    ASSUME IInv, NEW t \in Triples, NEW s \in Sids, NEW kind \in {"live", "grace"},
           BeginRotation(t, s, kind), Live(s), kind = "live" => sess[s].tok = t
    PROVE  IInv'
<1> DEFINE r == [tok |-> t, sid |-> s, kind |-> kind, at |-> now,
                 overlap |-> BeingRevoked(sess[s].fam)]
<1>1. /\ rotations' = rotations \cup {r}
      /\ UNCHANGED <<now, acct, sess, used, nextSid, nextTok, logins, revocations,
                     famOf, ended, burned>>
  BY DEF BeginRotation
<1>2. r \in Rotations
  BY DEF IInv, TypeOK, Rotations, BeingRevoked
<1>3. r.sid = s /\ r.kind = kind /\ r.tok = t /\ r.overlap = BeingRevoked(sess[s].fam)
  OBVIOUS
<1> HIDE DEF r
<1>4. TypeOK'
  BY <1>1, <1>2 DEF IInv, TypeOK
<1>5. RotationsLocked'
  BY <1>1, <1>3 DEF IInv, RotationsLocked, Live
<1>6. OverlapSeen'
  BY <1>1, <1>3 DEF IInv, OverlapSeen, BeingRevoked
<1>7. Numbered' /\ RevocationsCover'
  BY <1>1 DEF IInv, Numbered, RevocationsCover, Live, Fresh, Consumed
<1>8. TriplesNamed' /\ LoginsDated' /\ AccountsLocked' /\ ReuseEndsFamily' /\ RevocationHolds'
  BY <1>1 DEF IInv, TriplesNamed, NamedBy, Stored, Consumed, Present, LoginsDated, AccountsLocked,
              ReuseEndsFamily, RevocationHolds, Live
<1> QED BY <1>4, <1>5, <1>6, <1>7, <1>8 DEF IInv

\* A grace rotation adds a sibling to a family that has a live session: the family
\* was not purged, and if it was or is being revoked the sibling is marked late.
LEMMA RotateCommitStep ==
    ASSUME IInv, NEW r \in rotations, RotateCommit(r)
    PROVE  IInv'
<1> USE SessionsAssumption
<1>1. /\ rotations' = rotations \ ({r} \cup Conflicting(sess[r.sid].fam))
      /\ UNCHANGED <<now, acct, logins, revocations, ended, burned>>
  BY DEF RotateCommit
<1>2. r \in Rotations /\ Live(r.sid)
  BY DEF IInv, TypeOK, RotationsLocked
<1>3. LoginsDated' /\ AccountsLocked'
  BY <1>1 DEF IInv, LoginsDated, AccountsLocked
<1>4. CASE r.kind = "live"
  <2>1. WriteNewTokens(r)
    BY <1>4 DEF RotateCommit
  <2>2. /\ sess' \in [Sids -> Rows] /\ used' \in [Triples -> Uses]
        /\ famOf' \in [Triples -> 0..MaxSessions]
        /\ nextTok' \in 1..(MaxTriples + 1)
        /\ Numbered' /\ RotationsLocked' /\ OverlapSeen' /\ RevocationsCover'
        /\ TriplesNamed' /\ ReuseEndsFamily' /\ RevocationHolds'
    BY <2>1, <1>1, <1>4, WriteNewTokensEffect
  <2>3. nextSid' = nextSid
    BY <2>1 DEF WriteNewTokens
  <2>4. TypeOK'
    BY <2>2, <2>3, <1>1 DEF IInv, TypeOK
  <2> QED BY <2>2, <2>4, <1>3 DEF IInv
<1>5. CASE r.kind = "grace"
  <2> DEFINE row == [sess[r.sid] EXCEPT !.st = "live", !.tok = nextTok, !.issued = r.at,
                                        !.late = sess[r.sid].late \/ r.overlap]
  <2>1. Insert(row) /\ UNCHANGED used
    BY <1>5 DEF RotateCommit, InsertSibling
  <2>2. /\ r.sid \in Sids /\ r.at \in Times /\ r.overlap \in BOOLEAN
        /\ nextTok \in Triples /\ sess[r.sid] \in Rows
    BY <2>1, <1>2 DEF IInv, TypeOK, Rotations, Insert, Triples
  <2>3. row \in Rows
    <3>1. nextTok \in 0..MaxTriples
      BY <2>2 DEF Triples
    <3> QED BY <2>2, <3>1, RowForked
  <2>4. /\ row.st = "live" /\ row.tok = nextTok /\ row.user = sess[r.sid].user
        /\ row.fam = sess[r.sid].fam /\ row.late = (sess[r.sid].late \/ r.overlap)
    BY <2>2 DEF Rows
  <2> HIDE DEF row
  <2>5. /\ row.user \in Users /\ row.fam \in Sids /\ row.fam < nextSid
        /\ sess[row.fam].user = row.user
    BY <2>2, <2>4, <1>2 DEF IInv, Numbered, Live, Fresh
  <2>6. row.fam \notin burned /\ (row.fam \in ended => row.late)
    BY <2>2, <2>4, <1>2 DEF IInv, ReuseEndsFamily, RevocationHolds
  <2>7. \A v \in revocations : row.fam \in v.fams => row.late
    BY <2>4 DEF IInv, OverlapSeen
  <2>8. row.fam <= nextSid /\ rotations' \subseteq rotations
    BY <2>5, <1>1 DEF IInv, TypeOK, Sids
  <2>9. /\ sess' \in [Sids -> Rows] /\ famOf' \in [Triples -> 0..MaxSessions]
        /\ nextSid' \in 1..(MaxSessions + 1) /\ nextTok' \in 1..(MaxTriples + 1)
        /\ Numbered' /\ RotationsLocked' /\ OverlapSeen' /\ RevocationsCover'
        /\ TriplesNamed' /\ ReuseEndsFamily' /\ RevocationHolds'
    BY <2>1, <2>3, <2>4, <2>5, <2>6, <2>7, <2>8, <1>1, InsertEffect
  <2>10. TypeOK'
    BY <2>1, <2>9, <1>1 DEF IInv, TypeOK
  <2> QED BY <2>9, <2>10, <1>3 DEF IInv
<1> QED BY <1>2, <1>4, <1>5 DEF Rotations

\* A rotation that is rolled back leaves nothing behind (rotate.go: Rotate).
LEMMA RotateAbortStep ==
    ASSUME IInv, NEW r \in rotations, RotateAbort(r)
    PROVE  IInv'
<1> USE DEF RotateAbort
<1>1. TypeOK' /\ LoginsDated' /\ AccountsLocked'
  BY DEF IInv, TypeOK, LoginsDated, AccountsLocked
<1> QED BY <1>1, TablesUntouched DEF IInv

\* Revoking rows that no remaining rotation holds keeps everything, the families
\* that are newly recorded as ended or purged aside.
LEMMA RevokeStep ==
    ASSUME IInv, NEW R, Revoke(R), rotations' \subseteq rotations,
           \A r \in rotations' : r.sid \notin R,
           revocations' \subseteq revocations,
           UNCHANGED <<nextSid, nextTok, famOf>>,
           \A t \in Triples : used'[t] \in {used[t], NoUse},
           \A f \in ended' \cup burned' : f < nextSid
    PROVE  /\ sess' \in [Sids -> Rows]
           /\ Numbered' /\ RotationsLocked' /\ OverlapSeen' /\ RevocationsCover'
<1>1. /\ sess' \in [Sids -> Rows]
      /\ \A s \in Sids : /\ sess'[s].fam = sess[s].fam
                         /\ sess'[s].tok = sess[s].tok
                         /\ sess'[s].user = sess[s].user
                         /\ sess'[s].late = sess[s].late
                         /\ Fresh(s)' <=> Fresh(s)
                         /\ Present(s)' <=> Present(s)
                         /\ Live(s)' <=> Live(s) /\ s \notin R
  BY RevokeEffect
<1>2. RowsOnlyDie
  BY <1>1 DEF RowsOnlyDie
<1>3. OthersShrink
  BY DEF OthersShrink
<1>4. \A r \in rotations' : Live(r.sid)'
  BY <1>1 DEF IInv, TypeOK, Rotations, RotationsLocked
<1> QED BY <1>1, <1>2, <1>3, <1>4, DyingIsSafe

\* Revoking keeps what the tables say of the triples.
LEMMA RevokeKeepsNames ==
    ASSUME IInv, NEW R, Revoke(R), UNCHANGED <<used, famOf, burned>>
    PROVE  TriplesNamed'
<1>1. \A s \in Sids : /\ sess'[s].fam = sess[s].fam
                      /\ sess'[s].tok = sess[s].tok
                      /\ Present(s)' <=> Present(s)
  BY RevokeEffect
<1>2. ASSUME NEW t \in Triples
      PROVE  NamedBy(t)' = NamedBy(t)
  <2>1. Stored(t)' = Stored(t) /\ Stored(t) \subseteq Sids
    BY <1>1 DEF Stored, Present
  <2>2. {sess'[s].fam : s \in Stored(t)} = {sess[s].fam : s \in Stored(t)}
    BY <1>1, <2>1
  <2>3. Consumed(t)' <=> Consumed(t)
    BY DEF Consumed
  <2>4. Consumed(t) => sess'[used'[t].sid].fam = sess[used[t].sid].fam
    BY <1>1 DEF IInv, Numbered
  <2> QED BY <2>1, <2>2, <2>3, <2>4 DEF NamedBy
<1> QED BY <1>1, <1>2 DEF IInv, TriplesNamed

\* A rotation that expires its family rolls back the rotations of that family.
LEMMA RotateExpiresStep ==
    ASSUME IInv, NEW t \in Triples, RotateExpires(t)
    PROVE  IInv'
<1>1. PICK s \in Sids : RevokeFamily(sess[s].fam)
  BY DEF RotateExpires
<1>2. UNCHANGED <<now, acct, used, nextSid, nextTok, logins, revocations, famOf, ended, burned>>
  BY DEF RotateExpires
<1> DEFINE f == sess[s].fam
<1>3. Revoke(Family(f)) /\ rotations' = rotations \ Conflicting(f)
  BY <1>1 DEF RevokeFamily
<1>4. \A r \in rotations' : r.sid \notin Family(f)
  BY <1>3 DEF Conflicting, Family
<1>5. /\ sess' \in [Sids -> Rows]
      /\ Numbered' /\ RotationsLocked' /\ OverlapSeen' /\ RevocationsCover'
  <2>1. \A g \in ended' \cup burned' : g < nextSid
    BY <1>2 DEF IInv, Numbered
  <2>2. \A k \in Triples : used'[k] \in {used[k], NoUse}
    BY <1>2
  <2> QED BY <1>2, <1>3, <1>4, <2>1, <2>2, RevokeStep
<1>6. TriplesNamed'
  BY <1>2, <1>3, RevokeKeepsNames
<1>7. ReuseEndsFamily' /\ RevocationHolds'
  BY <1>2, <1>3, RevokeEffect DEF IInv, ReuseEndsFamily, RevocationHolds
<1>8. TypeOK'
  BY <1>2, <1>3, <1>5 DEF IInv, TypeOK
<1>9. LoginsDated' /\ AccountsLocked'
  BY <1>2 DEF IInv, LoginsDated, AccountsLocked
<1> QED BY <1>5, <1>6, <1>7, <1>8, <1>9 DEF IInv

\* The reuse detector revokes every live session of the family, rolls back its
\* rotations and forgets its consumed tokens.
LEMMA RotateReuseStep ==
    ASSUME IInv, NEW t \in Triples, RotateReuse(t)
    PROVE  IInv'
<1> USE SessionsAssumption
<1> DEFINE f == sess[used[t].sid].fam
<1>1. /\ Revoke(Family(f)) /\ rotations' = rotations \ Conflicting(f)
      /\ used' = [k \in Triples |-> IF Consumed(k) /\ sess[used[k].sid].fam = f
                                    THEN NoUse ELSE used[k]]
      /\ burned' = burned \cup {f} /\ Consumed(t)
      /\ UNCHANGED <<now, acct, nextSid, nextTok, logins, revocations, famOf, ended>>
  BY DEF RotateReuse, Purge, RevokeFamily
<1>2. f \in Sids /\ f < nextSid
  BY <1>1 DEF IInv, Numbered
<1> HIDE DEF f
<1>3. \A r \in rotations' : r.sid \notin Family(f)
  BY <1>1 DEF Conflicting, Family
<1>4. /\ sess' \in [Sids -> Rows]
      /\ Numbered' /\ RotationsLocked' /\ OverlapSeen' /\ RevocationsCover'
  <2>1. \A g \in ended' \cup burned' : g < nextSid
    BY <1>1, <1>2 DEF IInv, Numbered
  <2>2. \A k \in Triples : used'[k] \in {used[k], NoUse}
    BY <1>1
  <2> QED BY <1>1, <1>3, <2>1, <2>2, RevokeStep
<1>5. \A s \in Sids : /\ sess'[s].fam = sess[s].fam
                      /\ sess'[s].tok = sess[s].tok
                      /\ sess'[s].late = sess[s].late
                      /\ Present(s)' <=> Present(s)
                      /\ Live(s)' <=> Live(s) /\ s \notin Family(f)
  BY <1>1, RevokeEffect
<1>6. ReuseEndsFamily' /\ RevocationHolds'
  BY <1>1, <1>5 DEF IInv, ReuseEndsFamily, RevocationHolds, Family, Live
<1>7. TriplesNamed'
  <2>1. \A s \in Sids : Present(s)' /\ famOf'[sess'[s].tok] # 0
                           => famOf'[sess'[s].tok] = sess'[s].fam
    BY <1>1, <1>5 DEF IInv, TriplesNamed
  <2>2. ASSUME NEW k \in Triples, famOf'[k] # 0
        PROVE  famOf'[k] \in NamedBy(k)' \/ famOf'[k] \in burned'
    <3>1. famOf[k] \in NamedBy(k) \/ famOf[k] \in burned
      BY <2>2, <1>1 DEF IInv, TriplesNamed
    <3>2. CASE famOf[k] \in burned
      BY <3>2, <1>1
    <3>3. CASE \E s \in Stored(k) : famOf[k] = sess[s].fam
      <4>1. PICK s \in Stored(k) : famOf[k] = sess[s].fam
        BY <3>3
      <4>2. s \in Stored(k)' /\ famOf'[k] = sess'[s].fam
        BY <4>1, <1>1, <1>5 DEF Stored, Present
      <4> QED BY <4>2 DEF NamedBy
    <3>4. CASE Consumed(k) /\ famOf[k] = sess[used[k].sid].fam
      <4>1. CASE famOf[k] = f
        BY <4>1, <1>1
      <4>2. CASE famOf[k] # f
        <5>1. used'[k] = used[k]
          BY <4>2, <3>4, <1>1
        <5>2. Consumed(k)' /\ famOf'[k] = sess'[used'[k].sid].fam
          BY <5>1, <3>4, <1>1, <1>5 DEF IInv, Numbered, Consumed
        <5> QED BY <5>2 DEF NamedBy
      <4> QED BY <4>1, <4>2
    <3> QED BY <3>1, <3>2, <3>3, <3>4 DEF NamedBy
  <2> QED BY <2>1, <2>2 DEF TriplesNamed
<1>8. TypeOK'
  <2>1. used' \in [Triples -> Uses]
    BY <1>1 DEF IInv, TypeOK, NoUse, Uses, Times
  <2> QED BY <2>1, <1>1, <1>2, <1>4 DEF IInv, TypeOK
<1>9. LoginsDated' /\ AccountsLocked'
  BY <1>1 DEF IInv, LoginsDated, AccountsLocked
<1> QED BY <1>4, <1>6, <1>7, <1>8, <1>9 DEF IInv

\* A revocation begins with every live session of its families in its snapshot,
\* and marks the rotations it overlaps.
LEMMA BeginRevocationStep ==
    ASSUME IInv, NEW v \in Revocations, BeginRevocation(v),
           \A f \in v.fams : f < nextSid,
           \A s \in Sids : Live(s) /\ sess[s].fam \in v.fams => s \in v.rows,
           v.kind # "logout" => v.user \notin LockedUsers /\ acct[v.user].epoch < MaxEpoch
    PROVE  IInv'
<1> DEFINE Marked(r) == [r EXCEPT !.overlap = @ \/ sess[r.sid].fam \in v.fams]
<1>1. /\ revocations' = revocations \cup {v}
      /\ rotations' = {Marked(r) : r \in rotations}
      /\ UNCHANGED <<now, acct, sess, used, nextSid, nextTok, logins, famOf, ended, burned>>
  BY DEF BeginRevocation
<1>2. ASSUME NEW r \in rotations
      PROVE  /\ Marked(r) \in Rotations
             /\ Marked(r).sid = r.sid /\ Marked(r).kind = r.kind /\ Marked(r).tok = r.tok
             /\ Marked(r).overlap = (r.overlap \/ sess[r.sid].fam \in v.fams)
  <2>1. r \in Rotations
    BY DEF IInv, TypeOK
  <2> QED BY <2>1 DEF Rotations
<1> HIDE DEF Marked
<1>3. TypeOK'
  BY <1>1, <1>2 DEF IInv, TypeOK
<1>4. RotationsLocked'
  BY <1>1, <1>2 DEF IInv, RotationsLocked, Live
<1>5. OverlapSeen'
  <2> SUFFICES ASSUME NEW r \in rotations, NEW w \in revocations',
                      sess[r.sid].fam \in w.fams
               PROVE  Marked(r).overlap
    BY <1>1, <1>2 DEF OverlapSeen
  <2>1. CASE w = v
    BY <2>1, <1>2
  <2>2. CASE w \in revocations
    BY <2>2, <1>2 DEF IInv, OverlapSeen
  <2> QED BY <2>1, <2>2, <1>1
<1>6. RevocationsCover'
  BY <1>1 DEF IInv, RevocationsCover, Live
<1>7. Numbered' /\ LoginsDated' /\ AccountsLocked'
  <2>1. Numbered' /\ LoginsDated'
    BY <1>1 DEF IInv, Numbered, LoginsDated, Fresh, Consumed
  <2>2. AccountsLocked'
    BY <1>1 DEF IInv, AccountsLocked, LockedUsers
  <2> QED BY <2>1, <2>2
<1>8. TriplesNamed' /\ ReuseEndsFamily' /\ RevocationHolds'
  BY <1>1 DEF IInv, TriplesNamed, NamedBy, Stored, Consumed, Present,
              ReuseEndsFamily, RevocationHolds, Live
<1> QED BY <1>3, <1>4, <1>5, <1>6, <1>7, <1>8 DEF IInv

\* Logout finds the family of the presented triple through the tables, or the
\* family was purged and has no live session.
LEMMA LogoutStep ==
    ASSUME IInv, NEW t \in Triples, Logout(t)
    PROVE  IInv'
<1> USE SessionsAssumption
<1> DEFINE v == [kind |-> "logout", user |-> sess[famOf[t]].user,
                 pw |-> acct[sess[famOf[t]].user].pw,
                 rows |-> UNION {LiveIn(f) : f \in NamedBy(t)}, fams |-> {famOf[t]}]
<1>1. famOf[t] # 0 /\ BeginRevocation(v)
  BY DEF Logout
<1>2. famOf[t] \in Sids /\ famOf[t] < nextSid
  BY <1>1 DEF IInv, TypeOK, Numbered, Sids
<1>3. sess[famOf[t]].user \in Users
  BY <1>2 DEF IInv, TypeOK, Numbered, Sids
<1>4. v \in Revocations
  <2>1. v.rows \subseteq Sids
    BY DEF LiveIn, Family
  <2>2. acct[sess[famOf[t]].user].pw \in Passwords
    BY <1>3 DEF IInv, TypeOK, Accounts
  <2> QED BY <1>2, <1>3, <2>1, <2>2 DEF Revocations, Kinds
<1>5. v.fams = {famOf[t]} /\ v.kind = "logout"
  OBVIOUS
<1>6. \A s \in Sids : Live(s) /\ sess[s].fam \in v.fams => s \in v.rows
  <2> SUFFICES ASSUME NEW s \in Sids, Live(s), sess[s].fam = famOf[t]
               PROVE  \E f \in NamedBy(t) : s \in LiveIn(f)
    BY <1>5
  <2>1. famOf[t] \in NamedBy(t)
    BY <1>1 DEF IInv, TriplesNamed, ReuseEndsFamily
  <2>2. s \in LiveIn(famOf[t])
    BY DEF LiveIn, Family, Live
  <2> QED BY <2>1, <2>2
<1> HIDE DEF v
<1> QED BY <1>1, <1>2, <1>4, <1>5, <1>6, BeginRevocationStep

\* A family belongs to one account, so that the live sessions of the account are
\* the live sessions of its families.
LEMMA FamiliesOfAccount ==
    ASSUME IInv, NEW u \in Users
    PROVE  /\ FamiliesOf(u) \subseteq Sids
           /\ \A f \in FamiliesOf(u) : f < nextSid
           /\ \A s \in Sids : Live(s) /\ sess[s].fam \in FamiliesOf(u) => sess[s].user = u
<1>1. ASSUME NEW x \in Sids, Live(x)
      PROVE  sess[x].fam \in Sids /\ sess[x].fam < nextSid
             /\ sess[sess[x].fam].user = sess[x].user
  BY <1>1 DEF IInv, Numbered, Live, Fresh
<1> QED BY <1>1 DEF FamiliesOf

\* Logging out everywhere covers all families of the account (RevokeAllForUser).
LEMMA LogoutAllStep ==
    ASSUME IInv, NEW u \in Users, LogoutAll(u)
    PROVE  IInv'
<1> DEFINE v == [kind |-> "logoutAll", user |-> u, pw |-> acct[u].pw,
                 rows |-> {s \in Sids : sess[s].user = u /\ Live(s)}, fams |-> FamiliesOf(u)]
<1>1. BeginRevocation(v) /\ u \notin LockedUsers /\ acct[u].epoch < MaxEpoch
  BY DEF LogoutAll
<1>2. v \in Revocations
  <2>1. acct[u].pw \in Passwords
    BY DEF IInv, TypeOK, Accounts
  <2> QED BY <2>1, FamiliesOfAccount DEF Revocations, Kinds
<1>3. v.user = u /\ v.fams = FamiliesOf(u) /\ v.rows = {s \in Sids : sess[s].user = u /\ Live(s)}
  OBVIOUS
<1> HIDE DEF v
<1> QED BY <1>1, <1>2, <1>3, FamiliesOfAccount, BeginRevocationStep

\* A password change covers all families but the caller's (ChangePassword).
LEMMA ChangePasswordStep ==
    ASSUME IInv, NEW t \in Triples, NEW cur \in Passwords, NEW new \in Passwords,
           ChangePassword(t, cur, new)
    PROVE  IInv'
<1>1. PICK keep \in Sids :
         /\ Opens(t, keep)
         /\ sess[keep].user \notin LockedUsers /\ acct[sess[keep].user].epoch < MaxEpoch
         /\ BeginRevocation(
               [kind |-> "changePassword", user |-> sess[keep].user, pw |-> new,
                rows |-> {s \in Sids : sess[s].user = sess[keep].user /\ Live(s)} \ {keep},
                fams |-> FamiliesOf(sess[keep].user) \ {sess[keep].fam}])
  BY DEF ChangePassword
<1> DEFINE u == sess[keep].user
           v == [kind |-> "changePassword", user |-> u, pw |-> new,
                 rows |-> {s \in Sids : sess[s].user = u /\ Live(s)} \ {keep},
                 fams |-> FamiliesOf(u) \ {sess[keep].fam}]
<1>2. u \in Users
  BY <1>1 DEF IInv, Numbered, Opens, Live, Fresh
<1> HIDE DEF u
<1>3. v \in Revocations
  BY <1>2, FamiliesOfAccount DEF Revocations, Kinds
<1>4. /\ v.user = u /\ v.fams = FamiliesOf(u) \ {sess[keep].fam}
      /\ v.rows = {s \in Sids : sess[s].user = u /\ Live(s)} \ {keep}
  OBVIOUS
<1>5. BeginRevocation(v) /\ u \notin LockedUsers /\ acct[u].epoch < MaxEpoch
  BY <1>1 DEF u
<1> HIDE DEF v
<1> QED BY <1>2, <1>3, <1>4, <1>5, FamiliesOfAccount, BeginRevocationStep

\* An account whose version moves by one is an account.
LEMMA AccountBumped ==
    ASSUME NEW a \in Accounts, a.epoch < MaxEpoch, NEW pw \in Passwords
    PROVE  [a EXCEPT !.epoch = @ + 1, !.pw = pw] \in Accounts
<1>1. a.epoch + 1 \in 0..MaxEpoch
  BY SessionsAssumption DEF Accounts
<1> DEFINE e == a.epoch + 1
<1> HIDE DEF e
<1>2. [a EXCEPT !.epoch = e, !.pw = pw] \in Accounts
  BY <1>1 DEF Accounts, e
<1> QED BY <1>2 DEF e

\* An account whose status is edited is an account.
LEMMA AccountMoved ==
    ASSUME NEW a \in Accounts, a.epoch < MaxEpoch, NEW status \in {"active", "disabled"}
    PROVE  [a EXCEPT !.status = status, !.epoch = @ + 1] \in Accounts
<1>1. a.epoch + 1 \in 0..MaxEpoch
  BY SessionsAssumption DEF Accounts
<1> DEFINE e == a.epoch + 1
<1> HIDE DEF e
<1>2. [a EXCEPT !.status = status, !.epoch = e] \in Accounts
  BY <1>1 DEF Accounts, e
<1> QED BY <1>2 DEF e

\* A verified password stays dated when accounts change only with their version.
LEMMA EpochMoves ==
    ASSUME IInv, logins' = logins,
           \A u \in Users : acct'[u] = acct[u] \/ acct'[u].epoch = acct[u].epoch + 1
    PROVE  LoginsDated'
<1> SUFFICES ASSUME NEW l \in logins
             PROVE  /\ l.epoch <= acct'[l.user].epoch
                    /\ l.epoch = acct'[l.user].epoch => l.pw = acct'[l.user].pw
  BY DEF LoginsDated
<1>1. /\ l.user \in Users /\ l.epoch \in Int /\ acct[l.user].epoch \in Int
      /\ l.epoch <= acct[l.user].epoch
      /\ l.epoch = acct[l.user].epoch => l.pw = acct[l.user].pw
  BY SessionsAssumption DEF IInv, TypeOK, Logins, Accounts, LoginsDated
<1> QED BY <1>1

\* The account after a revocation: the password may change only with the version.
LEMMA AccountAfterType ==
    ASSUME IInv, NEW v \in revocations
    PROVE  /\ AccountAfter(v) \in [Users -> Accounts]
           /\ \A u \in Users :
                 \/ AccountAfter(v)[u] = acct[u]
                 \/ AccountAfter(v)[u].epoch = acct[u].epoch + 1
<1>1. v \in Revocations /\ acct \in [Users -> Accounts]
  BY DEF IInv, TypeOK
<1>2. CASE v.kind = "logout"
  BY <1>1, <1>2 DEF AccountAfter
<1>3. CASE v.kind # "logout"
  <2>1. v.user \in Users /\ v.pw \in Passwords
    BY <1>1 DEF Revocations
  <2>2. [acct[v.user] EXCEPT !.epoch = @ + 1, !.pw = v.pw] \in Accounts
    <3>1. acct[v.user].epoch < MaxEpoch /\ acct[v.user] \in Accounts
      BY <1>1, <1>3, <2>1 DEF IInv, AccountsLocked
    <3> QED BY <2>1, <3>1, AccountBumped
  <2>3. AccountAfter(v) = [acct EXCEPT ![v.user] =
                              [acct[v.user] EXCEPT !.epoch = @ + 1, !.pw = v.pw]]
    BY <1>1, <1>3, <2>1 DEF AccountAfter, Accounts
  <2>4. [acct[v.user] EXCEPT !.epoch = @ + 1, !.pw = v.pw].epoch = acct[v.user].epoch + 1
    BY <1>1, <2>1 DEF Accounts
  <2> QED BY <1>1, <2>1, <2>2, <2>3, <2>4
<1> QED BY <1>2, <1>3

\* A revocation commits when no rotation holds one of its rows: whatever of its
\* families is alive after it is late.
LEMMA RevocationCommitStep ==
    ASSUME IInv, NEW v \in revocations, RevocationCommit(v)
    PROVE  IInv'
<1> USE SessionsAssumption
<1>1. /\ v.rows \cap LockedRows = {} /\ Revoke(v.rows) /\ acct' = AccountAfter(v)
      /\ revocations' = revocations \ {v} /\ ended' = ended \cup v.fams
      /\ UNCHANGED <<now, used, nextSid, nextTok, logins, rotations, famOf, burned>>
  BY DEF RevocationCommit
<1>2. v \in Revocations /\ v.fams \subseteq Sids
  BY DEF IInv, TypeOK, Revocations
<1>3. /\ sess' \in [Sids -> Rows]
      /\ Numbered' /\ RotationsLocked' /\ OverlapSeen' /\ RevocationsCover'
  <2>1. \A g \in ended' \cup burned' : g < nextSid
    BY <1>1 DEF IInv, Numbered, RevocationsCover
  <2>2. \A k \in Triples : used'[k] \in {used[k], NoUse}
    BY <1>1
  <2>3. \A r \in rotations' : r.sid \notin v.rows
    BY <1>1 DEF LockedRows
  <2> QED BY <1>1, <2>1, <2>2, <2>3, RevokeStep
<1>4. TriplesNamed'
  BY <1>1, RevokeKeepsNames
<1>5. ReuseEndsFamily' /\ RevocationHolds'
  <2>1. \A s \in Sids : /\ sess'[s].fam = sess[s].fam /\ sess'[s].late = sess[s].late
                        /\ Live(s)' <=> Live(s) /\ s \notin v.rows
    BY <1>1, RevokeEffect
  <2>2. ReuseEndsFamily'
    BY <1>1, <2>1 DEF IInv, ReuseEndsFamily
  <2>3. RevocationHolds'
    BY <1>1, <2>1 DEF IInv, RevocationHolds, RevocationsCover
  <2> QED BY <2>2, <2>3
<1>6. acct' \in [Users -> Accounts]
      /\ \A u \in Users : acct'[u] = acct[u] \/ acct'[u].epoch = acct[u].epoch + 1
  BY <1>1, AccountAfterType
<1>7. TypeOK'
  BY <1>1, <1>2, <1>3, <1>6 DEF IInv, TypeOK
<1>8. LoginsDated'
  BY <1>1, <1>6, EpochMoves
<1>9. AccountsLocked'
  <2> SUFFICES ASSUME NEW w \in revocations', w.kind # "logout"
               PROVE  acct'[w.user].epoch < MaxEpoch
    BY <1>1 DEF IInv, AccountsLocked
  <2>1. w \in revocations /\ w # v /\ w \in Revocations /\ w.user \in Users
    BY <1>1 DEF IInv, TypeOK, Revocations
  <2>2. acct[w.user].epoch < MaxEpoch
    BY <2>1 DEF IInv, AccountsLocked
  <2>3. CASE v.kind = "logout"
    BY <1>1, <2>2, <2>3 DEF AccountAfter
  <2>4. CASE v.kind # "logout"
    <3>1. w.user # v.user
      BY <2>1, <2>4 DEF IInv, AccountsLocked
    <3>2. acct'[w.user] = acct[w.user]
      BY <1>1, <2>1, <2>4, <3>1 DEF IInv, TypeOK, AccountAfter
    <3> QED BY <2>2, <3>2
  <2> QED BY <2>3, <2>4
<1> QED BY <1>3, <1>4, <1>5, <1>7, <1>8, <1>9 DEF IInv

\* A revocation that fails writes nothing.
LEMMA RevocationAbortStep ==
    ASSUME IInv, NEW v \in revocations, RevocationAbort(v)
    PROVE  IInv'
<1> USE DEF RevocationAbort
<1>1. TypeOK' /\ LoginsDated' /\ AccountsLocked'
  BY DEF IInv, TypeOK, LoginsDated, AccountsLocked
<1> QED BY <1>1, TablesUntouched DEF IInv

\* Revoking one session by its id (repository.go: RevokeSession).
LEMMA RevokeSessionStep ==
    ASSUME IInv, NEW t \in Triples, NEW s \in Sids, RevokeSession(t, s)
    PROVE  IInv'
<1>1. /\ s \notin LockedRows /\ Revoke({s})
      /\ UNCHANGED <<now, acct, used, nextSid, nextTok, logins, rotations, revocations,
                     famOf, ended, burned>>
  BY DEF RevokeSession
<1>2. /\ sess' \in [Sids -> Rows]
      /\ Numbered' /\ RotationsLocked' /\ OverlapSeen' /\ RevocationsCover'
  <2>1. \A g \in ended' \cup burned' : g < nextSid
    BY <1>1 DEF IInv, Numbered
  <2>2. \A k \in Triples : used'[k] \in {used[k], NoUse}
    BY <1>1
  <2>3. \A r \in rotations' : r.sid \notin {s}
    BY <1>1 DEF LockedRows
  <2> QED BY <1>1, <2>1, <2>2, <2>3, RevokeStep
<1>3. TriplesNamed'
  BY <1>1, RevokeKeepsNames
<1>4. ReuseEndsFamily' /\ RevocationHolds'
  BY <1>1, RevokeEffect DEF IInv, ReuseEndsFamily, RevocationHolds
<1>5. TypeOK'
  BY <1>1, <1>2 DEF IInv, TypeOK
<1>6. LoginsDated' /\ AccountsLocked'
  BY <1>1 DEF IInv, LoginsDated, AccountsLocked
<1> QED BY <1>2, <1>3, <1>4, <1>5, <1>6 DEF IInv

\* The administrator's status edit bumps the version (repository.go: UpdateUser).
LEMMA SetStatusStep ==
    ASSUME IInv, NEW u \in Users, NEW status \in {"active", "disabled"}, SetStatus(u, status)
    PROVE  IInv'
<1> USE SessionsAssumption
<1>1. /\ u \notin LockedUsers /\ acct[u].epoch < MaxEpoch
      /\ acct' = [acct EXCEPT ![u].status = status, ![u].epoch = @ + 1]
      /\ UNCHANGED <<now, sess, used, nextSid, nextTok, logins, rotations, revocations,
                     famOf, ended, burned>>
  BY DEF SetStatus
<1>2. acct \in [Users -> Accounts] /\ acct[u] \in Accounts
  BY DEF IInv, TypeOK
<1>3. acct' = [acct EXCEPT ![u] = [acct[u] EXCEPT !.status = status, !.epoch = @ + 1]]
  BY <1>1, <1>2 DEF Accounts
<1>4. [acct[u] EXCEPT !.status = status, !.epoch = @ + 1] \in Accounts
  BY <1>1, <1>2, AccountMoved
<1>5. [acct[u] EXCEPT !.status = status, !.epoch = @ + 1].epoch = acct[u].epoch + 1
  BY <1>2 DEF Accounts
<1>6. acct' \in [Users -> Accounts]
      /\ \A w \in Users : acct'[w] = acct[w] \/ acct'[w].epoch = acct[w].epoch + 1
  BY <1>2, <1>3, <1>4, <1>5
<1>7. TypeOK'
  BY <1>1, <1>6 DEF IInv, TypeOK
<1>8. LoginsDated'
  BY <1>1, <1>6, EpochMoves
<1>9. AccountsLocked'
  <2> SUFFICES ASSUME NEW v \in revocations, v.kind # "logout"
               PROVE  acct'[v.user].epoch < MaxEpoch
    BY <1>1 DEF IInv, AccountsLocked
  <2>1. v.user \in Users /\ v.user # u /\ acct[v.user].epoch < MaxEpoch
    BY <1>1 DEF IInv, TypeOK, Revocations, AccountsLocked, LockedUsers
  <2> QED BY <2>1, <1>2, <1>3
<1> QED BY <1>1, <1>7, <1>8, <1>9, TablesUntouched DEF IInv

\* The sweep takes a row and the consumed tokens that point at it together, and
\* forgets only triples whose cookies have expired.
LEMMA SweepStep ==
    ASSUME IInv, Sweep
    PROVE  IInv'
<1> USE SessionsAssumption
<1>1. /\ ~\E s \in LockedRows : Sweepable(s)
      /\ sess' = [s \in Sids |-> IF Sweepable(s) THEN [sess[s] EXCEPT !.st = "swept"] ELSE sess[s]]
      /\ used' = [t \in Triples |-> IF Forgettable(t) THEN NoUse ELSE used[t]]
      /\ famOf' = [t \in Triples |-> IF t \in Forgotten THEN 0 ELSE famOf[t]]
      /\ UNCHANGED <<now, acct, nextSid, nextTok, logins, rotations, revocations, ended, burned>>
  BY DEF Sweep
<1>2. sess \in [Sids -> Rows] /\ used \in [Triples -> Uses]
      /\ famOf \in [Triples -> 0..MaxSessions]
  BY DEF IInv, TypeOK
<1>3. /\ sess' \in [Sids -> Rows]
      /\ \A s \in Sids : /\ sess'[s].fam = sess[s].fam
                         /\ sess'[s].tok = sess[s].tok
                         /\ sess'[s].user = sess[s].user
                         /\ sess'[s].late = sess[s].late
                         /\ sess'[s].st = IF Sweepable(s) THEN "swept" ELSE sess[s].st
  <2> SUFFICES ASSUME NEW s \in Sids
               PROVE  /\ sess'[s] \in Rows
                      /\ sess'[s].fam = sess[s].fam
                      /\ sess'[s].tok = sess[s].tok
                      /\ sess'[s].user = sess[s].user
                      /\ sess'[s].late = sess[s].late
                      /\ sess'[s].st = IF Sweepable(s) THEN "swept" ELSE sess[s].st
    BY <1>1
  <2>1. CASE ~Sweepable(s)
    BY <2>1, <1>1, <1>2
  <2>2. CASE Sweepable(s)
    <3>1. sess'[s] = [sess[s] EXCEPT !.st = "swept"] /\ sess[s] \in Rows
      BY <2>2, <1>1, <1>2
    <3> QED BY <2>2, <3>1 DEF Rows
  <2> QED BY <2>1, <2>2
<1>4. \A s \in Sids : /\ Fresh(s)' <=> Fresh(s)
                      /\ Live(s)' <=> Live(s) /\ ~Sweepable(s)
                      /\ Present(s)' <=> Present(s) /\ ~Sweepable(s)
  BY <1>3 DEF Fresh, Live, Present, Sweepable
<1>5. RowsOnlyDie
  BY <1>1, <1>3, <1>4 DEF RowsOnlyDie
<1>6. OthersShrink
  <2>1. \A t \in Triples : famOf'[t] \in {famOf[t], 0} /\ used'[t] \in {used[t], NoUse}
    BY <1>1
  <2>2. \A f \in ended' \cup burned' : f < nextSid
    BY <1>1 DEF IInv, Numbered
  <2> QED BY <1>1, <2>1, <2>2 DEF OthersShrink
<1>7. \A r \in rotations' : Live(r.sid)'
  BY <1>1, <1>4 DEF IInv, TypeOK, Rotations, RotationsLocked, LockedRows
<1>8. Numbered' /\ RotationsLocked' /\ OverlapSeen' /\ RevocationsCover'
  BY <1>5, <1>6, <1>7, DyingIsSafe
<1>9. ReuseEndsFamily' /\ RevocationHolds'
  BY <1>1, <1>3, <1>4 DEF IInv, ReuseEndsFamily, RevocationHolds
<1>10. TriplesNamed'
  <2>1. \A s \in Sids : Present(s)' /\ famOf'[sess'[s].tok] # 0
                           => famOf'[sess'[s].tok] = sess'[s].fam
    <3> SUFFICES ASSUME NEW s \in Sids, Present(s)', famOf'[sess'[s].tok] # 0
                 PROVE  famOf'[sess'[s].tok] = sess'[s].fam
      OBVIOUS
    <3>1. Present(s) /\ ~Fresh(s) /\ sess'[s].tok = sess[s].tok /\ sess'[s].fam = sess[s].fam
      BY <1>3, <1>4 DEF Present, Fresh
    <3>2. sess[s].tok \in Triples
      BY <3>1 DEF IInv, Numbered
    <3>3. famOf'[sess[s].tok] = famOf[sess[s].tok]
      BY <3>1, <3>2, <1>1
    <3> QED BY <3>1, <3>3 DEF IInv, TriplesNamed
  <2>2. ASSUME NEW k \in Triples, famOf'[k] # 0
        PROVE  famOf'[k] \in NamedBy(k)' \/ famOf'[k] \in burned'
    <3>1. famOf'[k] = famOf[k] /\ k \notin Forgotten
      BY <2>2, <1>1
    <3>2. famOf[k] \in NamedBy(k) \/ famOf[k] \in burned
      BY <2>2, <3>1 DEF IInv, TriplesNamed
    <3>3. CASE famOf[k] \in burned
      BY <3>1, <3>3, <1>1
    <3>4. CASE \E s \in Stored(k) : famOf[k] = sess[s].fam
      <4>1. PICK s \in Stored(k) : famOf[k] = sess[s].fam
        BY <3>4
      <4>2. ~Sweepable(s) /\ s \in Sids
        BY <3>1, <4>1 DEF Forgotten, Stored
      <4>3. s \in Stored(k)' /\ famOf'[k] = sess'[s].fam
        BY <3>1, <4>1, <4>2, <1>3 DEF Stored
      <4> QED BY <4>3 DEF NamedBy
    <3>5. CASE Consumed(k) /\ famOf[k] = sess[used[k].sid].fam
      <4>1. used'[k] = used[k]
        BY <3>1, <1>1 DEF Forgotten
      <4>2. used[k].sid \in Sids
        BY <3>5 DEF IInv, Numbered
      <4>3. Consumed(k)' /\ famOf'[k] = sess'[used'[k].sid].fam
        BY <3>1, <3>5, <4>1, <4>2, <1>3 DEF Consumed
      <4> QED BY <4>3 DEF NamedBy
    <3> QED BY <3>2, <3>3, <3>4, <3>5 DEF NamedBy
  <2> QED BY <2>1, <2>2 DEF TriplesNamed
<1>11. TypeOK'
  <2>1. used' \in [Triples -> Uses] /\ famOf' \in [Triples -> 0..MaxSessions]
    BY <1>1, <1>2 DEF NoUse, Uses, Times
  <2> QED BY <2>1, <1>1, <1>3 DEF IInv, TypeOK
<1>12. LoginsDated' /\ AccountsLocked'
  BY <1>1 DEF IInv, LoginsDated, AccountsLocked
<1> QED BY <1>8, <1>9, <1>10, <1>11, <1>12 DEF IInv

\* The clock moves nothing else.
LEMMA TickStep ==
    ASSUME IInv, Tick
    PROVE  IInv'
<1> USE DEF Tick
<1>1. TypeOK'
  BY SessionsAssumption DEF IInv, TypeOK, Times
<1>2. LoginsDated' /\ AccountsLocked'
  BY DEF IInv, LoginsDated, AccountsLocked
<1> QED BY <1>1, <1>2, TablesUntouched DEF IInv

-------------------------------------------------------------------------------
(***************************************************************************)
(* The theorems.                                                           *)
(***************************************************************************)

\* The empty tables satisfy the invariant.
LEMMA InitIInv ==
    Init => IInv
<1> SUFFICES ASSUME Init PROVE IInv
  OBVIOUS
<1> USE SessionsAssumption DEF Init
<1>1. NoRow \in Rows /\ NoUse \in Uses
  BY DEF NoRow, Rows, NoUse, Uses, Times
<1>2. TypeOK
  BY <1>1 DEF TypeOK, Times
<1>3. \A s \in Sids : Fresh(s) /\ ~Live(s) /\ ~Present(s)
  BY DEF Fresh, Live, Present, NoRow
<1>4. Numbered
  BY <1>3 DEF Numbered, Consumed, Sids, Triples
<1>5. RotationsLocked /\ OverlapSeen /\ RevocationsCover /\ LoginsDated /\ AccountsLocked
  BY DEF RotationsLocked, OverlapSeen, RevocationsCover, LoginsDated, AccountsLocked
<1>6. TriplesNamed /\ ReuseEndsFamily /\ RevocationHolds
  BY <1>3 DEF TriplesNamed, ReuseEndsFamily, RevocationHolds
<1> QED BY <1>2, <1>4, <1>5, <1>6 DEF IInv

\* Every step preserves it.
LEMMA NextIInv ==
    ASSUME IInv, [Next]_vars
    PROVE  IInv'
<1>1. CASE UNCHANGED vars
  <2>1. TypeOK' /\ LoginsDated' /\ AccountsLocked'
    BY <1>1 DEF vars, IInv, TypeOK, LoginsDated, AccountsLocked
  <2> QED BY <1>1, <2>1, TablesUntouched DEF IInv, vars
<1>2. ASSUME NEW u \in Users, NEW pw \in Passwords, VerifyPassword(u, pw)
      PROVE  IInv'
  BY <1>2, VerifyPasswordStep
<1>3. ASSUME NEW l \in logins, IssueSession(l) \/ IssueRefused(l)
      PROVE  IInv'
  BY <1>3, IssueSessionStep, IssueRefusedStep
<1>4. ASSUME NEW t \in Triples, RotateLive(t)
      PROVE  IInv'
  <2>1. PICK s \in Sids : Refreshable(t, s) /\ BeginRotation(t, s, "live")
    BY <1>4 DEF RotateLive
  <2>2. Live(s) /\ sess[s].tok = t
    BY <2>1 DEF Refreshable, Stored
  <2> QED BY <2>1, <2>2, BeginRotationStep
<1>5. ASSUME NEW t \in Triples, RotateGrace(t)
      PROVE  IInv'
  <2>1. Consumed(t) /\ Live(used[t].sid) /\ BeginRotation(t, used[t].sid, "grace")
    BY <1>5 DEF RotateGrace
  <2>2. used[t].sid \in Sids
    BY <2>1 DEF IInv, Numbered
  <2> QED BY <2>1, <2>2, BeginRotationStep
<1>6. ASSUME NEW t \in Triples, RotateExpires(t) \/ RotateReuse(t) \/ Logout(t)
      PROVE  IInv'
  BY <1>6, RotateExpiresStep, RotateReuseStep, LogoutStep
<1>7. ASSUME NEW r \in rotations, RotateCommit(r) \/ RotateAbort(r)
      PROVE  IInv'
  BY <1>7, RotateCommitStep, RotateAbortStep
<1>8. ASSUME NEW u \in Users, LogoutAll(u)
      PROVE  IInv'
  BY <1>8, LogoutAllStep
<1>9. ASSUME NEW t \in Triples, NEW cur \in Passwords, NEW new \in Passwords,
             ChangePassword(t, cur, new)
      PROVE  IInv'
  BY <1>9, ChangePasswordStep
<1>10. ASSUME NEW v \in revocations, RevocationCommit(v) \/ RevocationAbort(v)
       PROVE  IInv'
  BY <1>10, RevocationCommitStep, RevocationAbortStep
<1>11. ASSUME NEW t \in Triples, NEW s \in Sids, RevokeSession(t, s)
       PROVE  IInv'
  BY <1>11, RevokeSessionStep
<1>12. ASSUME NEW u \in Users, NEW status \in {"active", "disabled"}, SetStatus(u, status)
       PROVE  IInv'
  BY <1>12, SetStatusStep
<1>13. CASE Sweep
  BY <1>13, SweepStep
<1>14. CASE Tick
  BY <1>14, TickStep
<1> QED BY <1>1, <1>2, <1>3, <1>4, <1>5, <1>6, <1>7, <1>8, <1>9, <1>10, <1>11, <1>12,
           <1>13, <1>14 DEF Next

\* The invariant holds in every reachable state.
THEOREM Invariance == Spec => []IInv
BY InitIInv, NextIInv, PTL DEF Spec

\* Every variable keeps its type.
THEOREM TypeCorrect == Spec => []TypeOK
<1>1. IInv => TypeOK
  BY DEF IInv
<1> QED BY <1>1, Invariance, PTL

\* A revocation that committed is undone by no refresh but one that overlapped it
\* (repository.go: RevokeFamilyByTokens, RevokeAllForUser, ChangePassword).
THEOREM RevocationIsFinal == Spec => []RevocationSound
<1>1. IInv => RevocationSound
  BY DEF IInv, RevocationSound
<1> QED BY <1>1, Invariance, PTL

\* After a replay was detected the family never has a live session again
\* (rotate.go: revokeAndPurgeFamily).
THEOREM ReplayIsFinal == Spec => []ReuseEndsFamily
<1>1. IInv => ReuseEndsFamily
  BY DEF IInv
<1> QED BY <1>1, Invariance, PTL

\* Only a login founds a family: every other step leaves an absent row absent or
\* makes it a sibling.
LEMMA OnlyLoginFounds ==
    ASSUME IInv, [Next]_vars, NEW s \in Sids, Fresh(s), sess'[s].st = "live",
           sess'[s].fam = s
    PROVE  \E l \in logins : IssueSession(l)
<1>1. sess' # sess
  BY DEF Fresh
<1>2. ASSUME NEW R, Revoke(R)
      PROVE  FALSE
  BY <1>2, RevokeEffect DEF Fresh
<1>3. ASSUME NEW t \in Triples, RotateExpires(t) \/ RotateReuse(t)
      PROVE  FALSE
  BY <1>2, <1>3 DEF RotateExpires, RotateReuse, Purge, RevokeFamily
<1>4. ASSUME NEW r \in rotations, RotateCommit(r)
      PROVE  FALSE
  <2>1. r.sid \in Sids /\ Live(r.sid) /\ sess \in [Sids -> Rows]
    BY DEF IInv, TypeOK, Rotations, RotationsLocked
  <2>2. CASE WriteNewTokens(r)
    <3>1. sess' = [sess EXCEPT ![r.sid].tok = nextTok, ![r.sid].issued = r.at]
      BY <2>2 DEF WriteNewTokens
    <3>2. s # r.sid
      BY <2>1 DEF Fresh, Live
    <3> QED BY <3>1, <3>2, <2>1 DEF Fresh
  <2>3. CASE InsertSibling(r)
    <3> DEFINE row == [sess[r.sid] EXCEPT !.st = "live", !.tok = nextTok, !.issued = r.at,
                                          !.late = sess[r.sid].late \/ r.overlap]
    <3>1. sess' = [sess EXCEPT ![nextSid] = row] /\ row.fam = sess[r.sid].fam
      BY <2>1, <2>3 DEF InsertSibling, Insert, Rows
    <3> HIDE DEF row
    <3>2. s = nextSid /\ sess'[s] = row
      BY <3>1, <2>1 DEF Fresh
    <3>3. sess[r.sid].fam < nextSid /\ sess[r.sid].fam \in Sids
      BY <2>1 DEF IInv, Numbered, Fresh, Live
    <3> QED BY <3>1, <3>2, <3>3, SessionsAssumption DEF Sids
  <2> QED BY <1>4, <2>2, <2>3 DEF RotateCommit
<1>5. ASSUME NEW v \in revocations, RevocationCommit(v)
      PROVE  FALSE
  BY <1>2, <1>5 DEF RevocationCommit
<1>6. ASSUME NEW t \in Triples, NEW x \in Sids, RevokeSession(t, x)
      PROVE  FALSE
  BY <1>2, <1>6 DEF RevokeSession
<1>7. CASE Sweep
  <2>1. ~Sweepable(s)
    BY DEF Sweepable, Fresh
  <2> QED BY <1>7, <2>1 DEF Sweep, Fresh
<1>8. ASSUME NEW t \in Triples, RotateLive(t) \/ RotateGrace(t) \/ Logout(t)
      PROVE  FALSE
  BY <1>1, <1>8 DEF RotateLive, RotateGrace, Logout, BeginRotation, BeginRevocation
<1>9. \A u \in Users : ~LogoutAll(u)
  BY <1>1 DEF LogoutAll, BeginRevocation
<1>10. \A t \in Triples, cur \in Passwords, new \in Passwords : ~ChangePassword(t, cur, new)
  BY <1>1 DEF ChangePassword, BeginRevocation
<1>11. /\ \A u \in Users, pw \in Passwords : ~VerifyPassword(u, pw)
       /\ \A l \in logins : ~IssueRefused(l)
       /\ \A r \in rotations : ~RotateAbort(r)
       /\ \A v \in revocations : ~RevocationAbort(v)
       /\ \A u \in Users, status \in {"active", "disabled"} : ~SetStatus(u, status)
       /\ ~Tick
  BY <1>1 DEF VerifyPassword, IssueRefused, RotateAbort, RevocationAbort, SetStatus, Tick
<1>12. Next
  BY <1>1 DEF vars
<1> QED BY <1>3, <1>4, <1>5, <1>6, <1>7, <1>8, <1>9, <1>10, <1>11, <1>12 DEF Next

\* A login opens a session only on the password that is still the account's
\* (repository.go: IssueSession).
THEOREM LoginProofIsCurrent == Spec => IssuedFromCurrentProof
<1>1. ASSUME IInv, [Next]_vars, NEW s \in Sids, sess[s].st = "absent",
             sess'[s].st = "live", sess'[s].fam = s
      PROVE  acct[sess'[s].user].status = "active" /\ acct[sess'[s].user].pw = sess'[s].proof
  <2>1. PICK l \in logins : IssueSession(l)
    BY <1>1, OnlyLoginFounds DEF Fresh
  <2> DEFINE row == [st |-> "live", user |-> l.user, fam |-> nextSid, tok |-> nextTok,
                     born |-> now, issued |-> now, proof |-> l.pw, late |-> FALSE]
  <2>2. sess' = [sess EXCEPT ![nextSid] = row] /\ ProofIsCurrent(l)
    BY <2>1 DEF IssueSession, Insert
  <2>3. row.user = l.user /\ row.proof = l.pw
    OBVIOUS
  <2> HIDE DEF row
  <2>4. sess'[s] = row
    BY <1>1, <2>2 DEF IInv, TypeOK
  <2>5. acct[l.user].status = "active" /\ acct[l.user].pw = l.pw
    BY <1>1, <2>2 DEF ProofIsCurrent, IInv, LoginsDated
  <2> QED BY <2>3, <2>4, <2>5
<1>2. IInv /\ [Next]_vars =>
        [\A s \in Sids :
            sess[s].st = "absent" /\ sess'[s].st = "live" /\ sess'[s].fam = s
                => LET a == acct[sess'[s].user]
                   IN a.status = "active" /\ a.pw = sess'[s].proof]_vars
  BY <1>1
<1> QED BY <1>2, Invariance, PTL DEF Spec, IssuedFromCurrentProof

-------------------------------------------------------------------------------
(***************************************************************************)
(* The ceiling of a family and its cap.                                    *)
(***************************************************************************)

\* A row is as old as its family and carries tokens drawn in time; a consumed triple was rotated
\* under the ceiling; and so will be what a rotation in flight draws, up to its grace.
InTime(r) == r.at <= sess[r.sid].born + Absolute + (IF r.kind = "grace" THEN Grace ELSE 0)
Dated ==
    /\ \A s \in Sids : ~Fresh(s) =>
          /\ sess[s].born = sess[sess[s].fam].born
          /\ sess[s].issued <= sess[s].born + Absolute + Grace
    /\ \A t \in Triples : Consumed(t) => used[t].at <= sess[used[t].sid].born + Absolute
    /\ \A r \in rotations : InTime(r)

\* A rotation that will add a sibling leaves room for it: a commit on the family ends the others.
Roomy(r) == r.kind = "grace" => Cardinality(LiveIn(sess[r.sid].fam)) < FamilyLimit
Capped == FamilyCap /\ \A r \in rotations : Roomy(r)

\* The inductive invariant of both.
DInv == IInv /\ Dated /\ Capped

\* A step in which rows only end, consumed triples are only forgotten, and rotations keep what
\* they are for.
RowsEnd ==
    /\ \A s \in Sids :
          /\ sess'[s].fam = sess[s].fam /\ sess'[s].born = sess[s].born
          /\ sess'[s].issued = sess[s].issued
          /\ Fresh(s)' <=> Fresh(s)
          /\ Live(s)' => Live(s)
    /\ \A t \in Triples : used'[t] \in {used[t], NoUse}
    /\ \A q \in rotations' : \E r \in rotations :
          q.sid = r.sid /\ q.kind = r.kind /\ q.at = r.at

\* The live rows of a family.
LEMMA LiveInFields ==
    /\ \A f, s : s \in LiveIn(f) <=> s \in Sids /\ sess[s].fam = f /\ sess[s].st = "live"
    /\ \A f : IsFiniteSet(LiveIn(f)) /\ Cardinality(LiveIn(f)) \in Nat
<1>1. \A f, s : s \in LiveIn(f) <=> s \in Sids /\ sess[s].fam = f /\ sess[s].st = "live"
  BY DEF LiveIn, Family, Live
<1>2. IsFiniteSet(Sids)
  BY SessionsAssumption, FS_Interval DEF Sids
<1>3. \A f : LiveIn(f) \in SUBSET Sids
  BY DEF LiveIn, Family
<1>4. \A f : IsFiniteSet(LiveIn(f)) /\ Cardinality(LiveIn(f)) \in Nat
  BY <1>2, <1>3, FS_Subset, FS_CardinalityType
<1> QED BY <1>1, <1>4

\* The same after a step.
LEMMA LiveInNext ==
    /\ \A f, s : s \in LiveIn(f)' <=> s \in Sids /\ sess'[s].fam = f /\ sess'[s].st = "live"
    /\ \A f : IsFiniteSet(LiveIn(f)') /\ Cardinality(LiveIn(f)') \in Nat
<1>1. \A f, s : s \in LiveIn(f)' <=> s \in Sids /\ sess'[s].fam = f /\ sess'[s].st = "live"
  BY DEF LiveIn, Family, Live
<1>2. IsFiniteSet(Sids)
  BY SessionsAssumption, FS_Interval DEF Sids
<1>3. \A f : LiveIn(f)' \in SUBSET Sids
  BY <1>1
<1>4. \A f : IsFiniteSet(LiveIn(f)') /\ Cardinality(LiveIn(f)') \in Nat
  BY <1>2, <1>3, FS_Subset, FS_CardinalityType
<1> QED BY <1>1, <1>4

\* Rows that only end keep the dates and leave room.
LEMMA EndingIsSafe ==
    ASSUME DInv, RowsEnd
    PROVE  Dated' /\ Capped'
<1>0. IInv /\ Dated /\ Capped /\ FamilyCap
  BY DEF DInv, Capped
<1>1. \A r \in rotations : r.sid \in Sids /\ Live(r.sid) /\ ~Fresh(r.sid)
  BY <1>0 DEF IInv, TypeOK, Rotations, RotationsLocked, Live, Fresh
<1>2. \A s \in Sids : ~Fresh(s) => sess[s].fam \in Sids
  BY <1>0 DEF IInv, Numbered
<1>3. \A t \in Triples : Consumed(t) => used[t].sid \in Sids
  BY <1>0 DEF IInv, Numbered
<1>4. Dated'
  <2>1. \A s \in Sids : ~Fresh(s)' => /\ sess'[s].born = sess'[sess'[s].fam].born
                                      /\ sess'[s].issued <= sess'[s].born + Absolute + Grace
    BY <1>0, <1>2 DEF Dated, RowsEnd
  <2>2. \A t \in Triples : Consumed(t)' => used'[t].at <= sess'[used'[t].sid].born + Absolute
    BY <1>0, <1>3 DEF Dated, RowsEnd, Consumed
  <2>3. \A q \in rotations' : InTime(q)'
    BY <1>0, <1>1 DEF Dated, RowsEnd, InTime
  <2> QED BY <2>1, <2>2, <2>3 DEF Dated
<1>5. \A f : Cardinality(LiveIn(f)') <= Cardinality(LiveIn(f))
  <2> TAKE f
  <2>1. LiveIn(f)' \subseteq LiveIn(f)
    BY LiveInFields, LiveInNext DEF RowsEnd, Live
  <2> QED BY <2>1, LiveInFields, FS_Subset
<1>6. Capped'
  <2>1. FamilyCap'
    <3> SUFFICES ASSUME NEW f \in Sids
                 PROVE  Cardinality(LiveIn(f)') <= FamilyLimit
      BY DEF FamilyCap
    <3>1. /\ Cardinality(LiveIn(f)') \in Nat /\ Cardinality(LiveIn(f)) \in Nat
          /\ Cardinality(LiveIn(f)) <= FamilyLimit
      BY <1>0, LiveInFields, LiveInNext DEF FamilyCap
    <3> QED BY <3>1, <1>5, SessionsAssumption
  <2>2. ASSUME NEW q \in rotations', q.kind = "grace"
        PROVE  Cardinality(LiveIn(sess[q.sid].fam)') < FamilyLimit
    <3>1. PICK r \in rotations : q.sid = r.sid /\ q.kind = r.kind
      BY DEF RowsEnd
    <3>0. PICK f : f = sess[r.sid].fam
      OBVIOUS
    <3>2. r.sid \in Sids /\ sess'[q.sid].fam = f
      BY <1>1, <3>0, <3>1 DEF RowsEnd
    <3>3. Cardinality(LiveIn(f)) < FamilyLimit
      BY <1>0, <2>2, <3>0, <3>1 DEF Capped, Roomy
    <3>5. Cardinality(LiveIn(f)') \in Nat /\ Cardinality(LiveIn(f)) \in Nat
      BY LiveInFields, LiveInNext
    <3>6. Cardinality(LiveIn(f)') <= Cardinality(LiveIn(f))
      BY <1>5
    <3>7. Cardinality(LiveIn(f)') < FamilyLimit
      BY <3>3, <3>5, <3>6, SessionsAssumption
    <3>4. LiveIn(sess[q.sid].fam)' = LiveIn(f)'
      BY <3>2 DEF LiveIn, Family, Live
    <3> QED BY <3>4, <3>7
  <2> QED BY <2>1, <2>2 DEF Capped, Roomy
<1> QED BY <1>4, <1>6

\* Revoke ends rows and changes no other column.
LEMMA RevokeEndsRows ==
    ASSUME IInv, NEW R, Revoke(R)
    PROVE  \A s \in Sids :
              /\ sess'[s].fam = sess[s].fam /\ sess'[s].born = sess[s].born
              /\ sess'[s].issued = sess[s].issued
              /\ Fresh(s)' <=> Fresh(s)
              /\ Live(s)' => Live(s)
<1> SUFFICES ASSUME NEW s \in Sids
             PROVE  /\ sess'[s].fam = sess[s].fam /\ sess'[s].born = sess[s].born
                    /\ sess'[s].issued = sess[s].issued
                    /\ Fresh(s)' <=> Fresh(s)
                    /\ Live(s)' => Live(s)
  OBVIOUS
<1>1. sess[s] \in Rows
  BY DEF IInv, TypeOK
<1>2. \/ sess'[s] = sess[s]
      \/ Live(s) /\ sess'[s] = [sess[s] EXCEPT !.st = "revoked"]
  BY DEF Revoke
<1> QED BY <1>1, <1>2 DEF Rows, Fresh, Live

\* Sessions as they were end no row.
LEMMA SameSessionsEnd ==
    ASSUME sess' = sess
    PROVE  \A s \in Sids :
              /\ sess'[s].fam = sess[s].fam /\ sess'[s].born = sess[s].born
              /\ sess'[s].issued = sess[s].issued
              /\ Fresh(s)' <=> Fresh(s)
              /\ Live(s)' => Live(s)
BY DEF Fresh, Live

\* The sweep ends rows.
LEMMA SweepEndsRows ==
    ASSUME IInv, Sweep
    PROVE  RowsEnd
<1>1. ASSUME NEW s \in Sids
      PROVE  /\ sess'[s].fam = sess[s].fam /\ sess'[s].born = sess[s].born
             /\ sess'[s].issued = sess[s].issued
             /\ Fresh(s)' <=> Fresh(s)
             /\ Live(s)' => Live(s)
  <2>1. sess[s] \in Rows
    BY DEF IInv, TypeOK
  <2>2. \/ sess'[s] = sess[s]
        \/ Sweepable(s) /\ sess'[s] = [sess[s] EXCEPT !.st = "swept"]
    BY DEF Sweep
  <2> QED BY <2>1, <2>2 DEF Rows, Fresh, Live, Sweepable
<1>2. rotations' = rotations /\ \A t \in Triples : used'[t] \in {used[t], NoUse}
  BY DEF Sweep
<1> QED BY <1>1, <1>2 DEF RowsEnd

\* A revocation that begins marks the rotations it overlaps and changes nothing else of them.
LEMMA BeginRevocationEndsRows ==
    ASSUME IInv, NEW v, BeginRevocation(v)
    PROVE  RowsEnd
<1>1. sess' = sess /\ used' = used
  BY DEF BeginRevocation
<1>2. \A q \in rotations' : \E r \in rotations : q.sid = r.sid /\ q.kind = r.kind /\ q.at = r.at
  <2>1. rotations \subseteq Rotations
    BY DEF IInv, TypeOK
  <2>2. \A r \in rotations :
            LET q == [r EXCEPT !.overlap = @ \/ sess[r.sid].fam \in v.fams]
            IN  q.sid = r.sid /\ q.kind = r.kind /\ q.at = r.at
    BY <2>1 DEF Rotations
  <2> QED BY <2>2 DEF BeginRevocation
<1> QED BY <1>1, <1>2, SameSessionsEnd DEF RowsEnd

\* Every step but three: one that begins a rotation, one that commits a rotation, and a login.
LEMMA MostStepsEndRows ==
    ASSUME IInv, [Next]_vars,
           \A t \in Triples : ~RotateLive(t) /\ ~RotateGrace(t),
           \A r \in rotations : ~RotateCommit(r),
           \A l \in logins : ~IssueSession(l)
    PROVE  RowsEnd
<1>1. ASSUME sess' = sess, used' = used, rotations' \subseteq rotations
      PROVE  RowsEnd
  BY <1>1, SameSessionsEnd DEF RowsEnd
<1>2. ASSUME NEW R, Revoke(R), \A t \in Triples : used'[t] \in {used[t], NoUse},
             rotations' \subseteq rotations
      PROVE  RowsEnd
  BY <1>2, RevokeEndsRows DEF RowsEnd
<1>3. CASE UNCHANGED vars \/ Tick
  BY <1>1, <1>3 DEF vars, Tick
<1>4. ASSUME NEW u \in Users, NEW pw \in Passwords, VerifyPassword(u, pw)
      PROVE  RowsEnd
  BY <1>1, <1>4 DEF VerifyPassword
<1>5. ASSUME NEW l \in logins, IssueRefused(l)
      PROVE  RowsEnd
  BY <1>1, <1>5 DEF IssueRefused
<1>7. ASSUME NEW t \in Triples, RotateExpires(t) \/ RotateReuse(t)
      PROVE  RowsEnd
  <2>1. CASE RotateExpires(t)
    <3>1. PICK s \in Sids : Revoke(Family(sess[s].fam))
                            /\ rotations' = rotations \ Conflicting(sess[s].fam)
      BY <2>1 DEF RotateExpires, RevokeFamily
    <3> QED BY <2>1, <3>1, <1>2 DEF RotateExpires
  <2>2. CASE RotateReuse(t)
    <3>1. PICK f : Purge(f)
      BY <2>2 DEF RotateReuse
    <3> QED BY <3>1, <1>2 DEF Purge, RevokeFamily
  <2> QED BY <1>7, <2>1, <2>2
<1>8. ASSUME NEW t \in Triples, Logout(t)
      PROVE  RowsEnd
  BY <1>8, BeginRevocationEndsRows DEF Logout
<1>9. ASSUME NEW u \in Users, LogoutAll(u)
      PROVE  RowsEnd
  BY <1>9, BeginRevocationEndsRows DEF LogoutAll
<1>10. ASSUME NEW t \in Triples, NEW cur \in Passwords, NEW new \in Passwords,
              ChangePassword(t, cur, new)
       PROVE  RowsEnd
  BY <1>10, BeginRevocationEndsRows DEF ChangePassword
<1>11. ASSUME NEW r \in rotations, RotateAbort(r)
       PROVE  RowsEnd
  BY <1>1, <1>11 DEF RotateAbort
<1>12. ASSUME NEW v \in revocations, RevocationCommit(v) \/ RevocationAbort(v)
       PROVE  RowsEnd
  BY <1>1, <1>2, <1>12 DEF RevocationCommit, RevocationAbort
<1>13. ASSUME NEW t \in Triples, NEW s \in Sids, RevokeSession(t, s)
       PROVE  RowsEnd
  BY <1>2, <1>13 DEF RevokeSession
<1>14. ASSUME NEW u \in Users, NEW status \in {"active", "disabled"}, SetStatus(u, status)
       PROVE  RowsEnd
  BY <1>1, <1>14 DEF SetStatus
<1> QED BY <1>3, <1>4, <1>5, <1>7, <1>8, <1>9, <1>10, <1>11, <1>12, <1>13, <1>14,
           SweepEndsRows DEF Next

\* Dates are numbers.
LEMMA DatesTyped ==
    ASSUME IInv
    PROVE  /\ now \in Nat /\ Absolute \in Nat /\ Grace \in Nat /\ FamilyLimit \in Nat
           /\ FamilyLimit >= 1
           /\ \A s \in Sids : sess[s].born \in Nat /\ sess[s].issued \in Nat
           /\ \A r \in rotations : r.at \in Nat /\ r.sid \in Sids /\ r.tok \in Triples
           /\ \A t \in Triples : used[t].at \in Nat
<1>1. \A s \in Sids : sess[s] \in Rows
  BY DEF IInv, TypeOK
<1>2. \A t \in Triples : used[t] \in Uses
  BY DEF IInv, TypeOK
<1>3. rotations \subseteq Rotations /\ now \in Times
  BY DEF IInv, TypeOK
<1> QED BY <1>1, <1>2, <1>3, SessionsAssumption DEF Rows, Uses, Rotations, Times

\* A rotation that begins under the ceiling, with room if it will add a sibling.
LEMMA BeginRotationDated ==
    ASSUME DInv, NEW t \in Triples, NEW s \in Sids, NEW kind \in {"live", "grace"},
           BeginRotation(t, s, kind),
           now <= sess[s].born + Absolute + (IF kind = "grace" THEN Grace ELSE 0),
           kind = "grace" => Cardinality(LiveIn(sess[s].fam)) < FamilyLimit
    PROVE  Dated' /\ Capped'
<1> DEFINE r == [tok |-> t, sid |-> s, kind |-> kind, at |-> now,
                 overlap |-> BeingRevoked(sess[s].fam)]
<1>1. rotations' = rotations \cup {r} /\ UNCHANGED <<sess, used>>
  BY DEF BeginRotation
<1>2. r.sid = s /\ r.kind = kind /\ r.at = now
  OBVIOUS
<1> HIDE DEF r
<1>3. Dated /\ Capped
  BY DEF DInv
<1>4. \A f : LiveIn(f)' = LiveIn(f)
  BY <1>1 DEF LiveIn, Family, Live
<1>5. Dated'
  <2>1. \A q \in rotations' : InTime(q)'
    BY <1>1, <1>2, <1>3 DEF Dated, InTime
  <2> QED BY <1>1, <1>3, <2>1 DEF Dated, Fresh, Consumed
<1>6. Capped'
  <2>1. FamilyCap'
    BY <1>3, <1>4 DEF Capped, FamilyCap
  <2>2. ASSUME NEW q \in rotations', q.kind = "grace"
        PROVE  Cardinality(LiveIn(sess[q.sid].fam)') < FamilyLimit
    <3>1. Cardinality(LiveIn(sess[q.sid].fam)) < FamilyLimit
      BY <1>1, <1>2, <1>3, <2>2 DEF Capped, Roomy
    <3>2. LiveIn(sess[q.sid].fam)' = LiveIn(sess[q.sid].fam)
      BY <1>1 DEF LiveIn, Family, Live
    <3> QED BY <3>1, <3>2
  <2> QED BY <2>1, <2>2 DEF Capped, Roomy
<1> QED BY <1>5, <1>6

\* A live rotation begins under the ceiling; one in grace takes a triple that was rotated under
\* it, a grace window ago at most, and finds room.
LEMMA RotationsBeginDated ==
    ASSUME DInv, NEW t \in Triples, RotateLive(t) \/ RotateGrace(t)
    PROVE  Dated' /\ Capped'
<1>0. IInv /\ Dated
  BY DEF DInv
<1>1. CASE RotateLive(t)
  <2>1. PICK s \in Sids : ~PastCeiling(s) /\ BeginRotation(t, s, "live")
    BY <1>1 DEF RotateLive
  <2>2. now <= sess[s].born + Absolute + 0
    BY <1>0, <2>1, DatesTyped DEF PastCeiling
  <2> QED BY <2>1, <2>2, BeginRotationDated
<1>2. CASE RotateGrace(t)
  <2>1. PICK s : s = used[t].sid
    OBVIOUS
  <2>2. /\ Consumed(t) /\ InGrace(t) /\ BeginRotation(t, s, "grace")
        /\ Cardinality(LiveIn(sess[s].fam)) < FamilyLimit
    BY <1>2, <2>1 DEF RotateGrace
  <2>3. s \in Sids /\ used[t].at <= sess[s].born + Absolute
    BY <1>0, <2>1, <2>2 DEF IInv, Numbered, Dated
  <2>4. now <= sess[s].born + Absolute + Grace
    BY <1>0, <2>2, <2>3, DatesTyped DEF InGrace
  <2> QED BY <2>2, <2>3, <2>4, BeginRotationDated
<1> QED BY <1>1, <1>2

\* A new row keeps the dates and the cap when it founds a family or joins one of its age that
\* has room, and no rotation in flight is left in that family.
LEMMA InsertDated ==
    ASSUME DInv, NEW row \in Rows, Insert(row), row.st = "live", row.fam \in Sids,
           row.issued <= row.born + Absolute + Grace,
           \/ row.fam = nextSid
           \/ /\ row.fam < nextSid /\ row.born = sess[row.fam].born
              /\ Cardinality(LiveIn(row.fam)) < FamilyLimit,
           rotations' \subseteq rotations, \A q \in rotations' : sess[q.sid].fam # row.fam,
           used' = used
    PROVE  Dated' /\ Capped'
<1> USE SessionsAssumption
<1>0. IInv /\ Dated /\ Capped /\ Numbered /\ nextSid \in Sids /\ sess \in [Sids -> Rows]
  BY DEF DInv, IInv, TypeOK, Insert, Sids
<1>1. \A s \in Sids : sess'[s] = IF s = nextSid THEN row ELSE sess[s]
  BY <1>0 DEF Insert
<1>2. Fresh(nextSid) /\ \A s \in Sids : ~Fresh(s) => sess[s].fam \in Sids /\ sess[s].fam < nextSid
  BY <1>0 DEF Numbered, Sids
<1>3. \A s \in Sids : ~Fresh(s) => sess[s].fam # nextSid
  BY <1>0, <1>2 DEF Sids
<1>4. \A r \in rotations : r.sid \in Sids /\ r.sid # nextSid /\ sess'[r.sid] = sess[r.sid]
  BY <1>0, <1>1, <1>2, DatesTyped DEF IInv, RotationsLocked, Fresh, Live
<1>5. Dated'
  <2>1. ASSUME NEW s \in Sids, ~Fresh(s)'
        PROVE  /\ sess'[s].born = sess'[sess'[s].fam].born
               /\ sess'[s].issued <= sess'[s].born + Absolute + Grace
    <3>1. CASE s = nextSid
      <4>1. row.fam # nextSid => sess'[row.fam] = sess[row.fam]
        BY <1>1
      <4> QED BY <3>1, <4>1, <1>0, <1>1
    <3>2. CASE s # nextSid
      BY <2>1, <3>2, <1>0, <1>1, <1>2, <1>3 DEF Dated, Fresh
    <3> QED BY <3>1, <3>2
  <2>2. ASSUME NEW t \in Triples, Consumed(t)
        PROVE  used[t].at <= sess'[used[t].sid].born + Absolute
    <3>1. used[t].sid \in Sids /\ used[t].sid # nextSid
      BY <1>0, <1>2, <2>2 DEF Numbered
    <3> QED BY <3>1, <2>2, <1>0, <1>1 DEF Dated
  <2>3. \A q \in rotations' : InTime(q)'
    BY <1>0, <1>4 DEF Dated, InTime
  <2> QED BY <2>1, <2>2, <2>3 DEF Dated, Consumed
<1>6. \A f : LiveIn(f)' = IF f = row.fam THEN LiveIn(f) \cup {nextSid} ELSE LiveIn(f)
  <2> TAKE f
  <2>1. \A s : s \in LiveIn(f)' <=> s \in LiveIn(f) \/ (f = row.fam /\ s = nextSid)
    <3> TAKE s
    <3>1. nextSid \notin LiveIn(f)
      BY <1>2, LiveInFields DEF Fresh
    <3> QED BY <3>1, <1>0, <1>1, LiveInFields, LiveInNext
  <2> QED BY <2>1
<1>7. Capped'
  <2>1. ASSUME NEW f \in Sids
        PROVE  Cardinality(LiveIn(f)') <= FamilyLimit
    <3>1. CASE f # row.fam
      BY <3>1, <1>0, <1>6 DEF Capped, FamilyCap
    <3>2. CASE f = row.fam
      <4>1. Cardinality(LiveIn(f)) < FamilyLimit
        <5>1. CASE f = nextSid
          <6>1. LiveIn(f) = {}
            BY <5>1, <1>3, LiveInFields DEF Fresh
          <6>2. Cardinality(LiveIn(f)) = 0
            BY <6>1, FS_EmptySet
          <6> QED BY <6>2
        <5>2. CASE f # nextSid
          BY <3>2, <5>2
        <5> QED BY <5>1, <5>2
      <4>2. Cardinality(LiveIn(f) \cup {nextSid}) <= Cardinality(LiveIn(f)) + 1
        <5>1. IsFiniteSet(LiveIn(f)) /\ Cardinality(LiveIn(f)) \in Nat
          BY LiveInFields
        <5>2. Cardinality(LiveIn(f) \cup {nextSid}) =
                IF nextSid \in LiveIn(f) THEN Cardinality(LiveIn(f)) ELSE Cardinality(LiveIn(f)) + 1
          BY <5>1, FS_AddElement
        <5> QED BY <5>1, <5>2
      <4>3. LiveIn(f)' = LiveIn(f) \cup {nextSid}
        BY <3>2, <1>6
      <4>4. Cardinality(LiveIn(f)) \in Nat /\ Cardinality(LiveIn(f)') \in Nat
        BY LiveInFields, LiveInNext
      <4> QED BY <4>1, <4>2, <4>3, <4>4
    <3> QED BY <3>1, <3>2
  <2>2. ASSUME NEW q \in rotations', q.kind = "grace"
        PROVE  Cardinality(LiveIn(sess[q.sid].fam)') < FamilyLimit
    <3>1. PICK f : f = sess[q.sid].fam
      OBVIOUS
    <3>2. f # row.fam /\ Cardinality(LiveIn(f)) < FamilyLimit /\ sess'[q.sid].fam = f
      BY <1>0, <1>4, <2>2, <3>1 DEF Capped, Roomy
    <3>3. LiveIn(f)' = LiveIn(f)
      BY <1>6, <3>2
    <3>4. LiveIn(sess[q.sid].fam)' = LiveIn(f)'
      BY <3>2 DEF LiveIn, Family, Live
    <3> QED BY <3>2, <3>3, <3>4
  <2> QED BY <2>1, <2>2 DEF Capped, Roomy, FamilyCap
<1> QED BY <1>5, <1>7

\* A login founds a family.
LEMMA IssueSessionDated ==
    ASSUME DInv, NEW l \in logins, IssueSession(l)
    PROVE  Dated' /\ Capped'
<1> USE SessionsAssumption
<1> DEFINE row == [st |-> "live", user |-> l.user, fam |-> nextSid, tok |-> nextTok,
                   born |-> now, issued |-> now, proof |-> l.pw, late |-> FALSE]
<1>0. IInv
  BY DEF DInv
<1>1. Insert(row) /\ used' = used /\ rotations' = rotations
  BY DEF IssueSession
<1>2. nextSid \in Sids /\ nextTok \in Triples /\ l.user \in Users /\ l.pw \in Passwords
      /\ now \in Times
  BY <1>0, <1>1 DEF IInv, TypeOK, Insert, Logins, Sids, Triples
<1>3. row \in Rows
  BY <1>2 DEF Rows, Sids, Triples
<1>4. /\ row.st = "live" /\ row.fam = nextSid /\ row.born = now /\ row.issued = now
  OBVIOUS
<1> HIDE DEF row
<1>5. row.issued <= row.born + Absolute + Grace
  BY <1>0, <1>4, DatesTyped
<1>6. \A q \in rotations : sess[q.sid].fam # nextSid
  <2> SUFFICES ASSUME NEW q \in rotations
               PROVE  sess[q.sid].fam # nextSid
    OBVIOUS
  <2>1. q.sid \in Sids /\ ~Fresh(q.sid)
    BY <1>0, DatesTyped DEF IInv, RotationsLocked, Live, Fresh
  <2>2. sess[q.sid].fam \in Sids /\ sess[q.sid].fam < nextSid
    BY <1>0, <2>1 DEF IInv, Numbered
  <2> QED BY <2>2, <1>2 DEF Sids
<1> QED BY <1>1, <1>2, <1>3, <1>4, <1>5, <1>6, InsertDated

\* A live rotation draws its triple in time and puts the old one on record; a sibling is as old as
\* the session it is asked for.
LEMMA RotateCommitDated ==
    ASSUME DInv, NEW r \in rotations, RotateCommit(r)
    PROVE  Dated' /\ Capped'
<1> USE SessionsAssumption
<1>0. /\ IInv /\ Dated /\ Capped /\ r \in Rotations /\ Live(r.sid) /\ InTime(r)
      /\ r.sid \in Sids /\ sess \in [Sids -> Rows] /\ used \in [Triples -> Uses]
      /\ sess[r.sid] \in Rows
  BY DEF DInv, IInv, TypeOK, RotationsLocked, Dated, Rotations
<1>1. /\ rotations' = rotations \ ({r} \cup Conflicting(sess[r.sid].fam))
      /\ IF r.kind = "live" THEN WriteNewTokens(r) ELSE InsertSibling(r)
  BY DEF RotateCommit
<1>2. ~Fresh(r.sid) /\ sess[r.sid].fam \in Sids /\ sess[r.sid].fam < nextSid
  BY <1>0 DEF IInv, Numbered, Live, Fresh
<1>3. rotations' \subseteq rotations /\ \A q \in rotations' : sess[q.sid].fam # sess[r.sid].fam
  BY <1>1 DEF Conflicting
<1>4. CASE r.kind = "live"
  <2>1. r.at <= sess[r.sid].born + Absolute
    BY <1>0, <1>4, DatesTyped DEF InTime
  <2>2. /\ sess' = [sess EXCEPT ![r.sid].tok = nextTok, ![r.sid].issued = r.at]
        /\ used' = [used EXCEPT ![r.tok] = [sid |-> r.sid, at |-> r.at]]
    BY <1>1, <1>4 DEF WriteNewTokens
  <2>3. \A s \in Sids : /\ sess'[s].st = sess[s].st /\ sess'[s].fam = sess[s].fam
                        /\ sess'[s].born = sess[s].born
                        /\ sess'[s].issued = IF s = r.sid THEN r.at ELSE sess[s].issued
    <3> TAKE s \in Sids
    <3>1. CASE s # r.sid
      BY <3>1, <1>0, <2>2
    <3>2. CASE s = r.sid
      BY <3>2, <1>0, <2>2 DEF Rows
    <3> QED BY <3>1, <3>2
  <2>4. \A t \in Triples : used'[t] = IF t = r.tok THEN [sid |-> r.sid, at |-> r.at] ELSE used[t]
    BY <1>0, <2>2
  <2>5. \A q \in rotations : q.sid \in Sids
    BY <1>0, DatesTyped
  <2>6. Dated'
    <3>1. \A s \in Sids : ~Fresh(s)' => /\ sess'[s].born = sess'[sess'[s].fam].born
                                        /\ sess'[s].issued <= sess'[s].born + Absolute + Grace
      <4> SUFFICES ASSUME NEW s \in Sids, ~Fresh(s)
                   PROVE  /\ sess'[s].born = sess'[sess'[s].fam].born
                          /\ sess'[s].issued <= sess'[s].born + Absolute + Grace
        BY <2>3 DEF Fresh
      <4>1. sess[s].fam \in Sids /\ sess[s].born = sess[sess[s].fam].born
            /\ sess[s].issued <= sess[s].born + Absolute + Grace
        BY <1>0 DEF IInv, Numbered, Dated
      <4>2. r.at <= sess[r.sid].born + Absolute + Grace
        BY <1>0, <2>1, DatesTyped
      <4> QED BY <4>1, <4>2, <2>3
    <3>2. \A t \in Triples : Consumed(t)' => used'[t].at <= sess'[used'[t].sid].born + Absolute
      <4> SUFFICES ASSUME NEW t \in Triples, used'[t] # NoUse
                   PROVE  used'[t].at <= sess'[used'[t].sid].born + Absolute
        BY DEF Consumed
      <4>1. CASE t = r.tok
        BY <4>1, <1>0, <2>1, <2>3, <2>4
      <4>2. CASE t # r.tok
        BY <4>2, <1>0, <2>3, <2>4 DEF IInv, Numbered, Dated, Consumed
      <4> QED BY <4>1, <4>2
    <3>3. \A q \in rotations' : InTime(q)'
      BY <1>0, <1>3, <2>3, <2>5 DEF Dated, InTime
    <3> QED BY <3>1, <3>2, <3>3 DEF Dated
  <2>7. \A f : LiveIn(f)' = LiveIn(f)
    <3> TAKE f
    <3>1. \A s : s \in LiveIn(f)' <=> s \in LiveIn(f)
      BY <2>3, LiveInFields, LiveInNext
    <3> QED BY <3>1
  <2>8. Capped'
    <3>1. FamilyCap'
      BY <1>0, <2>7 DEF Capped, FamilyCap
    <3>2. ASSUME NEW q \in rotations', q.kind = "grace"
          PROVE  Cardinality(LiveIn(sess[q.sid].fam)') < FamilyLimit
      <4>1. PICK f : f = sess[q.sid].fam
        OBVIOUS
      <4>2. Cardinality(LiveIn(f)) < FamilyLimit /\ sess'[q.sid].fam = f
        BY <1>0, <1>3, <2>3, <2>5, <3>2, <4>1 DEF Capped, Roomy
      <4>3. LiveIn(sess[q.sid].fam)' = LiveIn(f)'
        BY <4>2 DEF LiveIn, Family, Live
      <4> QED BY <2>7, <4>2, <4>3
    <3> QED BY <3>1, <3>2 DEF Capped, Roomy
  <2> QED BY <2>6, <2>8
<1>5. CASE r.kind = "grace"
  <2> DEFINE row == [sess[r.sid] EXCEPT !.st = "live", !.tok = nextTok, !.issued = r.at,
                                        !.late = sess[r.sid].late \/ r.overlap]
  <2>1. Insert(row) /\ used' = used
    BY <1>1, <1>5 DEF InsertSibling
  <2>2. r.at \in Times /\ r.overlap \in BOOLEAN /\ nextTok \in 0..MaxTriples
    <3>1. nextTok \in Nat
      BY <1>0 DEF IInv, TypeOK
    <3> QED BY <3>1, <1>0, <2>1 DEF Rotations, Insert
  <2>3. row \in Rows
    BY <1>0, <2>2, RowForked
  <2>4. /\ row.st = "live" /\ row.fam = sess[r.sid].fam /\ row.born = sess[r.sid].born
        /\ row.issued = r.at
    BY <1>0 DEF Rows
  <2> HIDE DEF row
  <2>5. row.issued <= row.born + Absolute + Grace
    BY <1>0, <1>5, <2>4, DatesTyped DEF InTime
  <2>6. row.born = sess[row.fam].born
    BY <1>0, <1>2, <2>4 DEF Dated
  <2>7. Cardinality(LiveIn(row.fam)) < FamilyLimit
    <3>1. Cardinality(LiveIn(sess[r.sid].fam)) < FamilyLimit
      BY <1>0, <1>5 DEF Capped, Roomy
    <3> QED BY <3>1, <2>4
  <2> QED BY <1>2, <1>3, <2>1, <2>3, <2>4, <2>5, <2>6, <2>7, InsertDated
<1> QED BY <1>0, <1>4, <1>5 DEF Rotations

\* Every step keeps both.
LEMMA NextDated ==
    ASSUME DInv, [Next]_vars
    PROVE  DInv'
<1>0. IInv /\ IInv'
  BY NextIInv DEF DInv
<1>1. ASSUME NEW t \in Triples, RotateLive(t) \/ RotateGrace(t)
      PROVE  DInv'
  BY <1>0, <1>1, RotationsBeginDated DEF DInv
<1>2. ASSUME NEW r \in rotations, RotateCommit(r)
      PROVE  DInv'
  BY <1>0, <1>2, RotateCommitDated DEF DInv
<1>3. ASSUME NEW l \in logins, IssueSession(l)
      PROVE  DInv'
  BY <1>0, <1>3, IssueSessionDated DEF DInv
<1>4. CASE RowsEnd
  BY <1>0, <1>4, EndingIsSafe DEF DInv
<1>5. CASE /\ \A t \in Triples : ~RotateLive(t) /\ ~RotateGrace(t)
           /\ \A r \in rotations : ~RotateCommit(r)
           /\ \A l \in logins : ~IssueSession(l)
  BY <1>0, <1>4, <1>5, MostStepsEndRows
<1> QED BY <1>1, <1>2, <1>3, <1>5

\* The empty tables are dated and capped.
LEMMA StartDated == Init => DInv
<1> SUFFICES ASSUME Init PROVE DInv
  OBVIOUS
<1>1. IInv
  BY InitIInv
<1>2. \A s \in Sids : Fresh(s) /\ sess[s].st # "live"
  BY DEF Init, Fresh, NoRow
<1>3. Dated
  BY <1>2 DEF Init, Dated, Consumed
<1>4. \A f : LiveIn(f) = {}
  <2> TAKE f
  <2>1. \A s \in Sids : ~Live(s)
    BY <1>2 DEF Live
  <2> QED BY <2>1 DEF LiveIn, Family
<1>5. Capped
  <2>1. \A f : Cardinality(LiveIn(f)) = 0
    BY <1>4, FS_EmptySet
  <2> QED BY <2>1, SessionsAssumption DEF Init, Capped, FamilyCap
<1> QED BY <1>1, <1>3, <1>5 DEF DInv

\* The ceiling of a login holds for all that its family ever draws, and every triple handed out is
\* still stored, on record, or of a purged family (rotate.go: expireFamilyIfAbsoluteTx,
\* graceSiblingTx, writeNewTokens).
THEOREM RotationIsSound == Spec => []RotationSound
<1>1. Init => DInv
  BY StartDated
<1>2. DInv /\ [Next]_vars => DInv'
  BY NextDated
<1>3. DInv => RotationSound
  <2> SUFFICES ASSUME DInv PROVE RotationSound
    OBVIOUS
  <2>1. CeilingHolds
    BY DEF DInv, Dated, CeilingHolds, Live, Fresh
  <2>2. NoClientStranded
    <3> SUFFICES ASSUME NEW t \in Triples, famOf[t] # 0
                 PROVE  Stored(t) # {} \/ Consumed(t) \/ famOf[t] \in burned
      BY DEF NoClientStranded
    <3>1. famOf[t] \in NamedBy(t) \/ famOf[t] \in burned
      BY DEF DInv, IInv, TriplesNamed
    <3> QED BY <3>1 DEF NamedBy
  <2> QED BY <2>1, <2>2 DEF RotationSound
<1> QED BY <1>1, <1>2, <1>3, PTL DEF Spec

\* However many refreshes race inside the grace window, a family holds no more live sessions than
\* maxLiveSessionsPerFamily (rotate.go: graceSiblingTx).
THEOREM FamilyIsCapped == Spec => []FamilyCap
<1>1. Init => DInv
  BY StartDated
<1>2. DInv /\ [Next]_vars => DInv'
  BY NextDated
<1>3. DInv => FamilyCap
  BY DEF DInv, Capped
<1> QED BY <1>1, <1>2, <1>3, PTL DEF Spec

===============================================================================

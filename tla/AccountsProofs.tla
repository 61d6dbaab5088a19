---------------------------- MODULE AccountsProofs ----------------------------
(***************************************************************************)
(* Proofs about Accounts, for any number of accounts, requests and rows:   *)
(* the owner's seat behaves as OwnerSeat says, no old session gains an     *)
(* administrator's rights, and credentials are neither lost nor slipped in.*)
(*                                                                         *)
(* The inductive invariant says of the tables what AccountsAssumption says *)
(* of the first ones, and of the requests in flight what makes their late  *)
(* commits harmless: before setup there are none that could commit, and    *)
(* the password behind a link in progress is the account's for as long as  *)
(* the epoch that was read with it is.                                     *)
(***************************************************************************)
EXTENDS Accounts, SequenceTheorems, WellFoundedInduction, TLAPS

Purposes == {"login", "invite", "link"}
InviteRows == [email : Addresses, role : {"admin", "editor"},
               state : {"open", "expired", "revoked", "accepted"}, user : Ids \cup {0}]
StateRows  == [purpose : Purposes, user : Ids \cup {0}, sid : Nat, ver : Nat, inv : Nat,
               pw : Nat, open : BOOLEAN]
ConvRows   == [user : Ids, g : Google, ver : Nat, open : BOOLEAN]
ChangeRows == [user : Ids, email : Addresses, ver : Nat, sid : Nat, pw : Nat, open : BOOLEAN]
TokenRows  == [user : Ids, live : BOOLEAN]
GrantRows  == [how : {"link", "convert", "email"}, user : Ids, paid : Nat, pw : Nat,
               email : Addresses, addr : Addresses]
ReqRows    == {Idle} \cup [op : {"issue"}, user : Ids, ver : Nat]
                     \cup [op : {"update"}, target : Ids, edit : Edits]
                     \cup [op : {"revoke", "delete"}, target : Ids]
                     \cup [op : {"transfer"}, from : Ids, target : Ids]
                     \cup [op : {"callback"}, st : Nat, cookie : Nat]
                     \cup [op : {"convert"}, conv : Nat, pw : Nat]
                     \cup [op : {"unlink", "set"}, user : Ids, sid : Nat, ver : Nat]
                     \cup [op : {"link", "move"}, user : Ids, sid : Nat, ver : Nat, pw : Nat,
                           email : Addresses]

\* The tables' types.
TablesTyped ==
    /\ users \in [Ids -> UserRows]
    /\ sess \in Seq(SessRows)
    /\ invites \in Seq(InviteRows)
    /\ idents \subseteq IdentRows
    /\ states \in Seq(StateRows)
    /\ convs \in Seq(ConvRows)
    /\ changes \in Seq(ChangeRows)
    /\ tokens \in Seq(TokenRows)
    /\ pws \in Nat
    /\ grants \subseteq GrantRows
    /\ scen.rows \in Nat

\* A link's state names an account; a request's references name rows.
RequestsTyped ==
    /\ req \in [Slots -> ReqRows]
    /\ \A i \in DOMAIN states : states[i].purpose = "link" => states[i].user \in Ids
    /\ \A p \in Slots : /\ Busy(p, "callback") => req[p].st \in DOMAIN states
                        /\ Busy(p, "convert")  => req[p].conv \in DOMAIN convs
                        /\ Busy(p, "transfer") => req[p].from # req[p].target

\* Before setup there is no request, invitation or link that could make an account active.
SeatHeld ==
    /\ SeatRows(users)
    /\ Unclaimed(users) =>
          /\ invites = <<>>
          /\ ~(Provision /\ "google" \in scen.ops)
          /\ \A p \in Slots : req[p].op \in {"idle", "callback"}
          /\ \A i \in DOMAIN states : states[i].purpose # "link"
    /\ "google" \notin scen.ops => \A i \in DOMAIN states : states[i].purpose = "link"

\* A proof of password pw at epoch ver holds for as long as the epoch does.
Dated(us, u, ver, pw) ==
    /\ us[u].status # "absent"
    /\ ver <= us[u].epoch
    /\ ver = us[u].epoch => pw = us[u].pw

\* Every link in progress carries such a proof.
LinksDated ==
    /\ \A i \in DOMAIN states :
          states[i].purpose = "link" => Dated(users, states[i].user, states[i].ver, states[i].pw)
    /\ \A p \in Slots : Busy(p, "link") => Dated(users, req[p].user, req[p].ver, req[p].pw)

\* The inductive invariant.
IInv ==
    /\ TablesTyped
    /\ RequestsTyped
    /\ SeatHeld
    /\ SessionRows(users, sess)
    /\ CredentialRows(users, idents)
    /\ LinksDated
    /\ IdentityPaid

-------------------------------------------------------------------------------
(***************************************************************************)
(* Sequences.                                                              *)
(***************************************************************************)

\* A table whose rows are edited in place is a table of the same length.
LEMMA EditedTable ==
    ASSUME NEW T, NEW s \in Seq(T), NEW f \in [DOMAIN s -> T]
    PROVE  f \in Seq(T) /\ DOMAIN f = DOMAIN s /\ Len(f) = Len(s)
<1>1. Len(s) \in Nat /\ DOMAIN s = 1 .. Len(s)
  BY LenProperties
<1>2. f \in [1 .. Len(s) -> T]
  BY <1>1
<1>3. f \in Seq(T)
  BY <1>1, <1>2
<1> QED BY <1>1, <1>2, <1>3, LenProperties

\* A table with a new row.
LEMMA LongerTable ==
    ASSUME NEW T, NEW s \in Seq(T), NEW e \in T
    PROVE  /\ Append(s, e) \in Seq(T)
           /\ DOMAIN s \subseteq DOMAIN Append(s, e)
           /\ \A i \in DOMAIN Append(s, e) :
                 Append(s, e)[i] = IF i \in DOMAIN s THEN s[i] ELSE e
<1>1. /\ Len(s) \in Nat /\ DOMAIN s = 1 .. Len(s)
      /\ Append(s, e) \in Seq(T)
      /\ Len(Append(s, e)) = Len(s) + 1
      /\ DOMAIN Append(s, e) = 1 .. Len(Append(s, e))
      /\ \A i \in 1 .. Len(s) : Append(s, e)[i] = s[i]
      /\ Append(s, e)[Len(s) + 1] = e
  BY AppendProperties, LenProperties
<1> QED BY <1>1

\* Rows of tables are rows.
LEMMA RowTypes ==
    ASSUME TablesTyped
    PROVE  /\ \A i \in DOMAIN sess : sess[i] \in SessRows
           /\ \A i \in DOMAIN invites : invites[i] \in InviteRows
           /\ \A i \in DOMAIN states : states[i] \in StateRows
           /\ \A i \in DOMAIN convs : convs[i] \in ConvRows
           /\ \A i \in DOMAIN changes : changes[i] \in ChangeRows
           /\ \A i \in DOMAIN tokens : tokens[i] \in TokenRows
           /\ DOMAIN sess \subseteq Nat /\ DOMAIN invites \subseteq Nat
           /\ DOMAIN states \subseteq Nat /\ DOMAIN convs \subseteq Nat
<1> USE DEF TablesTyped
<1>1. \A i \in DOMAIN sess : sess[i] \in SessRows
  BY ElementOfSeq, LenProperties
<1>2. \A i \in DOMAIN invites : invites[i] \in InviteRows
  BY ElementOfSeq, LenProperties
<1>3. \A i \in DOMAIN states : states[i] \in StateRows
  BY ElementOfSeq, LenProperties
<1>4. \A i \in DOMAIN convs : convs[i] \in ConvRows
  BY ElementOfSeq, LenProperties
<1>5. \A i \in DOMAIN changes : changes[i] \in ChangeRows
  BY ElementOfSeq, LenProperties
<1>6. \A i \in DOMAIN tokens : tokens[i] \in TokenRows
  BY ElementOfSeq, LenProperties
<1>7. /\ DOMAIN sess = 1 .. Len(sess) /\ DOMAIN invites = 1 .. Len(invites)
      /\ DOMAIN states = 1 .. Len(states) /\ DOMAIN convs = 1 .. Len(convs)
      /\ {Len(sess), Len(invites), Len(states), Len(convs)} \subseteq Nat
  BY LenProperties
<1> QED BY <1>1, <1>2, <1>3, <1>4, <1>5, <1>6, <1>7

\* A request's fields, by its operation.
LEMMA RequestFields ==
    ASSUME RequestsTyped, NEW p \in Slots
    PROVE  /\ Busy(p, "issue") => req[p].user \in Ids /\ req[p].ver \in Nat
           /\ Busy(p, "update") => req[p].target \in Ids /\ req[p].edit \in Edits
           /\ Busy(p, "revoke") \/ Busy(p, "delete") => req[p].target \in Ids
           /\ Busy(p, "transfer") => {req[p].from, req[p].target} \subseteq Ids
           /\ Busy(p, "callback") => {req[p].st, req[p].cookie} \subseteq Nat
           /\ Busy(p, "convert") => {req[p].conv, req[p].pw} \subseteq Nat
           /\ Busy(p, "unlink") \/ Busy(p, "set") =>
                 req[p].user \in Ids /\ {req[p].sid, req[p].ver} \subseteq Nat
           /\ Busy(p, "link") \/ Busy(p, "move") =>
                 /\ req[p].user \in Ids /\ req[p].email \in Addresses
                 /\ {req[p].sid, req[p].ver, req[p].pw} \subseteq Nat
<1> DEFINE r == req[p]
<1>1. r \in ReqRows
  BY DEF RequestsTyped
<1>2. /\ r.op = "issue" => r.user \in Ids /\ r.ver \in Nat
      /\ r.op = "update" => r.target \in Ids /\ r.edit \in Edits
      /\ r.op \in {"revoke", "delete"} => r.target \in Ids
      /\ r.op = "transfer" => {r.from, r.target} \subseteq Ids
      /\ r.op = "callback" => {r.st, r.cookie} \subseteq Nat
      /\ r.op = "convert" => {r.conv, r.pw} \subseteq Nat
      /\ r.op \in {"unlink", "set"} => r.user \in Ids /\ {r.sid, r.ver} \subseteq Nat
      /\ r.op \in {"link", "move"} => /\ r.user \in Ids /\ r.email \in Addresses
                                      /\ {r.sid, r.ver, r.pw} \subseteq Nat
  BY <1>1 DEF ReqRows, Idle
<1> QED BY <1>2 DEF Busy

-------------------------------------------------------------------------------
(***************************************************************************)
(* Accounts, and requests in flight.                                       *)
(***************************************************************************)

\* A set of numbers has a least one.
LEMMA LeastElement ==
    ASSUME NEW T \in SUBSET Nat, T # {}
    PROVE  \E x \in T : \A y \in T : x <= y
<1>1. T \subseteq Nat
  OBVIOUS
<1>2. PICK x \in T : \A y \in T : <<y, x>> \notin OpToRel(<, Nat)
  BY <1>1, WFMin, NatLessThanWellFounded, Zenon
<1>3. \A y \in T : ~(y < x)
  BY <1>1, <1>2, Zenon DEF OpToRel
<1> QED BY <1>1, <1>3

\* A new account takes an id that no account had.
LEMMA NextIdIsAbsent ==
    ASSUME NextId # 0
    PROVE  NextId \in Ids /\ Absent(NextId)
<1> DEFINE T == {u \in Ids : Absent(u)}
<1>1. T \in SUBSET Nat /\ T # {}
  BY AccountsAssumption DEF Ids, NextId
<1>2. \E x \in T : \A y \in T : x <= y
  BY <1>1, LeastElement
<1> QED BY <1>2 DEF NextId

\* An active account means that setup is over.
LEMMA ActiveMeansSeated ==
    ASSUME SeatHeld, NEW u \in Ids, Active(u)
    PROVE  Seated(users)
BY DEF SeatHeld, SeatRows, Unclaimed, Active

\* So does a request other than a redirect's, an invitation, and a session that resolves.
LEMMA BusyMeansSeated ==
    ASSUME SeatHeld, NEW p \in Slots, req[p].op \notin {"idle", "callback"}
    PROVE  Seated(users)
BY DEF SeatHeld, SeatRows

\* Only an administrator invites: where there is an invite, the seat is taken.
LEMMA InvitesMeanSeated ==
    ASSUME TablesTyped, SeatHeld, NEW i \in DOMAIN invites
    PROVE  Seated(users)
<1>1. DOMAIN invites = 1 .. Len(invites)
  BY LenProperties DEF TablesTyped
<1>2. invites # <<>>
  BY <1>1
<1> QED BY <1>2 DEF SeatHeld, SeatRows

\* A request with a live session comes from an active account, so the seat is taken.
LEMMA ResolvedMeansSeated ==
    ASSUME TablesTyped, SeatHeld, NEW s, Resolve(s)
    PROVE  s \in DOMAIN sess /\ Caller(s) \in Ids /\ Active(Caller(s)) /\ Seated(users)
<1>1. s \in DOMAIN sess /\ Active(Caller(s))
  BY DEF Resolve, Caller
<1>2. Caller(s) \in Ids
  BY <1>1, RowTypes DEF Caller, SessRows
<1> QED BY <1>1, <1>2, ActiveMeansSeated

\* Of the two, an instance is one.
LEMMA SeatedOrUnclaimed ==
    ASSUME NEW us, Seated(us)
    PROVE  ~Unclaimed(us)
BY DEF Seated, Unclaimed

\* What a handler leaves in its slot.
LEMMA SlotWritten ==
    ASSUME RequestsTyped, NEW p \in Slots, NEW r \in ReqRows, Continue(p, r)
    PROVE  /\ req' \in [Slots -> ReqRows]
           /\ \A q \in Slots : req'[q] = IF q = p THEN r ELSE req[q]
           /\ scen' = scen
BY DEF RequestsTyped, Continue

\* A request ends: its slot is idle, the others are as they were.
LEMMA SlotFreed ==
    ASSUME RequestsTyped, NEW p \in Slots, Finish(p)
    PROVE  /\ req' \in [Slots -> ReqRows]
           /\ \A q \in Slots : req'[q] = IF q = p THEN Idle ELSE req[q]
           /\ scen' = scen
BY SlotWritten DEF Finish, ReqRows

\* Slots other than redirects, conversions, transfers and links refer to nothing that moves.
Settled(r) == r.op \notin {"callback", "convert", "transfer", "link"}

\* What a step leaves of the redirect states: all but whether they are open.
StatesKept ==
    /\ DOMAIN states' = DOMAIN states
    /\ \A i \in DOMAIN states : /\ states'[i].purpose = states[i].purpose
                                /\ states'[i].user = states[i].user
                                /\ states'[i].ver = states[i].ver
                                /\ states'[i].pw = states[i].pw

\* Accounts do not vanish, and a new password comes with a new epoch.
Aged ==
    \A u \in Ids : ~Absent(u) =>
        /\ ~Absent(u)'
        /\ \/ users'[u].epoch > users[u].epoch
           \/ users'[u].epoch = users[u].epoch /\ users'[u].pw = users[u].pw

\* The common part of all commits that change accounts.
LEMMA AccountCommit ==
    ASSUME IInv, Seated(users),
           TablesTyped', Seated(users'), OneOwner(users'), Aged,
           StatesKept, DOMAIN convs' = DOMAIN convs, scen' = scen,
           req' \in [Slots -> ReqRows],
           \A q \in Slots : req'[q] = req[q] \/ Settled(req'[q]),
           SessionRows(users', sess'), CredentialRows(users', idents'), IdentityPaid'
    PROVE  IInv'
<1>1. RequestsTyped'
  BY DEF IInv, RequestsTyped, StatesKept, Settled, Busy
<1>2. SeatHeld'
  <2>1. ~Unclaimed(users')
    BY SeatedOrUnclaimed
  <2> QED BY <2>1 DEF IInv, SeatHeld, SeatRows, StatesKept
<1>3. LinksDated'
  <2>1. ASSUME NEW u \in Ids, NEW ver \in Nat, NEW pw, Dated(users, u, ver, pw)
        PROVE  Dated(users', u, ver, pw)
    <3>1. users[u] \in UserRows /\ users'[u] \in UserRows
      BY TablesTyped' DEF IInv, TablesTyped
    <3>2. users[u].epoch \in Nat /\ users'[u].epoch \in Nat
      BY <3>1 DEF UserRows
    <3> QED BY <2>1, <3>2 DEF Dated, Absent, Aged
  <2>2. ASSUME NEW i \in DOMAIN states', states'[i].purpose = "link"
        PROVE  Dated(users', states'[i].user, states'[i].ver, states'[i].pw)
    <3>1. states[i].user \in Ids /\ Dated(users, states[i].user, states[i].ver, states[i].pw)
      BY <2>2 DEF IInv, LinksDated, RequestsTyped, StatesKept
    <3>2. states[i].ver \in Nat
      BY <2>2, RowTypes DEF IInv, StatesKept, StateRows
    <3> QED BY <2>1, <2>2, <3>1, <3>2 DEF StatesKept, Dated
  <2>3. ASSUME NEW q \in Slots, Busy(q, "link")'
        PROVE  Dated(users', req'[q].user, req'[q].ver, req'[q].pw)
    <3>1. req'[q] = req[q] /\ Busy(q, "link")
      BY <2>3 DEF Settled, Busy
    <3>2. req[q].user \in Ids /\ req[q].ver \in Nat
      BY <3>1, RequestFields DEF IInv
    <3>3. Dated(users, req[q].user, req[q].ver, req[q].pw)
      BY <3>1 DEF IInv, LinksDated
    <3> QED BY <2>1, <3>1, <3>2, <3>3 DEF Dated
  <2> QED BY <2>2, <2>3 DEF LinksDated
<1> QED BY <1>1, <1>2, <1>3 DEF IInv

-------------------------------------------------------------------------------
(***************************************************************************)
(* Steps that only admit a request.                                        *)
(***************************************************************************)

\* A request that refers to rows there are, and after setup unless it is a redirect's.
LEMMA RequestAdmitted ==
    ASSUME IInv, NEW p \in Slots, NEW r \in ReqRows, Continue(p, r), UNCHANGED <<tables, grants>>,
           r.op = "callback" => r.st \in DOMAIN states,
           r.op = "convert" => r.conv \in DOMAIN convs,
           r.op = "transfer" => r.from # r.target,
           r.op = "link" => Dated(users, r.user, r.ver, r.pw),
           r.op \notin {"idle", "callback"} => Seated(users)
    PROVE  IInv'
<1>1. /\ req' \in [Slots -> ReqRows] /\ scen' = scen
      /\ \A q \in Slots : req'[q] = IF q = p THEN r ELSE req[q]
  BY SlotWritten DEF IInv
<1>2. TablesTyped' /\ SessionRows(users, sess)' /\ CredentialRows(users, idents)' /\ IdentityPaid'
  BY <1>1 DEF IInv, TablesTyped, SessionRows, CredentialRows, IdentityPaid, tables
<1>3. RequestsTyped'
  BY <1>1 DEF IInv, RequestsTyped, Busy, tables
<1>4. SeatHeld'
  <2>1. ASSUME Unclaimed(users), NEW q \in Slots
        PROVE  req'[q].op \in {"idle", "callback"}
    BY <1>1, <2>1, SeatedOrUnclaimed DEF IInv, SeatHeld
  <2> QED BY <1>1, <2>1 DEF IInv, SeatHeld, SeatRows, OneOwner, Seated, Unclaimed, tables
<1>5. LinksDated'
  BY <1>1 DEF IInv, LinksDated, Dated, Busy, tables
<1> QED BY <1>2, <1>3, <1>4, <1>5 DEF IInv

\* A password was verified; the request goes on to issue a session for that epoch.
LEMMA LoginProofStep ==
    ASSUME IInv, NEW p \in Slots, NEW u \in Ids, LoginProof(p, u)
    PROVE  IInv'
<1> DEFINE r == [op |-> "issue", user |-> u, ver |-> users[u].epoch]
<1>1. users[u].epoch \in Nat
  BY DEF IInv, TablesTyped, UserRows
<1>2. r \in ReqRows
  BY <1>1 DEF ReqRows
<1>3. Seated(users)
  BY ActiveMeansSeated DEF LoginProof, IInv
<1> QED BY <1>2, <1>3, RequestAdmitted DEF LoginProof

\* A known identity signs in, or is refused, by the account it belongs to.
LEMMA UserByIdentityStep ==
    ASSUME IInv, NEW p \in Slots, NEW g \in Google, UserByIdentity(p, g)
    PROVE  IInv'
<1>1. Holder(g) \in Ids
  BY DEF UserByIdentity, Known, Holder, IInv, TablesTyped, IdentRows
<1>2. CASE Active(Holder(g))
  <2> DEFINE r == [op |-> "issue", user |-> Holder(g), ver |-> users[Holder(g)].epoch]
  <2>1. users[Holder(g)].epoch \in Nat
    BY <1>1 DEF IInv, TablesTyped, UserRows
  <2>2. r \in ReqRows
    BY <1>1, <2>1 DEF ReqRows
  <2>3. Seated(users)
    BY <1>1, <1>2, ActiveMeansSeated DEF IInv
  <2> QED BY <1>2, <2>2, <2>3, RequestAdmitted DEF UserByIdentity
<1>3. CASE ~Active(Holder(g))
  <2>1. Idle \in ReqRows
    BY DEF ReqRows
  <2> QED BY <1>3, <2>1, RequestAdmitted DEF UserByIdentity, Finish, Idle
<1> QED BY <1>2, <1>3

\* An administrator's request passes the gate and holds what it will write.
LEMMA AdministerStep ==
    ASSUME IInv, NEW p \in Slots, NEW s, Administer(p, s)
    PROVE  IInv'
<1>1. ASSUME NEW t \in Ids, NEW e \in Edits, AdminUpdateUser(p, s, t, e)
      PROVE  IInv'
  <2> DEFINE r == [op |-> "update", target |-> t, edit |-> e]
  <2>1. r \in ReqRows
    BY DEF ReqRows
  <2>2. Seated(users)
    BY <1>1, ResolvedMeansSeated DEF AdminUpdateUser, AdminCaller, IInv
  <2> QED BY <1>1, <2>1, <2>2, RequestAdmitted DEF AdminUpdateUser
<1>2. ASSUME NEW t \in Ids, AdminDeleteUser(p, s, t)
      PROVE  IInv'
  <2> DEFINE r == [op |-> "delete", target |-> t]
  <2>1. r \in ReqRows
    BY DEF ReqRows
  <2>2. Seated(users)
    BY <1>2, ResolvedMeansSeated DEF AdminDeleteUser, AdminCaller, IInv
  <2> QED BY <1>2, <2>1, <2>2, RequestAdmitted DEF AdminDeleteUser
<1>3. ASSUME NEW t \in Ids, AdminTransferOwnership(p, s, t)
      PROVE  IInv'
  <2> DEFINE r == [op |-> "transfer", from |-> Caller(s), target |-> t]
  <2>1. Caller(s) \in Ids /\ Seated(users) /\ t # Caller(s)
    BY <1>3, ResolvedMeansSeated DEF AdminTransferOwnership, IInv
  <2>2. r \in ReqRows
    BY <2>1 DEF ReqRows
  <2> QED BY <1>3, <2>1, <2>2, RequestAdmitted DEF AdminTransferOwnership
<1>4. ASSUME NEW t \in Ids, RevokeUserSessions(p, s, t)
      PROVE  IInv'
  <2> DEFINE r == [op |-> "revoke", target |-> t]
  <2>1. r \in ReqRows
    BY DEF ReqRows
  <2>2. Seated(users)
    BY <1>4, ResolvedMeansSeated DEF RevokeUserSessions, AdminCaller, IInv
  <2> QED BY <1>4, <2>1, <2>2, RequestAdmitted DEF RevokeUserSessions
<1> QED BY <1>1, <1>2, <1>3, <1>4 DEF Administer

\* The password read is the account's at the epoch read beside it.
LEMMA VerifyUserPasswordEpochStep ==
    ASSUME IInv, NEW p \in Slots, NEW s, NEW op \in {"link", "move"}, NEW e \in Addresses,
           VerifyUserPasswordEpoch(p, s, op, e)
    PROVE  IInv'
<1> DEFINE u == Caller(s)
           r == [op |-> op, user |-> u, sid |-> s, ver |-> users[u].epoch, pw |-> users[u].pw,
                 email |-> e]
<1>1. s \in DOMAIN sess /\ u \in Ids /\ Active(u) /\ Seated(users)
  BY ResolvedMeansSeated DEF VerifyUserPasswordEpoch, IInv
<1>2. users[u].epoch \in Nat /\ users[u].pw \in Nat /\ s \in Nat
  BY <1>1, RowTypes DEF IInv, TablesTyped, UserRows
<1>3. r \in ReqRows
  BY <1>1, <1>2 DEF ReqRows
<1>4. Dated(users, u, users[u].epoch, users[u].pw)
  BY <1>1, <1>2 DEF Dated, Active
<1>5. Continue(p, r) /\ UNCHANGED <<tables, grants>>
  BY DEF VerifyUserPasswordEpoch
<1> HIDE DEF u
<1> QED BY <1>1, <1>3, <1>4, <1>5, RequestAdmitted

\* A conversion is begun with a password read from its account.
LEMMA OAuthConvertStep ==
    ASSUME IInv, NEW p \in Slots, NEW c \in DOMAIN convs, OAuthConvert(p, c)
    PROVE  IInv'
<1> DEFINE u == convs[c].user
           r == [op |-> "convert", conv |-> c, pw |-> users[u].pw]
<1>1. u \in Ids /\ c \in Nat
  BY RowTypes DEF IInv, ConvRows
<1>2. users[u].pw \in Nat
  BY <1>1 DEF IInv, TablesTyped, UserRows
<1>3. r \in ReqRows
  BY <1>1, <1>2 DEF ReqRows
<1>4. Seated(users)
  BY <1>1, ActiveMeansSeated DEF OAuthConvert, ConvertOpen, IInv
<1>5. Continue(p, r) /\ UNCHANGED <<tables, grants>>
  BY DEF OAuthConvert
<1> HIDE DEF u
<1> QED BY <1>3, <1>4, <1>5, RequestAdmitted

\* A request on the caller's own identities remembers the caller it resolved.
LEMMA BeginFromSessionStep ==
    ASSUME IInv, NEW p \in Slots, NEW s, NEW op \in {"unlink", "set"}, BeginFromSession(p, s, op)
    PROVE  IInv'
<1> DEFINE u == Caller(s)
           r == [op |-> op, user |-> u, sid |-> s, ver |-> users[u].epoch]
<1>1. s \in DOMAIN sess /\ u \in Ids /\ Seated(users)
  BY ResolvedMeansSeated DEF BeginFromSession, IInv
<1>2. users[u].epoch \in Nat /\ s \in Nat
  BY <1>1, RowTypes DEF IInv, TablesTyped, UserRows
<1>3. r \in ReqRows
  BY <1>1, <1>2 DEF ReqRows
<1>4. Continue(p, r) /\ UNCHANGED <<tables, grants>>
  BY DEF BeginFromSession
<1> HIDE DEF u
<1> QED BY <1>1, <1>3, <1>4, RequestAdmitted

-------------------------------------------------------------------------------
(***************************************************************************)
(* Steps that leave accounts, sessions and identities alone.               *)
(***************************************************************************)

\* What a new redirect state must be: a link's carries a proof.
StateAllowed(st) ==
    /\ st.purpose = "link" =>
          st.user \in Ids /\ Seated(users) /\ Dated(users, st.user, st.ver, st.pw)
    /\ "google" \notin scen.ops => st.purpose = "link"

\* A step that leaves accounts, sessions and identities alone keeps the invariant if states and
\* conversions only gain rows of theirs.
LEMMA OtherTables ==
    ASSUME IInv, UNCHANGED <<users, sess, idents, grants, scen>>, TablesTyped',
           req' \in [Slots -> ReqRows],
           \A q \in Slots : \/ req'[q] = req[q] \/ req'[q] = Idle
                            \/ req'[q].op = "callback" /\ req'[q].st \in DOMAIN states,
           DOMAIN states \subseteq DOMAIN states', DOMAIN convs \subseteq DOMAIN convs',
           \A i \in DOMAIN states' :
              IF i \in DOMAIN states
              THEN /\ states'[i].purpose = states[i].purpose /\ states'[i].user = states[i].user
                   /\ states'[i].ver = states[i].ver /\ states'[i].pw = states[i].pw
              ELSE StateAllowed(states'[i]),
           invites' = <<>> \/ Seated(users)
    PROVE  IInv'
<1>1. RequestsTyped'
  <2>1. \A i \in DOMAIN states' : states'[i].purpose = "link" => states'[i].user \in Ids
    BY DEF IInv, RequestsTyped, StateAllowed
  <2>2. ASSUME NEW q \in Slots
        PROVE  /\ Busy(q, "callback")' => req'[q].st \in DOMAIN states'
               /\ Busy(q, "convert")'  => req'[q].conv \in DOMAIN convs'
               /\ Busy(q, "transfer")' => req'[q].from # req'[q].target
    BY DEF IInv, RequestsTyped, Busy, Idle
  <2> QED BY <2>1, <2>2 DEF RequestsTyped
<1>2. SeatHeld'
  <2>1. ASSUME Unclaimed(users), NEW i \in DOMAIN states'
        PROVE  states'[i].purpose # "link"
    BY <2>1, SeatedOrUnclaimed DEF IInv, SeatHeld, StateAllowed
  <2>2. ASSUME Unclaimed(users), NEW q \in Slots
        PROVE  req'[q].op \in {"idle", "callback"}
    BY <2>2 DEF IInv, SeatHeld, Idle
  <2>3. Unclaimed(users) => invites' = <<>>
    BY SeatedOrUnclaimed
  <2>4. ASSUME "google" \notin scen.ops, NEW i \in DOMAIN states'
        PROVE  states'[i].purpose = "link"
    BY <2>4 DEF IInv, SeatHeld, StateAllowed
  <2> QED BY <2>1, <2>2, <2>3, <2>4 DEF IInv, SeatHeld
<1>3. LinksDated'
  <2>1. ASSUME NEW i \in DOMAIN states', states'[i].purpose = "link"
        PROVE  Dated(users, states'[i].user, states'[i].ver, states'[i].pw)
    <3>1. CASE i \in DOMAIN states
      BY <2>1, <3>1 DEF IInv, LinksDated
    <3>2. CASE i \notin DOMAIN states
      BY <2>1, <3>2 DEF StateAllowed
    <3> QED BY <3>1, <3>2
  <2>2. ASSUME NEW q \in Slots, Busy(q, "link")'
        PROVE  Dated(users, req'[q].user, req'[q].ver, req'[q].pw)
    <3>1. req'[q] = req[q]
      BY <2>2 DEF Busy, Idle
    <3> QED BY <2>2, <3>1 DEF IInv, LinksDated, Busy
  <2> QED BY <2>1, <2>2 DEF LinksDated
<1>4. SessionRows(users, sess)' /\ CredentialRows(users, idents)' /\ IdentityPaid'
  BY DEF IInv, SessionRows, CredentialRows, IdentityPaid
<1> QED BY <1>1, <1>2, <1>3, <1>4 DEF IInv

\* The same for steps that touch no redirect state and admit no request.
LEMMA SmallTables ==
    ASSUME IInv, UNCHANGED <<users, sess, idents, states, grants, scen>>, TablesTyped',
           req' \in [Slots -> ReqRows], \A q \in Slots : req'[q] = req[q] \/ req'[q] = Idle,
           DOMAIN convs \subseteq DOMAIN convs',
           invites' = <<>> \/ Seated(users)
    PROVE  IInv'
BY OtherTables, Zenon

\* A step that only edits invites keeps the invariant.
LEMMA InvitesEdited ==
    ASSUME IInv, NEW f \in [DOMAIN invites -> InviteRows], invites' = f, Seated(users),
           UNCHANGED <<users, sess, idents, states, convs, changes, tokens, pws, scen, req, grants>>
    PROVE  IInv'
<1>1. invites' \in Seq(InviteRows)
  BY EditedTable DEF IInv, TablesTyped
<1>2. TablesTyped'
  BY <1>1 DEF IInv, TablesTyped
<1>3. req' \in [Slots -> ReqRows]
  BY DEF IInv, RequestsTyped
<1> QED BY <1>2, <1>3, SmallTables

\* A new invite supersedes those to the same address.
LEMMA CreateInviteStep ==
    ASSUME IInv, NEW s, NEW role \in {"admin", "editor"}, NEW e \in Addresses,
           CreateInvite(s, role, e)
    PROVE  IInv'
<1> DEFINE f == Supersede(e)
           row == [email |-> e, role |-> role, state |-> "open", user |-> 0]
<1>1. Seated(users)
  BY ResolvedMeansSeated DEF CreateInvite, AdminCaller, IInv
<1>2. f \in [DOMAIN invites -> InviteRows]
  BY RowTypes DEF IInv, Supersede, InviteRows
<1>3. f \in Seq(InviteRows) /\ row \in InviteRows
  BY <1>2, EditedTable DEF IInv, TablesTyped, InviteRows
<1>4. Append(f, row) \in Seq(InviteRows)
  BY <1>3, LongerTable
<1>5. /\ invites' = Append(f, row)
      /\ UNCHANGED <<users, sess, idents, states, convs, changes, tokens, pws, scen, req, grants>>
  BY DEF CreateInvite, InviteRow
<1>6. TablesTyped'
  BY <1>4, <1>5 DEF IInv, TablesTyped
<1>7. req' \in [Slots -> ReqRows]
  BY <1>5 DEF IInv, RequestsTyped
<1> QED BY <1>1, <1>5, <1>6, <1>7, SmallTables

\* An invite is revoked.
LEMMA RevokeInviteStep ==
    ASSUME IInv, NEW s, NEW i \in DOMAIN invites, RevokeInvite(s, i)
    PROVE  IInv'
<1> DEFINE f == [invites EXCEPT ![i].state = "revoked"]
<1>1. f \in [DOMAIN invites -> InviteRows]
  BY RowTypes DEF IInv, InviteRows
<1>2. Seated(users)
  BY InvitesMeanSeated DEF IInv
<1> QED BY <1>1, <1>2, InvitesEdited DEF RevokeInvite

\* A new request for an address closes the account's earlier ones.
LEMMA RequestEmailChangeStep ==
    ASSUME IInv, NEW p \in Slots, RequestEmailChange(p)
    PROVE  IInv'
<1> DEFINE r == req[p]
           u == r.user
           f == [c \in DOMAIN changes |-> IF changes[c].user = u
                    THEN [changes[c] EXCEPT !.open = FALSE] ELSE changes[c]]
           row == [user |-> u, email |-> r.email, ver |-> users[u].epoch,
                   sid |-> r.sid, pw |-> r.pw, open |-> TRUE]
<1>1. u \in Ids /\ r.email \in Addresses /\ r.sid \in Nat /\ r.pw \in Nat /\ Seated(users)
  BY RequestFields, BusyMeansSeated DEF RequestEmailChange, IInv, Busy
<1>2. row \in ChangeRows
  BY <1>1 DEF IInv, TablesTyped, UserRows, ChangeRows
<1>3. f \in [DOMAIN changes -> ChangeRows]
  BY RowTypes DEF IInv, ChangeRows
<1>4. f \in Seq(ChangeRows)
  BY <1>3, EditedTable DEF IInv, TablesTyped
<1>5. Append(f, row) \in Seq(ChangeRows)
  BY <1>2, <1>4, LongerTable
<1>6. /\ changes' \in {changes, Append(f, row)}
      /\ Finish(p)
      /\ UNCHANGED <<users, sess, invites, idents, states, convs, tokens, pws, grants>>
  BY DEF RequestEmailChange
<1> HIDE DEF f, row
<1>7. /\ req' \in [Slots -> ReqRows] /\ scen' = scen
      /\ \A q \in Slots : req'[q] = req[q] \/ req'[q] = Idle
  BY <1>6, SlotFreed DEF IInv
<1>8. TablesTyped'
  BY <1>5, <1>6, <1>7 DEF IInv, TablesTyped
<1> QED BY <1>1, <1>6, <1>7, <1>8, SmallTables

\* The account's open address changes are closed.
LEMMA CancelEmailChangeStep ==
    ASSUME IInv, NEW s, CancelEmailChange(s)
    PROVE  IInv'
<1> DEFINE f == [c \in DOMAIN changes |-> IF changes[c].user = Caller(s)
                    THEN [changes[c] EXCEPT !.open = FALSE] ELSE changes[c]]
<1>1. f \in [DOMAIN changes -> ChangeRows]
  BY RowTypes DEF IInv, ChangeRows
<1>2. f \in Seq(ChangeRows)
  BY <1>1, EditedTable DEF IInv, TablesTyped
<1>3. /\ changes' = f
      /\ UNCHANGED <<users, sess, invites, idents, states, convs, tokens, pws, scen, req, grants>>
  BY DEF CancelEmailChange
<1>4. TablesTyped' /\ req' \in [Slots -> ReqRows]
  BY <1>2, <1>3 DEF IInv, TablesTyped, RequestsTyped
<1>5. Seated(users)
  BY ResolvedMeansSeated DEF CancelEmailChange, IInv
<1> QED BY <1>3, <1>4, <1>5, SmallTables

\* API tokens are made and revoked.
LEMMA TokenSteps ==
    ASSUME IInv, NEW s,
           CreateAPIToken(s) \/ \E t \in DOMAIN tokens : RevokeAPIToken(s, t)
    PROVE  IInv'
<1>1. Seated(users) /\ Caller(s) \in Ids
  BY ResolvedMeansSeated DEF CreateAPIToken, RevokeAPIToken, IInv
<1>2. /\ UNCHANGED <<users, sess, invites, idents, states, convs, changes, pws, scen, req, grants>>
      /\ tokens' \in Seq(TokenRows)
  <2>1. CASE CreateAPIToken(s)
    <3>1. [user |-> Caller(s), live |-> TRUE] \in TokenRows
      BY <1>1 DEF TokenRows
    <3> QED BY <2>1, <3>1, LongerTable DEF CreateAPIToken, IInv, TablesTyped
  <2>2. ASSUME NEW t \in DOMAIN tokens, RevokeAPIToken(s, t)
        PROVE  /\ UNCHANGED <<users, sess, invites, idents, states, convs, changes, pws, scen,
                              req, grants>>
               /\ tokens' \in Seq(TokenRows)
    <3> DEFINE f == [tokens EXCEPT ![t].live = FALSE]
    <3>1. f \in [DOMAIN tokens -> TokenRows]
      BY RowTypes DEF IInv, TokenRows
    <3>2. f \in Seq(TokenRows)
      BY <3>1, EditedTable DEF IInv, TablesTyped
    <3> QED BY <2>2, <3>2 DEF RevokeAPIToken
  <2> QED BY <2>1, <2>2
<1>3. TablesTyped' /\ req' \in [Slots -> ReqRows]
  BY <1>2 DEF IInv, TablesTyped, RequestsTyped
<1> QED BY <1>1, <1>2, <1>3, SmallTables

\* A new redirect state, and at most a slot that is freed.
LEMMA StateAdded ==
    ASSUME IInv, NEW st \in StateRows, StateAllowed(st), states' = Append(states, st),
           UNCHANGED <<users, sess, invites, idents, convs, changes, tokens, pws, scen, grants>>,
           req' \in [Slots -> ReqRows], \A q \in Slots : req'[q] = req[q] \/ req'[q] = Idle
    PROVE  IInv'
<1>1. /\ states' \in Seq(StateRows) /\ DOMAIN states \subseteq DOMAIN states'
      /\ \A i \in DOMAIN states' : states'[i] = IF i \in DOMAIN states THEN states[i] ELSE st
  BY LongerTable DEF IInv, TablesTyped
<1>2. TablesTyped'
  BY <1>1 DEF IInv, TablesTyped
<1>3. invites' = <<>> \/ Seated(users)
  BY DEF IInv, SeatHeld, SeatRows
<1> QED BY <1>1, <1>2, <1>3, OtherTables

\* A sign-in at the provider starts, from the login page or from an invite.
LEMMA OAuthStartSteps ==
    ASSUME IInv, "google" \in scen.ops,
           OAuthStart \/ \E i \in DOMAIN invites : OAuthInviteStart(i)
    PROVE  IInv'
<1>1. ASSUME NEW st \in StateRows, st.purpose # "link", states' = Append(states, st),
             UNCHANGED <<users, sess, invites, idents, convs, changes, tokens, pws, scen, req, grants>>
      PROVE  IInv'
  <2>1. StateAllowed(st)
    BY <1>1 DEF StateAllowed
  <2>2. req' \in [Slots -> ReqRows]
    BY <1>1 DEF IInv, RequestsTyped
  <2> QED BY <1>1, <2>1, <2>2, StateAdded
<1>2. CASE OAuthStart
  <2>1. NewState("login", 0, 0, 0, 0, 0) \in StateRows
    BY DEF NewState, StateRows, Purposes
  <2> QED BY <1>1, <1>2, <2>1 DEF OAuthStart, NewState
<1>3. ASSUME NEW i \in DOMAIN invites, OAuthInviteStart(i)
      PROVE  IInv'
  <2>1. NewState("invite", 0, 0, 0, i, 0) \in StateRows
    BY RowTypes DEF IInv, NewState, StateRows, Purposes
  <2> QED BY <1>1, <1>3, <2>1 DEF OAuthInviteStart, NewState
<1> QED BY <1>2, <1>3

\* The proof a request carries goes into its state.
LEMMA CreateOAuthLinkStateStep ==
    ASSUME IInv, NEW p \in Slots, CreateOAuthLinkState(p)
    PROVE  IInv'
<1> DEFINE r == req[p]
           st == NewState("link", r.user, r.sid, r.ver, 0, r.pw)
<1>1. r.user \in Ids /\ {r.sid, r.ver, r.pw} \subseteq Nat /\ Seated(users)
  BY RequestFields, BusyMeansSeated DEF CreateOAuthLinkState, IInv, Busy
<1>2. Dated(users, r.user, r.ver, r.pw)
  BY DEF CreateOAuthLinkState, IInv, LinksDated
<1>3. st \in StateRows /\ StateAllowed(st)
  BY <1>1, <1>2 DEF NewState, StateRows, Purposes, StateAllowed
<1>4. /\ states' \in {states, Append(states, st)}
      /\ Finish(p)
      /\ UNCHANGED <<users, sess, invites, idents, convs, changes, tokens, pws, grants>>
  BY DEF CreateOAuthLinkState
<1> HIDE DEF st
<1>5. /\ req' \in [Slots -> ReqRows] /\ scen' = scen
      /\ \A q \in Slots : req'[q] = req[q] \/ req'[q] = Idle
  BY <1>4, SlotFreed DEF IInv
<1>6. CASE states' = states
  <2>1. TablesTyped'
    BY <1>4, <1>5, <1>6 DEF IInv, TablesTyped
  <2> QED BY <1>1, <1>4, <1>5, <1>6, <2>1, SmallTables
<1>7. CASE states' = Append(states, st)
  BY <1>3, <1>4, <1>5, <1>7, StateAdded
<1> QED BY <1>4, <1>6, <1>7

\* The callback uses its state up.
LEMMA ConsumeOAuthStateStep ==
    ASSUME IInv, NEW p \in Slots, NEW i \in DOMAIN states, NEW cookie \in DOMAIN sess \cup {0},
           ConsumeOAuthState(p, i, cookie)
    PROVE  IInv'
<1> DEFINE f == [states EXCEPT ![i].open = FALSE]
           r == [op |-> "callback", st |-> i, cookie |-> cookie]
<1>1. f \in [DOMAIN states -> StateRows]
  BY RowTypes DEF IInv, StateRows
<1>2. f \in Seq(StateRows) /\ DOMAIN f = DOMAIN states
  BY <1>1, EditedTable DEF IInv, TablesTyped
<1>3. r \in ReqRows
  BY RowTypes DEF IInv, ReqRows
<1>4. /\ states' = f
      /\ UNCHANGED <<scen, req>> \/ Continue(p, r)
      /\ UNCHANGED <<users, sess, invites, idents, convs, changes, tokens, pws, grants>>
  BY DEF ConsumeOAuthState
<1>5. \A j \in DOMAIN f : /\ f[j].purpose = states[j].purpose /\ f[j].user = states[j].user
                          /\ f[j].ver = states[j].ver /\ f[j].pw = states[j].pw
  OBVIOUS
<1> HIDE DEF f
<1>6. /\ req' \in [Slots -> ReqRows] /\ scen' = scen
      /\ \A q \in Slots : req'[q] = req[q] \/ req'[q] = r
  BY <1>3, <1>4, SlotWritten DEF IInv, RequestsTyped
<1>7. TablesTyped'
  BY <1>2, <1>4, <1>6 DEF IInv, TablesTyped
<1>8. invites' = <<>> \/ Seated(users)
  BY <1>4 DEF IInv, SeatHeld, SeatRows
<1> QED BY <1>2, <1>4, <1>5, <1>6, <1>7, <1>8, OtherTables

\* A conversion is offered in place of the account's earlier ones.
LEMMA OfferConversionStep ==
    ASSUME IInv, NEW p \in Slots, NEW g \in Google, OfferConversion(p, g)
    PROVE  IInv'
<1> DEFINE u == ByEmail(g.email)
           f == [i \in DOMAIN convs |-> IF convs[i].user = u
                    THEN [convs[i] EXCEPT !.open = FALSE] ELSE convs[i]]
           row == [user |-> u, g |-> g, ver |-> users[u].epoch, open |-> TRUE]
<1>1. u \in Ids
  BY DEF OfferConversion, Taken, ByEmail
<1>2. row \in ConvRows
  BY <1>1 DEF IInv, TablesTyped, UserRows, ConvRows
<1>3. f \in [DOMAIN convs -> ConvRows]
  BY RowTypes DEF IInv, ConvRows
<1>4. f \in Seq(ConvRows) /\ DOMAIN f = DOMAIN convs
  BY <1>3, EditedTable DEF IInv, TablesTyped
<1>5. Append(f, row) \in Seq(ConvRows) /\ DOMAIN convs \subseteq DOMAIN Append(f, row)
  BY <1>2, <1>4, LongerTable
<1>6. /\ convs' \in {convs, Append(f, row)}
      /\ Finish(p)
      /\ UNCHANGED <<users, sess, invites, idents, states, changes, tokens, pws, grants>>
  BY DEF OfferConversion
<1> HIDE DEF f, row
<1>7. /\ req' \in [Slots -> ReqRows] /\ scen' = scen
      /\ \A q \in Slots : req'[q] = req[q] \/ req'[q] = Idle
  BY <1>6, SlotFreed DEF IInv
<1>8. TablesTyped'
  BY <1>5, <1>6, <1>7 DEF IInv, TablesTyped
<1>9. invites' = <<>> \/ Seated(users)
  BY <1>6 DEF IInv, SeatHeld, SeatRows
<1> QED BY <1>5, <1>6, <1>7, <1>8, <1>9, SmallTables

\* States, conversions, invites and changes run out.
LEMMA ExpireStep ==
    ASSUME IInv, Expire
    PROVE  IInv'
<1>1. UNCHANGED <<users, sess, idents, tokens, pws, scen, req, grants>>
  BY DEF Expire
<1>2. req' \in [Slots -> ReqRows]
  BY <1>1 DEF IInv, RequestsTyped
<1>3. invites = <<>> \/ Seated(users)
  BY DEF IInv, SeatHeld, SeatRows
<1>4. ASSUME NEW i \in DOMAIN invites, invites' = [invites EXCEPT ![i].state = "expired"],
             UNCHANGED <<states, convs, changes>>
      PROVE  IInv'
  <2> DEFINE f == [invites EXCEPT ![i].state = "expired"]
  <2>1. f \in [DOMAIN invites -> InviteRows]
    BY RowTypes DEF IInv, InviteRows
  <2>2. Seated(users)
    BY InvitesMeanSeated DEF IInv
  <2> QED BY <1>1, <1>4, <2>1, <2>2, InvitesEdited
<1>5. ASSUME NEW i \in DOMAIN states, states' = [states EXCEPT ![i].open = FALSE],
             UNCHANGED <<invites, convs, changes>>
      PROVE  IInv'
  <2> DEFINE f == [states EXCEPT ![i].open = FALSE]
  <2>1. f \in [DOMAIN states -> StateRows]
    BY RowTypes DEF IInv, StateRows
  <2>2. f \in Seq(StateRows) /\ DOMAIN f = DOMAIN states
    BY <2>1, EditedTable DEF IInv, TablesTyped
  <2>3. \A j \in DOMAIN f : /\ f[j].purpose = states[j].purpose /\ f[j].user = states[j].user
                            /\ f[j].ver = states[j].ver /\ f[j].pw = states[j].pw
    OBVIOUS
  <2>4. states' = f
    BY <1>5
  <2> HIDE DEF f
  <2>5. TablesTyped'
    BY <1>1, <1>5, <2>2, <2>4 DEF IInv, TablesTyped
  <2> QED BY <1>1, <1>2, <1>3, <1>5, <2>2, <2>3, <2>4, <2>5, OtherTables
<1>6. ASSUME NEW i \in DOMAIN convs, convs' = [convs EXCEPT ![i].open = FALSE],
             UNCHANGED <<invites, states, changes>>
      PROVE  IInv'
  <2> DEFINE f == [convs EXCEPT ![i].open = FALSE]
  <2>1. f \in [DOMAIN convs -> ConvRows]
    BY RowTypes DEF IInv, ConvRows
  <2>2. f \in Seq(ConvRows) /\ DOMAIN f = DOMAIN convs
    BY <2>1, EditedTable DEF IInv, TablesTyped
  <2>3. TablesTyped'
    BY <1>1, <1>6, <2>2 DEF IInv, TablesTyped
  <2> QED BY <1>1, <1>2, <1>3, <1>6, <2>2, <2>3, SmallTables
<1>7. ASSUME NEW i \in DOMAIN changes, changes' = [changes EXCEPT ![i].open = FALSE],
             UNCHANGED <<invites, states, convs>>
      PROVE  IInv'
  <2> DEFINE f == [changes EXCEPT ![i].open = FALSE]
  <2>1. f \in [DOMAIN changes -> ChangeRows]
    BY RowTypes DEF IInv, ChangeRows
  <2>2. f \in Seq(ChangeRows)
    BY <2>1, EditedTable DEF IInv, TablesTyped
  <2>3. TablesTyped'
    BY <1>1, <1>7, <2>2 DEF IInv, TablesTyped
  <2> QED BY <1>1, <1>2, <1>3, <1>7, <2>3, SmallTables
<1> QED BY <1>4, <1>5, <1>6, <1>7 DEF Expire

-------------------------------------------------------------------------------
(***************************************************************************)
(* Sessions.                                                               *)
(***************************************************************************)

\* What a step leaves of the sessions: some may end.
SessionsOnlyEnd ==
    /\ sess' \in Seq(SessRows)
    /\ DOMAIN sess' = DOMAIN sess
    /\ \A s \in DOMAIN sess : /\ sess'[s].user = sess[s].user
                              /\ sess'[s].admin = sess[s].admin
                              /\ sess'[s].live => sess[s].live

\* RevokeSessions ends those of its accounts but the one kept, and does nothing else.
LEMMA RevokeEffect ==
    ASSUME IInv, NEW set, NEW keep, sess' = RevokeSessions(set, keep)
    PROVE  /\ SessionsOnlyEnd
           /\ \A s \in DOMAIN sess : sess[s].user \in set /\ s # keep => ~sess'[s].live
<1> DEFINE f == RevokeSessions(set, keep)
<1>1. \A s \in DOMAIN sess : sess[s] \in SessRows
  BY RowTypes DEF IInv
<1>2. f \in [DOMAIN sess -> SessRows]
  BY <1>1 DEF RevokeSessions, SessRows
<1>3. f \in Seq(SessRows) /\ DOMAIN f = DOMAIN sess
  BY <1>2, EditedTable DEF IInv, TablesTyped
<1>4. \A s \in DOMAIN sess : /\ f[s].user = sess[s].user /\ f[s].admin = sess[s].admin
                             /\ f[s].live => sess[s].live
                             /\ sess[s].user \in set /\ s # keep => ~f[s].live
  BY <1>1 DEF RevokeSessions, SessRows
<1> QED BY <1>3, <1>4 DEF SessionsOnlyEnd

\* No session changed, so none was opened or gained rights.
LEMMA SessionsStay ==
    ASSUME IInv, sess' = sess
    PROVE  SessionsOnlyEnd
BY DEF IInv, TablesTyped, SessionsOnlyEnd

\* No old session gains rights when those whose account is promoted have ended.
LEMMA NoOldSessionPromoted ==
    ASSUME IInv, SessionsOnlyEnd, Aged,
           \A u \in Ids : \/ IsAdmin(users'[u].role) => IsAdmin(users[u].role)
                          \/ \A s \in DOMAIN sess : sess[s].user = u => ~sess'[s].live
                          \/ Absent(u)
    PROVE  SessionRows(users', sess')
<1> SUFFICES ASSUME NEW s \in DOMAIN sess', sess'[s].live
             PROVE  /\ users'[sess'[s].user].status # "absent"
                    /\ IsAdmin(users'[sess'[s].user].role) => sess'[s].admin
  BY DEF SessionRows
<1> DEFINE u == sess[s].user
<1>1. /\ s \in DOMAIN sess /\ sess[s].live /\ sess'[s].user = u /\ sess'[s].admin = sess[s].admin
  BY DEF SessionsOnlyEnd
<1>2. u \in Ids
  BY <1>1, RowTypes DEF IInv, SessRows
<1>3. ~Absent(u) /\ (IsAdmin(users[u].role) => sess[s].admin)
  BY <1>1 DEF IInv, SessionRows, Absent
<1>4. u = sess[s].user
  OBVIOUS
<1> HIDE DEF u
<1>5. users'[u].status # "absent"
  BY <1>2, <1>3 DEF Aged, Absent
<1>6. IsAdmin(users'[u].role) => IsAdmin(users[u].role)
  BY <1>1, <1>2, <1>3, <1>4
<1> QED BY <1>1, <1>3, <1>5, <1>6

\* Accounts that do not change age well.
LEMMA NothingAges ==
    ASSUME users' = users
    PROVE  Aged
BY DEF Aged, Absent

\* A session is opened with the rights its account has now.
LEMMA IssueSessionStep ==
    ASSUME IInv, NEW p \in Slots, IssueSession(p)
    PROVE  IInv'
<1> DEFINE u == req[p].user
           row == [user |-> u, live |-> TRUE, admin |-> IsAdmin(users[u].role)]
<1>1. u \in Ids /\ Seated(users)
  BY RequestFields, BusyMeansSeated DEF IssueSession, IInv, Busy
<1>2. /\ \/ sess' = sess
         \/ Active(u) /\ sess' = Append(sess, row)
      /\ Finish(p)
      /\ UNCHANGED <<users, invites, idents, states, convs, changes, tokens, pws, grants>>
  BY DEF IssueSession
<1>3. row \in SessRows
  BY <1>1 DEF SessRows, IsAdmin
<1>4. /\ req' \in [Slots -> ReqRows] /\ scen' = scen
      /\ \A q \in Slots : req'[q] = req[q] \/ Settled(req'[q])
  BY <1>2, SlotFreed DEF IInv, Settled, Idle
<1>5. sess' \in Seq(SessRows) /\ SessionRows(users', sess')
  <2>1. CASE sess' = sess
    BY <1>2, <2>1 DEF IInv, TablesTyped, SessionRows
  <2>2. CASE Active(u) /\ sess' = Append(sess, row)
    <3>1. /\ sess' \in Seq(SessRows)
          /\ \A i \in DOMAIN sess' : sess'[i] = IF i \in DOMAIN sess THEN sess[i] ELSE row
      BY <1>3, <2>2, LongerTable DEF IInv, TablesTyped
    <3> QED BY <1>2, <2>2, <3>1 DEF IInv, SessionRows, Active
  <2> QED BY <1>2, <2>1, <2>2
<1>6. TablesTyped'
  BY <1>2, <1>4, <1>5 DEF IInv, TablesTyped
<1>7. StatesKept /\ OneOwner(users') /\ CredentialRows(users', idents') /\ IdentityPaid'
  BY <1>2 DEF StatesKept, IInv, SeatHeld, SeatRows, IdentityPaid
<1> QED BY <1>1, <1>2, <1>4, <1>5, <1>6, <1>7, NothingAges, AccountCommit

\* The revocation after an edit ends the target's sessions or fails.
LEMMA RevokeAllForUserStep ==
    ASSUME IInv, NEW p \in Slots, RevokeAllForUser(p)
    PROVE  IInv'
<1>1. Seated(users)
  BY BusyMeansSeated DEF RevokeAllForUser, IInv, Busy
<1>2. /\ sess' \in {sess, RevokeSessions({req[p].target}, 0)}
      /\ Finish(p)
      /\ UNCHANGED <<users, invites, idents, states, convs, changes, tokens, pws, grants>>
  BY DEF RevokeAllForUser
<1>3. SessionsOnlyEnd
  BY <1>2, RevokeEffect, SessionsStay
<1>4. /\ req' \in [Slots -> ReqRows] /\ scen' = scen
      /\ \A q \in Slots : req'[q] = req[q] \/ Settled(req'[q])
  BY <1>2, SlotFreed DEF IInv, Settled, Idle
<1>5. SessionRows(users', sess') /\ Aged
  BY <1>2, <1>3, NothingAges, NoOldSessionPromoted
<1>6. TablesTyped'
  BY <1>2, <1>3, <1>4 DEF IInv, TablesTyped, SessionsOnlyEnd
<1>7. StatesKept /\ OneOwner(users') /\ CredentialRows(users', idents') /\ IdentityPaid'
  BY <1>2 DEF StatesKept, IInv, SeatHeld, SeatRows, IdentityPaid
<1> QED BY <1>1, <1>2, <1>4, <1>5, <1>6, <1>7, AccountCommit

\* The identity is attached on a proof of the password the account has.
LEMMA LinkIdentityStep ==
    ASSUME IInv, NEW p \in Slots, NEW g \in Google, LinkIdentity(p, g)
    PROVE  IInv'
<1> DEFINE st == states[req[p].st]
           u == st.user
<1>1. req[p].st \in DOMAIN states /\ st.purpose = "link"
  BY DEF LinkIdentity, Callback, IInv, RequestsTyped
<1>2. u \in Ids /\ st.pw \in Nat /\ st.ver \in Nat /\ Dated(users, u, st.ver, st.pw)
  BY <1>1, RowTypes DEF IInv, RequestsTyped, LinksDated, StateRows
<1>3. Seated(users)
  BY <1>1 DEF IInv, SeatHeld, SeatRows
<1>4. /\ Finish(p)
      /\ UNCHANGED <<users, sess, invites, states, convs, changes, tokens, pws>>
      /\ \/ UNCHANGED <<idents, grants>>
         \/ /\ LinkProven(st, req[p].cookie)
            /\ Attach(u, g) /\ Paid("link", u, st.pw, g.email)
  BY DEF LinkIdentity
<1> HIDE DEF st
<1>5. /\ req' \in [Slots -> ReqRows] /\ scen' = scen
      /\ \A q \in Slots : req'[q] = req[q] \/ Settled(req'[q])
  BY <1>4, SlotFreed DEF IInv, Settled, Idle
<1>6. idents' \subseteq IdentRows /\ CredentialRows(users', idents')
  BY <1>2, <1>4 DEF Attach, IInv, TablesTyped, IdentRows, Subjects, CredentialRows
<1>7. grants' \subseteq GrantRows /\ IdentityPaid'
  <2>1. CASE UNCHANGED grants
    BY <2>1 DEF IInv, TablesTyped, IdentityPaid
  <2>2. CASE LinkProven(st, req[p].cookie) /\ Paid("link", u, st.pw, g.email)
    <3>1. st.pw = users[u].pw
      BY <1>2, <2>2 DEF LinkProven, SessionProven, Dated
    <3>2. users[u].email \in Addresses /\ users[u].pw \in Nat /\ g.email \in Addresses
      <4>1. users[u] \in UserRows
        BY <1>2 DEF IInv, TablesTyped
      <4>2. g.email \in Addresses
        BY DEF Addresses
      <4> QED BY <4>1, <4>2 DEF UserRows
    <3> DEFINE gr == [how |-> "link", user |-> u, paid |-> st.pw, pw |-> users[u].pw,
                      email |-> g.email, addr |-> users[u].email]
    <3>3. gr \in GrantRows /\ gr.paid = gr.pw
      BY <1>2, <3>1, <3>2 DEF GrantRows
    <3>4. grants' = grants \cup {gr}
      BY <2>2 DEF Paid
    <3> HIDE DEF gr
    <3> QED BY <3>3, <3>4 DEF IInv, TablesTyped, IdentityPaid
  <2> QED BY <1>4, <2>1, <2>2
<1>8. TablesTyped'
  BY <1>4, <1>5, <1>6, <1>7 DEF IInv, TablesTyped
<1>9. StatesKept /\ OneOwner(users') /\ SessionRows(users', sess')
  BY <1>4 DEF StatesKept, IInv, SeatHeld, SeatRows
<1> QED BY <1>3, <1>4, <1>5, <1>6, <1>7, <1>8, <1>9, NothingAges, AccountCommit

-------------------------------------------------------------------------------
(***************************************************************************)
(* Steps that change accounts.                                             *)
(***************************************************************************)

\* A step that leaves the active owner the active owner.
SeatSteady ==
    \/ users' = users
    \/ /\ Seated(users)
       /\ \A v \in Ids : users[v].role = "owner" /\ users[v].status = "active" =>
                           users'[v].role = "owner" /\ users'[v].status = "active"

\* The seat passes from one account to another that is active, and nobody's status changes.
HandedOver(from, to) ==
    /\ from \in Ids /\ to \in Ids /\ from # to
    /\ users[from].role = "owner" /\ users[to].status = "active"
    /\ users'[to].role = "owner"
    /\ \A v \in Ids : users'[v].status = users[v].status

\* A handler that decides against its commit only frees its slot.
LEMMA RequestDropped ==
    ASSUME IInv, NEW p \in Slots, Finish(p), UNCHANGED <<tables, grants>>
    PROVE  IInv' /\ SeatSteady
<1>1. Idle \in ReqRows
  BY DEF ReqRows
<1>2. IInv'
  BY <1>1, RequestAdmitted DEF Finish, Idle
<1>3. users' = users
  BY DEF tables
<1> QED BY <1>2, <1>3 DEF SeatSteady

\* The seat does not move while nobody's role becomes or ceases to be the owner's and the
\* active owner stays active.
LEMMA SeatStays ==
    ASSUME IInv, Seated(users), users' \in [Ids -> UserRows],
           \A v \in Ids : users'[v].role = "owner" <=> users[v].role = "owner",
           \A v \in Ids : users[v].role = "owner" /\ Active(v) => users'[v].status = "active",
           \A v \in Ids : users'[v].status = "pending" => users[v].status = "pending"
    PROVE  Seated(users') /\ OneOwner(users')
<1>1. OneOwner(users)
  BY DEF IInv, SeatHeld, SeatRows
<1> QED BY <1>1 DEF Seated, OneOwner, Active

\* An account other than the owner's, or the owner's within its seat, is edited in one
\* transaction: a new password or a weaker account comes with a new epoch, and a promotion
\* with the end of its sessions.
LEMMA OneAccountEdited ==
    ASSUME IInv, NEW t \in Ids, NEW row \in UserRows, ~Absent(t), Seated(users),
           users' = [users EXCEPT ![t] = row],
           row.status \notin {"absent", "pending"},
           row.role = "owner" <=> users[t].role = "owner",
           users[t].role = "owner" /\ Active(t) => row.status = "active",
           \/ row.epoch > users[t].epoch
           \/ row.epoch = users[t].epoch /\ row.pw = users[t].pw,
           SessionsOnlyEnd,
           \/ IsAdmin(row.role) => IsAdmin(users[t].role)
           \/ \A s \in DOMAIN sess : sess[s].user = t => ~sess'[s].live,
           row.status \in {"active", "disabled"} =>
              row.pw # 0 \/ \E i \in idents' : i.user = t,
           \A i \in idents : i.user # t => i \in idents',
           idents' \subseteq IdentRows, invites' = invites, pws' \in Nat,
           states' \in Seq(StateRows), StatesKept,
           convs' \in Seq(ConvRows), DOMAIN convs' = DOMAIN convs,
           changes' \in Seq(ChangeRows), tokens' \in Seq(TokenRows),
           grants' \subseteq GrantRows, IdentityPaid', scen' = scen,
           req' \in [Slots -> ReqRows], \A q \in Slots : req'[q] = req[q] \/ Settled(req'[q])
    PROVE  IInv' /\ SeatSteady
<1>1. /\ users' \in [Ids -> UserRows]
      /\ \A v \in Ids : users'[v] = IF v = t THEN row ELSE users[v]
  BY DEF IInv, TablesTyped
<1>2. TablesTyped'
  BY <1>1 DEF IInv, TablesTyped, SessionsOnlyEnd
<1>3. Seated(users') /\ OneOwner(users')
  <2>1. \A v \in Ids : users'[v].role = "owner" <=> users[v].role = "owner"
    BY <1>1
  <2>2. \A v \in Ids : users[v].role = "owner" /\ Active(v) => users'[v].status = "active"
    BY <1>1 DEF Active
  <2>3. \A v \in Ids : users'[v].status = "pending" => users[v].status = "pending"
    BY <1>1
  <2> QED BY <1>1, <2>1, <2>2, <2>3, SeatStays
<1>4. Aged
  BY <1>1 DEF Aged, Absent
<1>5. SessionRows(users', sess')
  BY <1>1, <1>4, NoOldSessionPromoted
<1>6. CredentialRows(users', idents')
  BY <1>1 DEF IInv, CredentialRows
<1>7. SeatSteady
  BY <1>1 DEF SeatSteady, Active
<1> QED BY <1>2, <1>3, <1>4, <1>5, <1>6, <1>7, AccountCommit

\* A new account takes an unused id, is nobody's old one, and is no owner's.
LEMMA OneAccountCreated ==
    ASSUME IInv, NEW t \in Ids, NEW row \in UserRows, Absent(t), Seated(users),
           users' = [users EXCEPT ![t] = row],
           row.status = "active", row.role \in {"admin", "editor"},
           row.pw # 0 \/ \E i \in idents' : i.user = t,
           idents \subseteq idents', idents' \subseteq IdentRows,
           invites' \in Seq(InviteRows), pws' \in Nat, scen' = scen,
           UNCHANGED <<sess, states, convs, changes, tokens, grants>>,
           req' \in [Slots -> ReqRows], \A q \in Slots : req'[q] = req[q] \/ Settled(req'[q])
    PROVE  IInv' /\ SeatSteady
<1>1. /\ users' \in [Ids -> UserRows]
      /\ \A v \in Ids : users'[v] = IF v = t THEN row ELSE users[v]
  BY DEF IInv, TablesTyped
<1>2. TablesTyped'
  BY <1>1 DEF IInv, TablesTyped
<1>3. Seated(users') /\ OneOwner(users')
  <2>1. users[t].role # "owner"
    BY DEF IInv, SeatHeld, SeatRows, OneOwner, Seated, Absent
  <2>2. \A v \in Ids : users'[v].role = "owner" <=> users[v].role = "owner"
    BY <1>1, <2>1
  <2>3. \A v \in Ids : users[v].role = "owner" /\ Active(v) => users'[v].status = "active"
    BY <1>1 DEF Active
  <2>4. \A v \in Ids : users'[v].status = "pending" => users[v].status = "pending"
    BY <1>1
  <2> QED BY <1>1, <2>2, <2>3, <2>4, SeatStays
<1>4. Aged
  BY <1>1 DEF Aged, Absent
<1>5. SessionRows(users', sess')
  BY <1>1, <1>4, SessionsStay, NoOldSessionPromoted
<1>6. CredentialRows(users', idents')
  BY <1>1 DEF IInv, CredentialRows
<1>7. StatesKept /\ IdentityPaid'
  BY DEF StatesKept, IInv, IdentityPaid
<1>8. SeatSteady
  BY <1>1 DEF SeatSteady, Absent
<1> QED BY <1>2, <1>3, <1>4, <1>5, <1>6, <1>7, <1>8, AccountCommit

\* An edit by an administrator: never of the owner, and a promotion ends the sessions.
LEMMA UpdateUserStep ==
    ASSUME IInv, NEW p \in Slots, UpdateUser(p)
    PROVE  IInv' /\ SeatSteady
<1> DEFINE t == req[p].target
           e == req[p].edit
           row == [users[t] EXCEPT !.role = IF e.role = "keep" THEN @ ELSE e.role,
                                   !.status = IF e.status = "keep" THEN @ ELSE e.status,
                                   !.epoch = @ + 1]
           ok == /\ users[t].status \notin {"absent", "gone"}
                 /\ ~ownerIsImmutable(t, e)
                 /\ isDemoteOrDisable(e) => guardLastAdmin(t)
<1>1. t \in Ids /\ e \in Edits /\ Seated(users)
  BY RequestFields, BusyMeansSeated DEF UpdateUser, IInv, Busy
<1>2. /\ IF ok THEN /\ users' = applyUserUpdate(t, e)
                    /\ sess' = IF isAdminPromotion(t, e) THEN RevokeSessions({t}, 0) ELSE sess
               ELSE UNCHANGED <<users, sess>>
      /\ Finish(p) \/ Continue(p, [op |-> "revoke", target |-> t])
      /\ ~ok => Finish(p)
      /\ UNCHANGED <<invites, idents, states, convs, changes, tokens, pws, grants>>
  BY DEF UpdateUser
<1>3. CASE ~ok
  BY <1>2, <1>3, RequestDropped DEF tables
<1>4. CASE ok
  <2>1. [op |-> "revoke", target |-> t] \in ReqRows
    BY <1>1 DEF ReqRows
  <2>2. /\ req' \in [Slots -> ReqRows] /\ scen' = scen
        /\ \A q \in Slots : req'[q] = req[q] \/ Settled(req'[q])
    BY <1>2, <2>1, SlotWritten, SlotFreed DEF IInv, Settled, Idle
  <2>3. users[t] \in UserRows /\ users[t].status # "pending"
    BY <1>1 DEF IInv, TablesTyped, Seated
  <2>4. /\ row \in UserRows
        /\ row.epoch > users[t].epoch /\ row.pw = users[t].pw
        /\ row.role = IF e.role = "keep" THEN users[t].role ELSE e.role
        /\ row.status = IF e.status = "keep" THEN users[t].status ELSE e.status
    <3> DEFINE ro == IF e.role = "keep" THEN users[t].role ELSE e.role
               sta == IF e.status = "keep" THEN users[t].status ELSE e.status
    <3>1. /\ ro \in {"owner", "admin", "editor"}
          /\ sta \in {"absent", "pending", "active", "disabled", "gone"}
          /\ users[t].epoch \in Nat
      BY <1>1, <2>3 DEF Edits, UserRows
    <3> HIDE DEF ro, sta
    <3>2. row = [users[t] EXCEPT !.role = ro, !.status = sta, !.epoch = users[t].epoch + 1]
      BY DEF ro, sta
    <3>3. users[t].epoch + 1 \in Nat /\ users[t].epoch + 1 > users[t].epoch
      BY <3>1
    <3> HIDE DEF row
    <3>4. row \in UserRows /\ row.epoch = users[t].epoch + 1 /\ row.role = ro /\ row.status = sta
          /\ row.pw = users[t].pw
      BY <2>3, <3>1, <3>2, <3>3 DEF UserRows
    <3> QED BY <3>3, <3>4 DEF ro, sta
  <2>5. users' = [users EXCEPT ![t] = row]
    BY <1>1, <1>2, <1>4 DEF applyUserUpdate, IInv, TablesTyped
  <2>6. /\ SessionsOnlyEnd
        /\ \/ ~isAdminPromotion(t, e)
           \/ \A s \in DOMAIN sess : sess[s].user = t => ~sess'[s].live
    <3>1. CASE isAdminPromotion(t, e)
      <4>1. sess' = RevokeSessions({t}, 0)
        BY <1>2, <1>4, <3>1
      <4>2. \A s \in DOMAIN sess : s # 0
        BY LenProperties DEF IInv, TablesTyped
      <4> QED BY <4>1, <4>2, RevokeEffect
    <3>2. CASE ~isAdminPromotion(t, e)
      BY <1>2, <1>4, <3>2, SessionsStay
    <3> QED BY <3>1, <3>2
  <2>7. IsAdmin(row.role) => IsAdmin(users[t].role) \/ isAdminPromotion(t, e)
    BY <2>4 DEF isAdminPromotion
  <2>8. /\ row.role = "owner" <=> users[t].role = "owner"
        /\ users[t].role = "owner" => row.status = users[t].status
        /\ row.status \notin {"absent", "pending"}
    BY <1>1, <1>4, <2>3, <2>4 DEF ownerIsImmutable, Edits
  <2>9. row.status \in {"active", "disabled"} => row.pw # 0 \/ \E i \in idents' : i.user = t
    <3>1. users[t].status \in {"active", "disabled"}
      BY <1>4, <2>3 DEF UserRows
    <3> QED BY <1>1, <1>2, <2>4, <3>1 DEF IInv, CredentialRows
  <2>10. StatesKept /\ IdentityPaid'
    BY <1>2 DEF StatesKept, IInv, IdentityPaid
  <2>11. ~Absent(t)
    BY <1>4 DEF Absent
  <2>12. /\ idents' \subseteq IdentRows /\ pws' \in Nat /\ states' \in Seq(StateRows)
         /\ convs' \in Seq(ConvRows) /\ changes' \in Seq(ChangeRows)
         /\ tokens' \in Seq(TokenRows) /\ grants' \subseteq GrantRows
    BY <1>2 DEF IInv, TablesTyped
  <2> HIDE DEF row, t
  <2> QED BY <1>1, <1>2, <2>2, <2>4, <2>5, <2>6, <2>7, <2>8, <2>9, <2>10, <2>11, <2>12,
             OneAccountEdited DEF Active
<1> QED BY <1>3, <1>4

\* Ending every session of an account leaves none of its live: no session has id 0.
LEMMA AllRevoked ==
    ASSUME IInv, NEW set, sess' = RevokeSessions(set, 0)
    PROVE  /\ SessionsOnlyEnd
           /\ \A s \in DOMAIN sess : sess[s].user \in set => ~sess'[s].live
<1>1. \A s \in DOMAIN sess : s # 0
  BY LenProperties DEF IInv, TablesTyped
<1> QED BY <1>1, RevokeEffect

\* Closing rows of a table, in place, keeps it a table.
LEMMA ClosedRows ==
    ASSUME IInv, NEW t
    PROVE  /\ [i \in DOMAIN states |-> IF states[i].user = t
                 THEN [states[i] EXCEPT !.open = FALSE] ELSE states[i]] \in Seq(StateRows)
           /\ [i \in DOMAIN convs |-> IF convs[i].user = t
                 THEN [convs[i] EXCEPT !.open = FALSE] ELSE convs[i]] \in Seq(ConvRows)
           /\ [i \in DOMAIN changes |-> IF changes[i].user = t
                 THEN [changes[i] EXCEPT !.open = FALSE] ELSE changes[i]] \in Seq(ChangeRows)
           /\ [i \in DOMAIN tokens |-> IF tokens[i].user = t
                 THEN [tokens[i] EXCEPT !.live = FALSE] ELSE tokens[i]] \in Seq(TokenRows)
<1>1. [i \in DOMAIN states |-> IF states[i].user = t
         THEN [states[i] EXCEPT !.open = FALSE] ELSE states[i]] \in [DOMAIN states -> StateRows]
  BY RowTypes DEF IInv, StateRows
<1>2. [i \in DOMAIN convs |-> IF convs[i].user = t
         THEN [convs[i] EXCEPT !.open = FALSE] ELSE convs[i]] \in [DOMAIN convs -> ConvRows]
  BY RowTypes DEF IInv, ConvRows
<1>3. [i \in DOMAIN changes |-> IF changes[i].user = t
         THEN [changes[i] EXCEPT !.open = FALSE] ELSE changes[i]] \in [DOMAIN changes -> ChangeRows]
  BY RowTypes DEF IInv, ChangeRows
<1>4. [i \in DOMAIN tokens |-> IF tokens[i].user = t
         THEN [tokens[i] EXCEPT !.live = FALSE] ELSE tokens[i]] \in [DOMAIN tokens -> TokenRows]
  BY RowTypes DEF IInv, TokenRows
<1>5. /\ states \in Seq(StateRows) /\ convs \in Seq(ConvRows)
      /\ changes \in Seq(ChangeRows) /\ tokens \in Seq(TokenRows)
  BY DEF IInv, TablesTyped
<1> QED BY <1>1, <1>2, <1>3, <1>4, <1>5, EditedTable

\* A deletion, never of the owner: the foreign keys take everything of the account along.
LEMMA DeleteUserStep ==
    ASSUME IInv, NEW p \in Slots, DeleteUser(p)
    PROVE  IInv' /\ SeatSteady
<1> DEFINE t == req[p].target
           row == [users[t] EXCEPT !.status = "gone", !.email = "none"]
           ok == /\ users[t].status \notin {"absent", "gone"}
                 /\ users[t].role # "owner"
                 /\ guardLastAdmin(t)
<1>1. t \in Ids /\ Seated(users)
  BY RequestFields, BusyMeansSeated DEF DeleteUser, IInv, Busy
<1>2. /\ IF ok THEN Cascade(t) ELSE UNCHANGED <<users, sess, idents, states, convs, changes, tokens>>
      /\ Finish(p)
      /\ UNCHANGED <<invites, pws, grants>>
  BY DEF DeleteUser
<1>3. CASE ~ok
  BY <1>2, <1>3, RequestDropped DEF tables
<1>4. CASE ok
  <2>1. /\ req' \in [Slots -> ReqRows] /\ scen' = scen
        /\ \A q \in Slots : req'[q] = req[q] \/ Settled(req'[q])
    BY <1>2, SlotFreed DEF IInv, Settled, Idle
  <2>2. users[t] \in UserRows
    BY <1>1 DEF IInv, TablesTyped
  <2>3. row \in UserRows /\ row.status = "gone"
        /\ row.role = users[t].role /\ row.epoch = users[t].epoch /\ row.pw = users[t].pw
    <3>1. "none" \in Addresses
      BY DEF Addresses
    <3> QED BY <2>2, <3>1 DEF UserRows
  <2>4. /\ users' = [users EXCEPT ![t] = row]
        /\ sess' = RevokeSessions({t}, 0)
        /\ idents' = {i \in idents : i.user # t}
    BY <1>2, <1>4 DEF Cascade
  <2>5. /\ states' \in Seq(StateRows) /\ convs' \in Seq(ConvRows)
        /\ changes' \in Seq(ChangeRows) /\ tokens' \in Seq(TokenRows)
    <3>1. /\ states' = [i \in DOMAIN states |-> IF states[i].user = t
                         THEN [states[i] EXCEPT !.open = FALSE] ELSE states[i]]
          /\ convs' = [i \in DOMAIN convs |-> IF convs[i].user = t
                         THEN [convs[i] EXCEPT !.open = FALSE] ELSE convs[i]]
          /\ changes' = [i \in DOMAIN changes |-> IF changes[i].user = t
                         THEN [changes[i] EXCEPT !.open = FALSE] ELSE changes[i]]
          /\ tokens' = [i \in DOMAIN tokens |-> IF tokens[i].user = t
                         THEN [tokens[i] EXCEPT !.live = FALSE] ELSE tokens[i]]
      BY <1>2, <1>4 DEF Cascade
    <3> HIDE DEF t
    <3> QED BY <3>1, ClosedRows, Zenon
  <2>6. StatesKept /\ DOMAIN convs' = DOMAIN convs
    <3>1. \A i \in DOMAIN states : states[i] \in StateRows
      BY RowTypes DEF IInv
    <3> QED BY <1>2, <1>4, <3>1 DEF Cascade, StatesKept, StateRows
  <2>7. SessionsOnlyEnd
    BY <2>4, AllRevoked
  <2>8. /\ idents' \subseteq IdentRows /\ pws' \in Nat /\ grants' \subseteq GrantRows /\ IdentityPaid'
        /\ \A i \in idents : i.user # t => i \in idents'
    BY <1>2, <2>4 DEF IInv, TablesTyped, IdentityPaid
  <2>9. ~Absent(t) /\ users[t].role # "owner"
    BY <1>4 DEF Absent
  <2> HIDE DEF row, t
  <2> QED BY <1>1, <1>2, <2>1, <2>3, <2>4, <2>5, <2>6, <2>7, <2>8, <2>9, OneAccountEdited
<1> QED BY <1>3, <1>4

\* A row with a new role and the next epoch.
LEMMA RowRisen ==
    ASSUME NEW r \in UserRows, NEW role \in {"owner", "admin", "editor"}
    PROVE  LET n == [r EXCEPT !.role = role, !.epoch = @ + 1]
           IN /\ n \in UserRows /\ n.role = role /\ n.epoch > r.epoch
              /\ n.status = r.status /\ n.pw = r.pw
<1>1. r.epoch \in Nat
  BY DEF UserRows
<1>2. r.epoch + 1 \in Nat /\ r.epoch + 1 > r.epoch
  BY <1>1
<1> DEFINE e == r.epoch + 1
           n == [r EXCEPT !.role = role, !.epoch = e]
<1>3. e \in Nat /\ e > r.epoch
  BY <1>2
<1> HIDE DEF e
<1>4. n \in UserRows /\ n.role = role /\ n.epoch = e /\ n.status = r.status /\ n.pw = r.pw
  BY <1>3 DEF UserRows
<1>5. n = [r EXCEPT !.role = role, !.epoch = @ + 1]
  BY DEF e
<1> QED BY <1>3, <1>4, <1>5

\* The seat moves to another active account, in one transaction that ends both accounts'
\* sessions.
LEMMA TransferOwnershipStep ==
    ASSUME IInv, NEW p \in Slots, TransferOwnership(p)
    PROVE  IInv' /\ (users' = users \/ HandedOver(req[p].from, req[p].target))
<1> DEFINE from == req[p].from
           to   == req[p].target
<1>1. from \in Ids /\ to \in Ids /\ from # to /\ Seated(users)
  BY RequestFields, BusyMeansSeated DEF TransferOwnership, IInv, Busy, RequestsTyped
<1>2. /\ IF Transferable(from, to)
         THEN /\ users' = [users EXCEPT ![from].role = "admin", ![to].role = "owner",
                                        ![from].epoch = @ + 1, ![to].epoch = @ + 1]
              /\ sess' = RevokeSessions({from, to}, 0)
         ELSE UNCHANGED <<users, sess>>
      /\ Finish(p)
      /\ UNCHANGED <<invites, idents, states, convs, changes, tokens, pws, grants>>
  BY DEF TransferOwnership
<1> HIDE DEF from, to
<1>3. CASE ~Transferable(from, to)
  BY <1>2, <1>3, RequestDropped DEF tables
<1>4. CASE Transferable(from, to)
  <2>1. /\ req' \in [Slots -> ReqRows] /\ scen' = scen
        /\ \A q \in Slots : req'[q] = req[q] \/ Settled(req'[q])
    BY <1>2, SlotFreed DEF IInv, Settled, Idle
  <2>2. users \in [Ids -> UserRows]
    BY DEF IInv, TablesTyped
  <2> DEFINE fr == [users[from] EXCEPT !.role = "admin", !.epoch = @ + 1]
             tr == [users[to] EXCEPT !.role = "owner", !.epoch = @ + 1]
  <2>3. /\ fr \in UserRows /\ fr.role = "admin" /\ fr.epoch > users[from].epoch
        /\ fr.status = users[from].status /\ fr.pw = users[from].pw
    <3>1. users[from] \in UserRows
      BY <1>1, <2>2
    <3> QED BY <3>1, RowRisen
  <2>4. /\ tr \in UserRows /\ tr.role = "owner" /\ tr.epoch > users[to].epoch
        /\ tr.status = users[to].status /\ tr.pw = users[to].pw
    <3>1. users[to] \in UserRows
      BY <1>1, <2>2
    <3> QED BY <3>1, RowRisen
  <2>5. \A v \in Ids : users'[v] = IF v = from THEN fr ELSE IF v = to THEN tr ELSE users[v]
    BY <1>1, <1>2, <1>4, <2>2
  <2>6. DOMAIN users' = Ids /\ users' = [v \in Ids |-> users'[v]]
    BY <1>1, <1>2, <1>4, <2>2
  <2> HIDE DEF fr, tr
  <2>7. users' \in [Ids -> UserRows]
    BY <2>2, <2>3, <2>4, <2>5, <2>6
  <2>8. SessionsOnlyEnd /\ \A s \in DOMAIN sess : sess[s].user \in {from, to} => ~sess'[s].live
    BY <1>2, <1>4, AllRevoked
  <2>9. TablesTyped'
    BY <1>2, <2>1, <2>7, <2>8 DEF IInv, TablesTyped, SessionsOnlyEnd
  <2>10. users[from].role = "owner" /\ users[to].status = "active" /\ OneOwner(users)
    BY <1>4 DEF Transferable, Active, IInv, SeatHeld, SeatRows
  <2>11. Seated(users') /\ OneOwner(users')
    BY <1>1, <2>3, <2>4, <2>5, <2>10 DEF Seated, OneOwner
  <2>12. Aged
    BY <1>1, <2>3, <2>4, <2>5 DEF Aged, Absent
  <2>13. \A u \in Ids : \/ IsAdmin(users'[u].role) => IsAdmin(users[u].role)
                        \/ \A s \in DOMAIN sess : sess[s].user = u => ~sess'[s].live
                        \/ Absent(u)
    BY <2>5, <2>8
  <2>14. SessionRows(users', sess')
    BY <2>8, <2>12, <2>13, NoOldSessionPromoted
  <2>15. CredentialRows(users', idents')
    BY <1>1, <1>2, <2>3, <2>4, <2>5 DEF IInv, CredentialRows
  <2>16. StatesKept /\ IdentityPaid' /\ DOMAIN convs' = DOMAIN convs
    BY <1>2 DEF StatesKept, IInv, IdentityPaid
  <2>17. HandedOver(from, to)
    BY <1>1, <2>3, <2>4, <2>5, <2>10 DEF HandedOver
  <2>18. IInv'
    BY <1>1, <1>2, <2>1, <2>9, <2>11, <2>12, <2>14, <2>15, <2>16, AccountCommit
  <2> QED BY <2>17, <2>18 DEF from, to
<1> QED BY <1>3, <1>4

\* The row of a new account.
LEMMA NewUserRow ==
    ASSUME NEW role \in {"owner", "admin", "editor"}, NEW e \in Addresses, NEW pw \in Nat,
           NEW v \in BOOLEAN
    PROVE  NewUser(role, e, pw, v) \in UserRows
BY DEF NewUser, UserRows

\* An administrator creates an account with a password.
LEMMA CreateUserStep ==
    ASSUME IInv, NEW s, NEW role \in {"admin", "editor"}, NEW e \in Addresses,
           CreateUser(s, role, e)
    PROVE  IInv' /\ SeatSteady
<1> DEFINE row == NewUser(role, e, NewPassword, FALSE)
<1>1. Seated(users)
  BY ResolvedMeansSeated DEF CreateUser, AdminCaller, IInv
<1>2. NextId \in Ids /\ Absent(NextId)
  BY NextIdIsAbsent DEF CreateUser, AdminCreateUser
<1>3. NewPassword \in Nat /\ NewPassword # 0
  BY DEF NewPassword, IInv, TablesTyped
<1>4. row \in UserRows
  BY <1>3, NewUserRow
<1>5. row.status = "active" /\ row.role = role /\ row.pw # 0
  BY <1>3 DEF NewUser
<1>6. /\ users' = [users EXCEPT ![NextId] = row]
      /\ pws' = NewPassword
      /\ UNCHANGED <<sess, invites, idents, states, convs, changes, tokens, scen, req, grants>>
  BY DEF CreateUser, AdminCreateUser
<1>7. /\ idents' \subseteq IdentRows /\ invites' \in Seq(InviteRows) /\ pws' \in Nat
      /\ req' \in [Slots -> ReqRows]
  BY <1>3, <1>6 DEF IInv, TablesTyped, RequestsTyped
<1> HIDE DEF row
<1> QED BY <1>1, <1>2, <1>4, <1>5, <1>6, <1>7, OneAccountCreated

\* The request that goes on to sign the new account in.
LEMMA SignsIn ==
    ASSUME IInv, NEW p \in Slots, NEW u \in Ids, NEW ver \in Nat,
           Continue(p, [op |-> "issue", user |-> u, ver |-> ver])
    PROVE  /\ req' \in [Slots -> ReqRows] /\ scen' = scen
           /\ \A q \in Slots : req'[q] = req[q] \/ Settled(req'[q])
<1> DEFINE r == [op |-> "issue", user |-> u, ver |-> ver]
<1>1. r \in ReqRows /\ Settled(r)
  BY DEF ReqRows, Settled
<1> QED BY <1>1, SlotWritten DEF IInv

\* An invitation accepted is an invitation still.
LEMMA InviteAccepted ==
    ASSUME IInv, NEW i \in DOMAIN invites, NEW u \in Ids
    PROVE  [invites EXCEPT ![i].state = "accepted", ![i].user = u] \in Seq(InviteRows)
<1>1. [invites EXCEPT ![i].state = "accepted", ![i].user = u] \in [DOMAIN invites -> InviteRows]
  BY RowTypes DEF IInv, InviteRows
<1> QED BY <1>1, EditedTable DEF IInv, TablesTyped

\* An invite becomes an active account that is not the owner.
LEMMA AcceptInviteStep ==
    ASSUME IInv, NEW p \in Slots, NEW i \in DOMAIN invites, AcceptInvite(p, i)
    PROVE  IInv' /\ SeatSteady
<1> DEFINE row == NewUser(invites[i].role, invites[i].email, NewPassword, TRUE)
<1>1. Seated(users)
  BY InvitesMeanSeated DEF IInv
<1>2. NextId \in Ids /\ Absent(NextId)
  BY NextIdIsAbsent DEF AcceptInvite
<1>3. NewPassword \in Nat /\ NewPassword # 0
  BY DEF NewPassword, IInv, TablesTyped
<1>4. invites[i].role \in {"admin", "editor"} /\ invites[i].email \in Addresses
  BY RowTypes DEF IInv, InviteRows
<1>5. row \in UserRows
  BY <1>3, <1>4, NewUserRow
<1>6. row.status = "active" /\ row.role = invites[i].role /\ row.pw # 0
  BY <1>3 DEF NewUser
<1>7. /\ users' = [users EXCEPT ![NextId] = row]
      /\ invites' = [invites EXCEPT ![i].state = "accepted", ![i].user = NextId]
      /\ pws' = NewPassword
      /\ Continue(p, [op |-> "issue", user |-> NextId, ver |-> 0])
      /\ UNCHANGED <<sess, idents, states, convs, changes, tokens, grants>>
  BY DEF AcceptInvite, Accepted
<1>8. /\ req' \in [Slots -> ReqRows] /\ scen' = scen
      /\ \A q \in Slots : req'[q] = req[q] \/ Settled(req'[q])
  BY <1>2, <1>7, SignsIn
<1>9. idents' \subseteq IdentRows /\ invites' \in Seq(InviteRows) /\ pws' \in Nat
  BY <1>2, <1>3, <1>7, InviteAccepted DEF IInv, TablesTyped
<1> HIDE DEF row
<1> QED BY <1>1, <1>2, <1>4, <1>5, <1>6, <1>7, <1>8, <1>9, OneAccountCreated

\* A redirect's request is after setup when what it would create is allowed only then.
LEMMA AcceptInviteWithIdentityStep ==
    ASSUME IInv, NEW p \in Slots, NEW g \in Google, AcceptInviteWithIdentity(p, g)
    PROVE  IInv' /\ SeatSteady
<1> DEFINE i == states[req[p].st].inv
           ok == /\ g.verified /\ InviteOpen(i) /\ g.email = invites[i].email
                 /\ ~Taken(g.email) /\ IdentityFree(0, g)
<1>1. /\ ok => NextId # 0
      /\ IF ok THEN /\ Accepted(i, 0)
                    /\ Attach(NextId, g)
                    /\ Continue(p, [op |-> "issue", user |-> NextId, ver |-> 0])
               ELSE Finish(p) /\ UNCHANGED <<users, invites, idents>>
      /\ UNCHANGED <<sess, states, convs, changes, tokens, pws, grants>>
  BY DEF AcceptInviteWithIdentity
<1>2. CASE ~ok
  BY <1>1, <1>2, RequestDropped DEF tables
<1>3. CASE ok
  <2> DEFINE row == NewUser(invites[i].role, invites[i].email, 0, TRUE)
             id == [user |-> NextId, subject |-> g.subject]
  <2>1. i \in DOMAIN invites
    BY <1>3 DEF InviteOpen
  <2> HIDE DEF i
  <2>2. Seated(users)
    BY <2>1, InvitesMeanSeated DEF IInv
  <2>3. NextId \in Ids /\ Absent(NextId)
    BY <1>1, <1>3, NextIdIsAbsent
  <2>4. invites[i].role \in {"admin", "editor"} /\ invites[i].email \in Addresses
    BY <2>1, RowTypes DEF IInv, InviteRows
  <2>5. row \in UserRows
    BY <2>4, NewUserRow
  <2>6. row.status = "active" /\ row.role = invites[i].role
    BY DEF NewUser
  <2>7. id \in IdentRows /\ id.user = NextId
    BY <2>3 DEF IdentRows, Subjects
  <2>8. /\ users' = [users EXCEPT ![NextId] = row]
        /\ invites' = [invites EXCEPT ![i].state = "accepted", ![i].user = NextId]
        /\ idents' = idents \cup {id}
        /\ Continue(p, [op |-> "issue", user |-> NextId, ver |-> 0])
    BY <1>1, <1>3 DEF Accepted, Attach
  <2>9. /\ req' \in [Slots -> ReqRows] /\ scen' = scen
        /\ \A q \in Slots : req'[q] = req[q] \/ Settled(req'[q])
    BY <2>3, <2>8, SignsIn
  <2> HIDE DEF row, id
  <2>10. /\ idents \subseteq idents' /\ idents' \subseteq IdentRows
         /\ \E x \in idents' : x.user = NextId
         /\ invites' \in Seq(InviteRows) /\ pws' \in Nat
    BY <1>1, <2>1, <2>3, <2>7, <2>8, InviteAccepted DEF IInv, TablesTyped
  <2> QED BY <1>1, <2>2, <2>3, <2>4, <2>5, <2>6, <2>8, <2>9, <2>10, OneAccountCreated
<1> QED BY <1>2, <1>3

\* Before setup no policy provisions, or no redirect but a link's is in flight.
LEMMA ProvisionOAuthUserStep ==
    ASSUME IInv, NEW p \in Slots, NEW g \in Google, ProvisionOAuthUser(p, g)
    PROVE  IInv' /\ SeatSteady
<1> DEFINE ok == oauthAutoProvision(g)
<1>1. /\ ok => NextId # 0
      /\ IF ok THEN /\ users' = [users EXCEPT ![NextId] = NewUser("editor", g.email, 0, TRUE)]
                    /\ Attach(NextId, g)
                    /\ Continue(p, [op |-> "issue", user |-> NextId, ver |-> 0])
               ELSE Finish(p) /\ UNCHANGED <<users, idents>>
      /\ UNCHANGED <<sess, invites, states, convs, changes, tokens, pws, grants>>
  BY DEF ProvisionOAuthUser
<1>2. CASE ~ok
  BY <1>1, <1>2, RequestDropped DEF tables
<1>3. CASE ok
  <2> DEFINE row == NewUser("editor", g.email, 0, TRUE)
             id == [user |-> NextId, subject |-> g.subject]
  <2>1. req[p].st \in DOMAIN states /\ states[req[p].st].purpose = "login"
    BY DEF ProvisionOAuthUser, Callback, IInv, RequestsTyped
  <2>2. Seated(users)
    BY <1>3, <2>1 DEF oauthAutoProvision, IInv, SeatHeld, SeatRows
  <2>3. NextId \in Ids /\ Absent(NextId)
    BY <1>1, <1>3, NextIdIsAbsent
  <2>4. row \in UserRows
    <3>1. g.email \in Addresses
      BY DEF Addresses
    <3> QED BY <3>1, NewUserRow
  <2>5. row.status = "active" /\ row.role = "editor"
    BY DEF NewUser
  <2>6. id \in IdentRows /\ id.user = NextId
    BY <2>3 DEF IdentRows, Subjects
  <2>7. /\ users' = [users EXCEPT ![NextId] = row]
        /\ idents' = idents \cup {id}
        /\ Continue(p, [op |-> "issue", user |-> NextId, ver |-> 0])
    BY <1>1, <1>3 DEF Attach
  <2>8. /\ req' \in [Slots -> ReqRows] /\ scen' = scen
        /\ \A q \in Slots : req'[q] = req[q] \/ Settled(req'[q])
    BY <2>3, <2>7, SignsIn
  <2> HIDE DEF row, id
  <2>9. /\ idents \subseteq idents' /\ idents' \subseteq IdentRows
        /\ \E x \in idents' : x.user = NextId
        /\ invites' \in Seq(InviteRows) /\ pws' \in Nat
    BY <1>1, <2>6, <2>7 DEF IInv, TablesTyped
  <2> QED BY <1>1, <2>2, <2>3, <2>4, <2>5, <2>7, <2>8, <2>9, OneAccountCreated
<1> QED BY <1>2, <1>3

\* A credential or address of an active account is replaced: the epoch ends every proof made
\* before it, and what signs the account in remains.
LEMMA CredentialReplaced ==
    ASSUME IInv, NEW u \in Ids, Active(u), Seated(users),
           NEW pw \in Nat, NEW e \in Addresses, NEW v \in BOOLEAN,
           users' = [users EXCEPT ![u] = [users[u] EXCEPT !.epoch = users[u].epoch + 1,
                                             !.pw = pw, !.email = e, !.verified = v]],
           SessionsOnlyEnd,
           pw # 0 \/ \E i \in idents' : i.user = u,
           \A i \in idents : i.user # u => i \in idents',
           idents' \subseteq IdentRows, invites' = invites, pws' \in Nat,
           states' = states, convs' \in Seq(ConvRows), DOMAIN convs' = DOMAIN convs,
           changes' \in Seq(ChangeRows), tokens' = tokens,
           grants' \subseteq GrantRows, IdentityPaid', scen' = scen,
           req' \in [Slots -> ReqRows], \A q \in Slots : req'[q] = req[q] \/ Settled(req'[q])
    PROVE  IInv' /\ SeatSteady
<1> DEFINE r == users[u]
           row == [r EXCEPT !.epoch = r.epoch + 1, !.pw = pw, !.email = e, !.verified = v]
<1>1. r \in UserRows
  BY DEF IInv, TablesTyped
<1>2. /\ row \in UserRows /\ row.epoch > users[u].epoch /\ row.pw = pw
      /\ row.role = users[u].role /\ row.status = users[u].status
  <2> DEFINE x == r.epoch + 1
  <2>1. r.epoch \in Nat
    BY <1>1 DEF UserRows
  <2>2. x \in Nat /\ x > r.epoch
    BY <2>1
  <2> HIDE DEF r
  <2>3. /\ r.role \in {"owner", "admin", "editor"}
        /\ r.status \in {"absent", "pending", "active", "disabled", "gone"}
    BY <1>1 DEF UserRows
  <2>4. row = [role |-> r.role, status |-> r.status, epoch |-> x, email |-> e, pw |-> pw,
               verified |-> v]
    <3>1. r = [role |-> r.role, status |-> r.status, epoch |-> r.epoch, email |-> r.email,
               pw |-> r.pw, verified |-> r.verified]
      BY <1>1 DEF UserRows
    <3>2. row = [r EXCEPT !.epoch = x, !.pw = pw, !.email = e, !.verified = v]
      OBVIOUS
    <3> HIDE DEF x, row
    <3> QED BY <3>1, <3>2
  <2> HIDE DEF x, row
  <2>5. row \in UserRows
    BY <2>2, <2>3, <2>4 DEF UserRows
  <2>6. row.epoch = x /\ row.pw = pw /\ row.role = r.role /\ row.status = r.status
    BY <2>4
  <2> QED BY <2>1, <2>2, <2>5, <2>6 DEF r
<1>3. row.status = "active" /\ ~Absent(u)
  BY <1>2 DEF Active, Absent
<1>4. StatesKept /\ states' \in Seq(StateRows) /\ tokens' \in Seq(TokenRows)
  BY DEF StatesKept, IInv, TablesTyped
<1> HIDE DEF row
<1>5. users' = [users EXCEPT ![u] = row]
  BY DEF row
<1> QED BY <1>2, <1>3, <1>4, <1>5, OneAccountEdited

\* Fields that a record update leaves alone.
LEMMA FieldsKept ==
    ASSUME IInv, NEW u \in Ids
    PROVE  /\ users \in [Ids -> UserRows]
           /\ users[u].epoch \in Nat /\ users[u].pw \in Nat
           /\ users[u].email \in Addresses /\ users[u].verified \in BOOLEAN
BY DEF IInv, TablesTyped, UserRows

\* An identity is given up only by an account with a password.
LEMMA UnlinkIdentityStep ==
    ASSUME IInv, NEW p \in Slots, UnlinkIdentity(p)
    PROVE  IInv' /\ SeatSteady
<1> DEFINE r == req[p]
           u == r.user
           ok == SessionProven(u, r.sid, r.ver) /\ MayUnlink(u)
<1>1. u \in Ids /\ Seated(users)
  BY RequestFields, BusyMeansSeated DEF UnlinkIdentity, IInv, Busy
<1>2. /\ Finish(p)
      /\ IF ok THEN /\ idents' = {i \in idents : i.user # u}
                    /\ users' = [users EXCEPT ![u].epoch = @ + 1]
                    /\ CredentialCommit(u, r.sid) /\ UNCHANGED pws
               ELSE UNCHANGED <<tables, grants>>
  BY DEF UnlinkIdentity
<1>3. CASE ~ok
  BY <1>2, <1>3, RequestDropped
<1>4. CASE ok
  <2>1. /\ req' \in [Slots -> ReqRows] /\ scen' = scen
        /\ \A q \in Slots : req'[q] = req[q] \/ Settled(req'[q])
    BY <1>2, SlotFreed DEF IInv, Settled, Idle
  <2>2. /\ idents' = {i \in idents : i.user # u}
        /\ sess' = RevokeSessions({u}, r.sid)
        /\ UNCHANGED <<invites, states, convs, changes, tokens, pws, grants>>
    BY <1>2, <1>4 DEF CredentialCommit
  <2>3. users' = [users EXCEPT ![u] = [users[u] EXCEPT !.epoch = users[u].epoch + 1,
                     !.pw = users[u].pw, !.email = users[u].email,
                     !.verified = users[u].verified]]
    BY <1>1, <1>2, <1>4, FieldsKept DEF UserRows
  <2>4. Active(u) /\ users[u].pw # 0
    BY <1>4 DEF SessionProven, MayUnlink
  <2>5. SessionsOnlyEnd
    BY <2>2, RevokeEffect
  <2>6. /\ \A i \in idents : i.user # u => i \in idents'
        /\ idents' \subseteq IdentRows /\ pws' \in Nat
        /\ convs' \in Seq(ConvRows) /\ changes' \in Seq(ChangeRows)
        /\ grants' \subseteq GrantRows /\ IdentityPaid'
    BY <2>2 DEF IInv, TablesTyped, IdentityPaid
  <2>7. /\ users[u].pw \in Nat /\ users[u].email \in Addresses /\ users[u].verified \in BOOLEAN
    BY <1>1, FieldsKept
  <2> HIDE DEF u
  <2> QED BY <1>1, <2>1, <2>2, <2>3, <2>4, <2>5, <2>6, <2>7, CredentialReplaced
<1> QED BY <1>3, <1>4

\* A password is set by an account that has none.
LEMMA SetPasswordStep ==
    ASSUME IInv, NEW p \in Slots, SetPassword(p)
    PROVE  IInv' /\ SeatSteady
<1> DEFINE r == req[p]
           u == r.user
           ok == SessionProven(u, r.sid, r.ver) /\ users[u].pw = 0
<1>1. u \in Ids /\ Seated(users)
  BY RequestFields, BusyMeansSeated DEF SetPassword, IInv, Busy
<1>2. /\ Finish(p)
      /\ IF ok THEN /\ users' = [users EXCEPT ![u].epoch = @ + 1, ![u].pw = NewPassword]
                    /\ pws' = NewPassword
                    /\ CredentialCommit(u, r.sid) /\ UNCHANGED idents
               ELSE UNCHANGED <<tables, grants>>
  BY DEF SetPassword
<1>3. CASE ~ok
  BY <1>2, <1>3, RequestDropped
<1>4. CASE ok
  <2>1. /\ req' \in [Slots -> ReqRows] /\ scen' = scen
        /\ \A q \in Slots : req'[q] = req[q] \/ Settled(req'[q])
    BY <1>2, SlotFreed DEF IInv, Settled, Idle
  <2>2. /\ sess' = RevokeSessions({u}, r.sid) /\ pws' = NewPassword
        /\ UNCHANGED <<invites, idents, states, convs, changes, tokens, grants>>
    BY <1>2, <1>4 DEF CredentialCommit
  <2>3. NewPassword \in Nat /\ NewPassword # 0
    BY DEF NewPassword, IInv, TablesTyped
  <2>4. users' = [users EXCEPT ![u] = [users[u] EXCEPT !.epoch = users[u].epoch + 1,
                     !.pw = NewPassword, !.email = users[u].email,
                     !.verified = users[u].verified]]
    BY <1>1, <1>2, <1>4, FieldsKept DEF UserRows
  <2>5. Active(u)
    BY <1>4 DEF SessionProven
  <2>6. SessionsOnlyEnd
    BY <2>2, RevokeEffect
  <2>7. /\ idents' \subseteq IdentRows /\ convs' \in Seq(ConvRows) /\ changes' \in Seq(ChangeRows)
        /\ grants' \subseteq GrantRows /\ IdentityPaid'
    BY <2>2 DEF IInv, TablesTyped, IdentityPaid
  <2>8. users[u].email \in Addresses /\ users[u].verified \in BOOLEAN
    BY <1>1, FieldsKept
  <2> HIDE DEF u
  <2> QED BY <1>1, <2>1, <2>2, <2>3, <2>4, <2>5, <2>6, <2>7, <2>8, CredentialReplaced
<1> QED BY <1>3, <1>4

\* The password is verified and replaced in one transaction.
LEMMA ChangePasswordStep ==
    ASSUME IInv, NEW s, ChangePassword(s)
    PROVE  IInv' /\ SeatSteady
<1> DEFINE u == Caller(s)
<1>1. u \in Ids /\ Active(u) /\ Seated(users)
  BY ResolvedMeansSeated DEF ChangePassword, IInv
<1>2. /\ users' = [users EXCEPT ![u].epoch = @ + 1, ![u].pw = NewPassword]
      /\ sess' = RevokeSessions({u}, s) /\ pws' = NewPassword
      /\ UNCHANGED <<invites, idents, states, convs, changes, tokens, grants, scen, req>>
  BY DEF ChangePassword, CredentialCommit
<1> HIDE DEF u
<1>3. NewPassword \in Nat /\ NewPassword # 0
  BY DEF NewPassword, IInv, TablesTyped
<1>4. users' = [users EXCEPT ![u] = [users[u] EXCEPT !.epoch = users[u].epoch + 1,
                   !.pw = NewPassword, !.email = users[u].email,
                   !.verified = users[u].verified]]
  BY <1>1, <1>2, FieldsKept DEF UserRows
<1>5. SessionsOnlyEnd
  BY <1>2, RevokeEffect
<1>6. /\ idents' \subseteq IdentRows /\ convs' \in Seq(ConvRows) /\ changes' \in Seq(ChangeRows)
      /\ grants' \subseteq GrantRows /\ IdentityPaid' /\ req' \in [Slots -> ReqRows]
  BY <1>2 DEF IInv, TablesTyped, IdentityPaid, RequestsTyped
<1>7. users[u].email \in Addresses /\ users[u].verified \in BOOLEAN
  BY <1>1, FieldsKept
<1>8. /\ DOMAIN convs' = DOMAIN convs /\ scen' = scen /\ pws' \in Nat
      /\ \A q \in Slots : req'[q] = req[q] \/ Settled(req'[q])
      /\ \A i \in idents : i.user # u => i \in idents'
      /\ invites' = invites /\ states' = states /\ tokens' = tokens
  BY <1>2, <1>3
<1> HIDE DEF NewPassword
<1> QED BY <1>1, <1>3, <1>4, <1>5, <1>6, <1>7, <1>8, CredentialReplaced, Zenon

\* What is granted on a proof of the password an account has.
LEMMA GrantPaid ==
    ASSUME IInv, NEW how \in {"link", "convert", "email"}, NEW u \in Ids, NEW pw \in Nat,
           NEW e \in Addresses, Paid(how, u, pw, e),
           how \in {"link", "convert"} => pw = users[u].pw
    PROVE  grants' \subseteq GrantRows /\ IdentityPaid'
<1> DEFINE gr == [how |-> how, user |-> u, paid |-> pw, pw |-> users[u].pw,
                  email |-> e, addr |-> users[u].email]
<1>1. gr \in GrantRows
  BY FieldsKept DEF GrantRows
<1>2. gr.how \in {"link", "convert"} => gr.paid = gr.pw
  OBVIOUS
<1>3. grants' = grants \cup {gr}
  BY DEF Paid
<1> HIDE DEF gr
<1> QED BY <1>1, <1>2, <1>3 DEF IInv, TablesTyped, IdentityPaid

\* A conversion attaches the identity and retires the password in one transaction, on a proof
\* of that password.
LEMMA ConvertToProviderStep ==
    ASSUME IInv, NEW p \in Slots, ConvertToProvider(p)
    PROVE  IInv' /\ SeatSteady
<1> DEFINE c == req[p].conv
           u == convs[c].user
           g == convs[c].g
           ok == lockConvertUser(c, req[p].pw) /\ IdentityFree(u, g)
<1>1. c \in DOMAIN convs /\ u \in Ids /\ g \in Google /\ req[p].pw \in Nat /\ Seated(users)
  <2>1. Busy(p, "convert")
    BY DEF ConvertToProvider
  <2>2. c \in DOMAIN convs
    BY <2>1 DEF IInv, RequestsTyped
  <2>3. req[p].pw \in Nat /\ Seated(users)
    BY <2>1, RequestFields, BusyMeansSeated DEF IInv, Busy
  <2> QED BY <2>2, <2>3, RowTypes DEF IInv, ConvRows
<1>2. /\ IF ok
         THEN /\ users' = [users EXCEPT ![u].pw = 0, ![u].epoch = @ + 1]
              /\ convs' = [convs EXCEPT ![c].open = FALSE]
              /\ sess' = RevokeSessions({u}, 0)
              /\ Attach(u, g) /\ Paid("convert", u, req[p].pw, g.email)
              /\ Continue(p, [op |-> "issue", user |-> u, ver |-> users[u].epoch + 1])
         ELSE UNCHANGED <<users, convs, sess, idents, grants>> /\ Finish(p)
      /\ UNCHANGED <<invites, states, changes, tokens, pws>>
  BY DEF ConvertToProvider
<1>3. CASE ~ok
  BY <1>2, <1>3, RequestDropped DEF tables
<1>4. CASE ok
  <2>1. Active(u) /\ users[u].pw = req[p].pw
    BY <1>4 DEF lockConvertUser, ConvertOpen
  <2>2. convs' \in Seq(ConvRows) /\ DOMAIN convs' = DOMAIN convs
    <3> DEFINE f == [convs EXCEPT ![c].open = FALSE]
    <3>1. f \in [DOMAIN convs -> ConvRows]
      BY <1>1, RowTypes DEF IInv, ConvRows
    <3>2. f \in Seq(ConvRows) /\ DOMAIN f = DOMAIN convs
      BY <3>1, EditedTable DEF IInv, TablesTyped
    <3> QED BY <1>2, <1>4, <3>2
  <2> HIDE DEF c, u, g
  <2>3. users[u].epoch + 1 \in Nat
    BY <1>1, FieldsKept
  <2>4. /\ req' \in [Slots -> ReqRows] /\ scen' = scen
        /\ \A q \in Slots : req'[q] = req[q] \/ Settled(req'[q])
    BY <1>1, <1>2, <1>4, <2>3, SignsIn
  <2>5. SessionsOnlyEnd
    BY <1>2, <1>4, RevokeEffect
  <2>6. /\ \E i \in idents' : i.user = u
        /\ idents \subseteq idents' /\ idents' \subseteq IdentRows
    <3> DEFINE id == [user |-> u, subject |-> g.subject]
    <3>1. id \in IdentRows /\ id.user = u
      BY <1>1 DEF IdentRows, Subjects
    <3>2. idents' = idents \cup {id}
      BY <1>2, <1>4 DEF Attach
    <3> HIDE DEF id
    <3> QED BY <3>1, <3>2 DEF IInv, TablesTyped
  <2>7. grants' \subseteq GrantRows /\ IdentityPaid'
    <3>1. g.email \in Addresses
      BY <1>1 DEF Addresses
    <3>2. Paid("convert", u, req[p].pw, g.email)
      BY <1>2, <1>4
    <3> QED BY <1>1, <2>1, <3>1, <3>2, GrantPaid
  <2>8. users' = [users EXCEPT ![u] = [users[u] EXCEPT !.epoch = users[u].epoch + 1,
                     !.pw = 0, !.email = users[u].email,
                     !.verified = users[u].verified]]
    BY <1>1, <1>2, <1>4, FieldsKept DEF UserRows
  <2>9. pws' \in Nat /\ changes' \in Seq(ChangeRows)
    BY <1>2 DEF IInv, TablesTyped
  <2>10. users[u].email \in Addresses /\ users[u].verified \in BOOLEAN
    BY <1>1, FieldsKept
  <2> QED BY <1>1, <1>2, <2>1, <2>2, <2>4, <2>5, <2>6, <2>7, <2>8, <2>9, <2>10,
             CredentialReplaced
<1> QED BY <1>3, <1>4

\* The address moves; every session ends.
LEMMA ConfirmEmailChangeStep ==
    ASSUME IInv, NEW c \in DOMAIN changes, ConfirmEmailChange(c)
    PROVE  IInv' /\ SeatSteady
<1> DEFINE u == changes[c].user
           e == changes[c].email
<1>1. u \in Ids /\ e \in Addresses /\ changes[c].pw \in Nat
  BY RowTypes DEF IInv, ChangeRows
<1>2. Active(u)
  BY DEF ConfirmEmailChange, ChangeLive, SessionProven
<1>3. Seated(users)
  BY <1>1, <1>2, ActiveMeansSeated DEF IInv
<1>4. /\ users' = [users EXCEPT ![u].email = e, ![u].verified = TRUE, ![u].epoch = @ + 1]
      /\ changes' = [changes EXCEPT ![c].open = FALSE]
      /\ sess' = RevokeSessions({u}, 0)
      /\ Paid("email", u, changes[c].pw, e)
      /\ UNCHANGED <<invites, idents, states, convs, tokens, pws, scen, req>>
  BY DEF ConfirmEmailChange, ConsumeEmailChange
<1>5. changes' \in Seq(ChangeRows)
  <2> DEFINE f == [changes EXCEPT ![c].open = FALSE]
  <2>1. f \in [DOMAIN changes -> ChangeRows]
    BY RowTypes DEF IInv, ChangeRows
  <2>2. f \in Seq(ChangeRows)
    BY <2>1, EditedTable DEF IInv, TablesTyped
  <2> QED BY <1>4, <2>2
<1> HIDE DEF u, e
<1>6. grants' \subseteq GrantRows /\ IdentityPaid'
  BY <1>1, <1>4, GrantPaid
<1>7. users' = [users EXCEPT ![u] = [users[u] EXCEPT !.epoch = users[u].epoch + 1,
                   !.pw = users[u].pw, !.email = e, !.verified = TRUE]]
  BY <1>1, <1>4, FieldsKept DEF UserRows
<1>8. SessionsOnlyEnd
  BY <1>4, RevokeEffect
<1>9. users[u].pw # 0 \/ \E i \in idents' : i.user = u
  BY <1>1, <1>2, <1>4 DEF IInv, CredentialRows, Active
<1>10. /\ idents' \subseteq IdentRows /\ pws' \in Nat /\ convs' \in Seq(ConvRows)
       /\ req' \in [Slots -> ReqRows]
  BY <1>4 DEF IInv, TablesTyped, RequestsTyped
<1>11. users[u].pw \in Nat /\ TRUE \in BOOLEAN
  BY <1>1, FieldsKept
<1> QED BY <1>1, <1>2, <1>3, <1>4, <1>5, <1>6, <1>7, <1>8, <1>9, <1>10, <1>11,
           CredentialReplaced

\* Setup, the one commit before there is an owner: it claims the administrator that was left to
\* claim, whose old sessions are an administrator's, or creates one; no request, invitation or
\* link is there to commit after it on what it read before.
LEMMA BootstrapStep ==
    ASSUME IInv, NEW e \in Addresses, Bootstrap(e)
    PROVE  /\ IInv'
           /\ Unclaimed(users)
           /\ \E id \in Ids : users'[id].role = "owner" /\ Actives' = {id}
<1> DEFINE id == IF placeholders # {}
                 THEN CHOOSE u \in placeholders : \A v \in placeholders : u <= v
                 ELSE NextId
           row == [NewUser("owner", e, NewPassword, TRUE) EXCEPT !.epoch = users[id].epoch]
<1>1. /\ NeedsBootstrap /\ id # 0
      /\ users' = [users EXCEPT ![id] = row]
      /\ pws' = NewPassword
      /\ UNCHANGED <<sess, invites, idents, states, convs, changes, tokens, scen, req, grants>>
  BY DEF Bootstrap
<1>2. Unclaimed(users)
  BY <1>1 DEF NeedsBootstrap, Actives, Active, Seated, IInv, SeatHeld, SeatRows
<1> DEFINE least == CHOOSE u \in placeholders : \A v \in placeholders : u <= v
<1>3. id \in Ids /\ (id \in placeholders \/ (placeholders = {} /\ Absent(id)))
  <2>1. id = IF placeholders # {} THEN least ELSE NextId
    OBVIOUS
  <2>2. placeholders # {} => least \in placeholders
    <3>1. placeholders \in SUBSET Nat
      BY DEF placeholders, Ids
    <3>2. placeholders # {} => \E u \in placeholders : \A v \in placeholders : u <= v
      BY <3>1, LeastElement
    <3> QED BY <3>2
  <2>3. placeholders \subseteq Ids
    BY DEF placeholders
  <2>4. id # 0
    BY <1>1
  <2> HIDE DEF id, least
  <2> QED BY <2>1, <2>2, <2>3, <2>4, NextIdIsAbsent
<1> HIDE DEF id
<1>4. users \in [Ids -> UserRows] /\ NewPassword \in Nat /\ NewPassword # 0
  BY DEF NewPassword, IInv, TablesTyped
<1>5. /\ row \in UserRows
      /\ row.role = "owner" /\ row.status = "active" /\ row.pw = NewPassword
  <2>1. users[id].epoch \in Nat
    BY <1>3, FieldsKept
  <2> DEFINE x == users[id].epoch
  <2>2. row = [role |-> "owner", status |-> "active", epoch |-> x, email |-> e,
               pw |-> NewPassword, verified |-> TRUE]
    <3>1. row = [NewUser("owner", e, NewPassword, TRUE) EXCEPT !.epoch = x]
      OBVIOUS
    <3> HIDE DEF x, row
    <3> QED BY <3>1 DEF NewUser
  <2> HIDE DEF x, row, NewPassword
  <2>3. x \in Nat
    BY <2>1 DEF x
  <2> QED BY <1>4, <2>2, <2>3 DEF UserRows
<1> HIDE DEF row
<1>6. /\ users' \in [Ids -> UserRows]
      /\ \A v \in Ids : users'[v] = IF v = id THEN row ELSE users[v]
  BY <1>1, <1>3, <1>4, <1>5
<1>7. \A v \in Ids \ {id} : users[v].status \in {"absent", "gone"} /\ users[v].role # "owner"
  BY <1>2, <1>3 DEF Unclaimed, placeholders, Absent
<1>8. OneOwner(users') /\ Seated(users') /\ ~Unclaimed(users')
  BY <1>3, <1>5, <1>6, <1>7 DEF OneOwner, Seated, Unclaimed
<1>9. TablesTyped'
  BY <1>1, <1>4, <1>6 DEF IInv, TablesTyped
<1>10. RequestsTyped'
  BY <1>1 DEF IInv, RequestsTyped, Busy
<1>11. SeatHeld'
  BY <1>1, <1>8 DEF IInv, SeatHeld, SeatRows
<1>12. SessionRows(users', sess')
  <2> SUFFICES ASSUME NEW s \in DOMAIN sess, sess[s].live
               PROVE  /\ users'[sess[s].user].status # "absent"
                      /\ IsAdmin(users'[sess[s].user].role) => sess[s].admin
    BY <1>1 DEF SessionRows
  <2> DEFINE u == sess[s].user
  <2>1. u \in Ids
    BY RowTypes DEF IInv, SessRows
  <2>2. users[u].status # "absent" /\ (IsAdmin(users[u].role) => sess[s].admin)
    BY DEF IInv, SessionRows
  <2> HIDE DEF u
  <2>3. CASE u = id
    BY <1>3, <1>5, <1>6, <2>1, <2>2, <2>3 DEF placeholders, Absent, u
  <2>4. CASE u # id
    BY <1>6, <2>1, <2>2, <2>4 DEF u
  <2> QED BY <2>3, <2>4
<1>13. CredentialRows(users', idents')
  BY <1>4, <1>5, <1>6, <1>7 DEF CredentialRows
<1>14. LinksDated'
  <2>1. \A p \in Slots : ~Busy(p, "link")
    BY <1>2 DEF IInv, SeatHeld, Busy
  <2>2. \A i \in DOMAIN states : states[i].purpose # "link"
    BY <1>2 DEF IInv, SeatHeld
  <2> QED BY <1>1, <2>1, <2>2 DEF LinksDated, Busy
<1>15. IdentityPaid'
  BY <1>1 DEF IInv, IdentityPaid
<1>16. \A v \in Ids : Active(v)' <=> v = id
  BY <1>5, <1>6, <1>7 DEF Active
<1>17. Actives' = {id}
  BY <1>3, <1>16 DEF Actives
<1> QED BY <1>2, <1>3, <1>5, <1>6, <1>8, <1>9, <1>10, <1>11, <1>12, <1>13, <1>14, <1>15, <1>17
        DEF IInv

-------------------------------------------------------------------------------
(***************************************************************************)
(* The invariant, and what a step does to the seat.                        *)
(***************************************************************************)

\* The three things that can happen to the owner's seat.
SeatMoves ==
    \/ SeatSteady
    \/ Unclaimed(users) /\ \E id \in Ids : users'[id].role = "owner" /\ Actives' = {id}
    \/ \E from, to \in Ids : HandedOver(from, to)

\* The invariant holds of the first tables.
LEMMA InitIInv ==
    ASSUME Init
    PROVE  IInv
<1>1. PICK sc \in Scenarios :
         /\ scen = [ops |-> sc.ops, rows |-> sc.rows]
         /\ users = sc.users /\ sess = sc.sess /\ idents = sc.idents
  BY DEF Init
<1>2. /\ invites = <<>> /\ states = <<>> /\ convs = <<>> /\ changes = <<>> /\ tokens = <<>>
      /\ pws = MaxIds
      /\ req = [p \in Slots |-> Idle]
      /\ grants = {}
  BY DEF Init
<1>3. /\ users \in [Ids -> UserRows] /\ sess \in Seq(SessRows) /\ idents \subseteq IdentRows
      /\ sc.rows \in Nat /\ SeatRows(users) /\ SessionRows(users, sess)
      /\ CredentialRows(users, idents) /\ MaxIds \in Nat
      /\ Provision /\ "google" \in sc.ops => Seated(users)
  BY <1>1, AccountsAssumption
<1>4. scen.rows = sc.rows /\ scen.ops = sc.ops
  BY <1>1
<1>5. /\ invites \in Seq(InviteRows) /\ states \in Seq(StateRows) /\ convs \in Seq(ConvRows)
      /\ changes \in Seq(ChangeRows) /\ tokens \in Seq(TokenRows)
  BY <1>2
<1>6. DOMAIN states = {}
  BY <1>2
<1>7. TablesTyped
  BY <1>2, <1>3, <1>4, <1>5 DEF TablesTyped
<1>8. Idle \in ReqRows
  BY DEF ReqRows
<1>9. \A p \in Slots : req[p] = Idle
  BY <1>2
<1>10. RequestsTyped
  BY <1>2, <1>6, <1>8, <1>9 DEF RequestsTyped, Busy, Idle
<1>11. SeatHeld
  <2>1. Unclaimed(users) => ~(Provision /\ "google" \in scen.ops)
    BY <1>3, <1>4, SeatedOrUnclaimed
  <2> QED BY <1>2, <1>3, <1>6, <1>9, <2>1 DEF SeatHeld, Idle
<1>12. LinksDated
  BY <1>6, <1>9 DEF LinksDated, Busy, Idle
<1>13. IdentityPaid
  BY <1>2 DEF IdentityPaid
<1> QED BY <1>3, <1>7, <1>10, <1>11, <1>12, <1>13 DEF IInv

\* Every handler keeps the invariant, and moves the seat as it may.
LEMMA NextIInv ==
    ASSUME IInv, [Next]_vars
    PROVE  IInv' /\ SeatMoves
<1> USE DEF SeatMoves
<1>0. Emails \subseteq Addresses /\ "none" \in Addresses
  BY DEF Emails, Addresses
<1>1. ASSUME users' = users
      PROVE  SeatMoves
  BY <1>1 DEF SeatSteady
<1>2. CASE UNCHANGED vars
  <2>1. TablesTyped' /\ RequestsTyped' /\ LinksDated' /\ IdentityPaid'
    BY <1>2 DEF vars, IInv, TablesTyped, RequestsTyped, LinksDated, IdentityPaid, Dated, Busy
  <2>2. SeatHeld' /\ SessionRows(users, sess)' /\ CredentialRows(users, idents)'
    BY <1>2 DEF vars, IInv, SeatHeld, SeatRows, OneOwner, Seated, Unclaimed, SessionRows,
                CredentialRows
  <2>3. users' = users
    BY <1>2 DEF vars
  <2> QED BY <1>1, <2>1, <2>2, <2>3 DEF IInv
<1>3. ASSUME NEW e \in Emails, Bootstrap(e)
      PROVE  IInv' /\ SeatMoves
  <2>1. e \in Addresses
    BY <1>0
  <2> QED BY <1>3, <2>1, BootstrapStep
<1>4. ASSUME NEW p \in Slots, NEW u \in Ids, LoginProof(p, u)
      PROVE  IInv' /\ SeatMoves
  <2>1. users' = users
    BY <1>4 DEF LoginProof, tables
  <2> QED BY <1>1, <1>4, <2>1, LoginProofStep
<1>5. ASSUME NEW p \in Slots, NEW s \in Sessions, Administer(p, s)
      PROVE  IInv' /\ SeatMoves
  <2>1. users' = users
    BY <1>5 DEF Administer, AdminUpdateUser, AdminDeleteUser, AdminTransferOwnership,
                RevokeUserSessions, tables
  <2> QED BY <1>1, <1>5, <2>1, AdministerStep
<1>6. ASSUME NEW p \in Slots,
             \/ IssueSession(p) \/ RevokeAllForUser(p) \/ CreateOAuthLinkState(p)
             \/ RequestEmailChange(p)
      PROVE  IInv' /\ SeatMoves
  <2>1. users' = users
    BY <1>6 DEF IssueSession, RevokeAllForUser, CreateOAuthLinkState, RequestEmailChange
  <2> QED BY <1>1, <1>6, <2>1, IssueSessionStep, RevokeAllForUserStep, CreateOAuthLinkStateStep,
             RequestEmailChangeStep
<1>7. ASSUME NEW p \in Slots,
             \/ UpdateUser(p) \/ DeleteUser(p) \/ ConvertToProvider(p)
             \/ UnlinkIdentity(p) \/ SetPassword(p)
      PROVE  IInv' /\ SeatMoves
  BY <1>7, UpdateUserStep, DeleteUserStep, ConvertToProviderStep, UnlinkIdentityStep,
     SetPasswordStep
<1>8. ASSUME NEW p \in Slots, TransferOwnership(p)
      PROVE  IInv' /\ SeatMoves
  <2>1. IInv' /\ (users' = users \/ HandedOver(req[p].from, req[p].target))
    BY <1>8, TransferOwnershipStep
  <2>2. HandedOver(req[p].from, req[p].target) => req[p].from \in Ids /\ req[p].target \in Ids
    BY DEF HandedOver
  <2> QED BY <1>1, <2>1, <2>2
<1>9. ASSUME NEW p \in Slots, NEW g \in Google,
             LinkIdentity(p, g) \/ UserByIdentity(p, g) \/ OfferConversion(p, g)
      PROVE  IInv' /\ SeatMoves
  <2>1. users' = users
    BY <1>9 DEF LinkIdentity, UserByIdentity, OfferConversion, tables
  <2> QED BY <1>1, <1>9, <2>1, LinkIdentityStep, UserByIdentityStep, OfferConversionStep
<1>10. ASSUME NEW p \in Slots, NEW g \in Google,
              AcceptInviteWithIdentity(p, g) \/ ProvisionOAuthUser(p, g)
       PROVE  IInv' /\ SeatMoves
  BY <1>10, AcceptInviteWithIdentityStep, ProvisionOAuthUserStep
<1>11. ASSUME NEW s \in Sessions, NEW r \in {"admin", "editor"}, NEW e \in Emails,
              CreateUser(s, r, e) \/ CreateInvite(s, r, e)
       PROVE  IInv' /\ SeatMoves
  <2>1. e \in Addresses
    BY <1>0
  <2>2. CASE CreateUser(s, r, e)
    BY <2>1, <2>2, CreateUserStep
  <2>3. CASE CreateInvite(s, r, e)
    <3>1. users' = users
      BY <2>3 DEF CreateInvite, InviteRow
    <3> QED BY <1>1, <2>1, <2>3, <3>1, CreateInviteStep
  <2> QED BY <1>11, <2>2, <2>3
<1>12. ASSUME NEW s \in Sessions, NEW i \in DOMAIN invites, RevokeInvite(s, i)
       PROVE  IInv' /\ SeatMoves
  <2>1. users' = users
    BY <1>12 DEF RevokeInvite
  <2> QED BY <1>1, <1>12, <2>1, RevokeInviteStep
<1>13. ASSUME NEW p \in Slots, NEW i \in DOMAIN invites, AcceptInvite(p, i)
       PROVE  IInv' /\ SeatMoves
  BY <1>13, AcceptInviteStep
<1>14. ASSUME "google" \in scen.ops, OAuthStart \/ \E i \in DOMAIN invites : OAuthInviteStart(i)
       PROVE  IInv' /\ SeatMoves
  <2>1. users' = users
    BY <1>14 DEF OAuthStart, OAuthInviteStart
  <2> QED BY <1>1, <1>14, <2>1, OAuthStartSteps
<1>15. ASSUME NEW p \in Slots, NEW s \in Sessions,
              \/ OAuthLinkStart(p, s)
              \/ BeginFromSession(p, s, "unlink") \/ BeginFromSession(p, s, "set")
       PROVE  IInv' /\ SeatMoves
  <2>1. users' = users
    BY <1>15 DEF OAuthLinkStart, VerifyUserPasswordEpoch, BeginFromSession, tables
  <2>2. OAuthLinkStart(p, s) => IInv'
    BY <1>0, VerifyUserPasswordEpochStep DEF OAuthLinkStart
  <2> QED BY <1>1, <1>15, <2>1, <2>2, BeginFromSessionStep
<1>16. ASSUME NEW p \in Slots, NEW i \in DOMAIN states, NEW s \in Sessions \union {0},
              ConsumeOAuthState(p, i, s)
       PROVE  IInv' /\ SeatMoves
  <2>1. users' = users
    BY <1>16 DEF ConsumeOAuthState
  <2> QED BY <1>1, <1>16, <2>1, ConsumeOAuthStateStep DEF Sessions
<1>17. ASSUME NEW p \in Slots, NEW c \in DOMAIN convs, OAuthConvert(p, c)
       PROVE  IInv' /\ SeatMoves
  <2>1. users' = users
    BY <1>17 DEF OAuthConvert, tables
  <2> QED BY <1>1, <1>17, <2>1, OAuthConvertStep
<1>18. ASSUME NEW s \in Sessions,
              \/ ChangePassword(s) \/ CreateAPIToken(s) \/ CancelEmailChange(s)
              \/ \E t \in DOMAIN tokens : RevokeAPIToken(s, t)
       PROVE  IInv' /\ SeatMoves
  <2>1. CASE ChangePassword(s)
    BY <2>1, ChangePasswordStep
  <2>2. CASE CreateAPIToken(s) \/ \E t \in DOMAIN tokens : RevokeAPIToken(s, t)
    <3>1. users' = users
      BY <2>2 DEF CreateAPIToken, RevokeAPIToken
    <3> QED BY <1>1, <2>2, <3>1, TokenSteps
  <2>3. CASE CancelEmailChange(s)
    <3>1. users' = users
      BY <2>3 DEF CancelEmailChange
    <3> QED BY <1>1, <2>3, <3>1, CancelEmailChangeStep
  <2> QED BY <1>18, <2>1, <2>2, <2>3
<1>19. ASSUME NEW p \in Slots, NEW s \in Sessions, NEW e \in Emails, AskEmailChange(p, s, e)
       PROVE  IInv' /\ SeatMoves
  <2>1. users' = users
    BY <1>19 DEF AskEmailChange, VerifyUserPasswordEpoch, tables
  <2>2. IInv'
    BY <1>0, <1>19, VerifyUserPasswordEpochStep DEF AskEmailChange
  <2> QED BY <1>1, <2>1, <2>2
<1>20. ASSUME NEW c \in DOMAIN changes, ConfirmEmailChange(c)
       PROVE  IInv' /\ SeatMoves
  BY <1>20, ConfirmEmailChangeStep
<1>21. CASE Expire
  <2>1. users' = users
    BY <1>21 DEF Expire
  <2> QED BY <1>1, <1>21, <2>1, ExpireStep
<1> QED BY <1>2, <1>3, <1>4, <1>5, <1>6, <1>7, <1>8, <1>9, <1>10, <1>11, <1>12, <1>13, <1>14,
           <1>15, <1>16, <1>17, <1>18, <1>19, <1>20, <1>21 DEF Next

\* The invariant holds of every state of every instance.
THEOREM Invariance == Spec => []IInv
<1>1. Init => IInv
  BY InitIInv
<1>2. IInv /\ [Next]_vars => IInv'
  BY NextIInv
<1> QED BY <1>1, <1>2, PTL DEF Spec

\* No session acts as an administrator that was opened before its account became one
\* (UpdateUser, TransferOwnership, IssueSession, RevokeAllForUser).
THEOREM PrivilegeTheorem == Spec => []PrivilegeIsFresh
<1>1. IInv => PrivilegeIsFresh
  BY DEF IInv, SessionRows, PrivilegeIsFresh, Resolve
<1> QED BY <1>1, Invariance, PTL

\* Every active account can sign in, and identities are attached only on a proof of the
\* password the account has (ConvertToProvider, UnlinkIdentity, SetPassword, LinkIdentity).
THEOREM CredentialsTheorem == Spec => []CredentialsSound
<1>1. IInv => CredentialKept
  BY DEF IInv, CredentialRows, CredentialKept, Actives, Active, HasIdentity
<1>2. IInv => CredentialsSound
  BY <1>1 DEF IInv, CredentialsSound
<1> QED BY <1>2, Invariance, PTL

-------------------------------------------------------------------------------
(***************************************************************************)
(* The owner's seat.                                                       *)
(***************************************************************************)

\* The seat's holder is the one active owner; before setup there is none.
SeatFacts ==
    /\ \/ Seated(users)
       \/ Unclaimed(users) /\ Actives = {} /\ SeatHolder = 0
    /\ Seated(users) =>
          /\ SeatHolder \in Actives /\ users[SeatHolder].role = "owner"
          /\ \A u \in Actives : users[u].role = "owner" => u = SeatHolder
    /\ Actives \subseteq Ids
    /\ 0 \notin Ids

\* What the invariant says of the seat.
LEMMA SeatOf == IInv => SeatFacts
<1> SUFFICES ASSUME IInv
             PROVE  SeatFacts
  OBVIOUS
<1>1. OneOwner(users) /\ (Seated(users) \/ Unclaimed(users))
  BY DEF IInv, SeatHeld, SeatRows
<1>2. Actives \subseteq Ids /\ 0 \notin Ids
  BY DEF Actives, Ids
<1>3. CASE Seated(users)
  <2>1. PICK u \in Actives : users[u].role = "owner"
    BY <1>3 DEF Seated, Actives, Active
  <2>2. SeatHolder = CHOOSE v \in Actives : users[v].role = "owner"
    BY <2>1 DEF SeatHolder
  <2>3. SeatHolder \in Actives /\ users[SeatHolder].role = "owner"
    BY <2>1, <2>2
  <2>4. \A v \in Actives : users[v].role = "owner" => v = SeatHolder
    BY <1>1, <1>2, <2>3 DEF OneOwner
  <2> QED BY <1>2, <1>3, <2>3, <2>4, SeatedOrUnclaimed DEF SeatFacts
<1>4. CASE Unclaimed(users)
  <2>1. Actives = {}
    BY <1>4 DEF Unclaimed, Actives, Active
  <2>2. SeatHolder = 0
    BY <2>1 DEF SeatHolder
  <2> QED BY <1>2, <1>4, <2>1, <2>2, SeatedOrUnclaimed DEF SeatFacts
<1> QED BY <1>1, <1>3, <1>4

\* Every step of the accounts is a step of the seat, or none.
LEMMA SeatStep ==
    ASSUME IInv, SeatFacts, SeatFacts', SeatMoves
    PROVE  [Seat!Next]_<<SeatHolder, Actives>>
<1> USE DEF SeatFacts
<1>1. CASE SeatSteady
  <2>1. CASE users' = users
    <3>1. Actives' = Actives
      BY <2>1 DEF Actives, Active
    <3>2. SeatHolder' = SeatHolder
      BY <2>1, <3>1 DEF SeatHolder
    <3> QED BY <3>1, <3>2
  <2>2. CASE /\ Seated(users)
             /\ \A v \in Ids : users[v].role = "owner" /\ users[v].status = "active" =>
                                 users'[v].role = "owner" /\ users'[v].status = "active"
    <3> DEFINE h == SeatHolder
    <3>1. h \in Ids /\ users[h].role = "owner" /\ users[h].status = "active"
      BY <2>2 DEF Actives, Active
    <3> HIDE DEF h
    <3>2. users'[h].role = "owner" /\ users'[h].status = "active"
      BY <2>2, <3>1
    <3>3. h \in Actives'
      BY <3>1, <3>2 DEF Actives, Active
    <3>4. SeatHolder' = h
      BY <3>2, <3>3
    <3>5. Actives' \in SUBSET Ids /\ h # 0
      BY <3>1
    <3> QED BY <3>3, <3>4, <3>5 DEF h, Seat!Next, Seat!Membership
  <2> QED BY <1>1, <2>1, <2>2 DEF SeatSteady
<1>2. CASE Unclaimed(users) /\ \E id \in Ids : users'[id].role = "owner" /\ Actives' = {id}
  <2>1. PICK id \in Ids : users'[id].role = "owner" /\ Actives' = {id}
    BY <1>2
  <2>2. SeatHolder = 0
    BY <1>2, SeatedOrUnclaimed
  <2>3. SeatHolder' = id
    BY <2>1
  <2> QED BY <2>1, <2>2, <2>3 DEF Seat!Next, Seat!Claim
<1>3. ASSUME NEW from \in Ids, NEW to \in Ids, HandedOver(from, to)
      PROVE  [Seat!Next]_<<SeatHolder, Actives>>
  <2>1. Actives' = Actives
    BY <1>3 DEF HandedOver, Actives, Active
  <2>2. to \in Actives
    BY <1>3 DEF HandedOver, Actives, Active
  <2>3. SeatHolder' = to
    BY <1>3, <2>1, <2>2 DEF HandedOver
  <2>4. Seated(users)
    BY <2>2
  <2>5. SeatHolder # to
    <3>1. SeatHolder \in Ids /\ users[SeatHolder].role = "owner"
      BY <2>4
    <3>2. CASE users[to].role = "owner"
      <4>1. from = to
        BY <1>3, <3>2 DEF HandedOver, IInv, SeatHeld, SeatRows, OneOwner
      <4> QED BY <1>3, <4>1 DEF HandedOver
    <3> QED BY <3>1, <3>2
  <2> QED BY <2>1, <2>2, <2>3, <2>5 DEF Seat!Next, Seat!HandOver
<1> QED BY <1>1, <1>2, <1>3 DEF SeatMoves

\* The owner's seat behaves as OwnerSeat promises: empty only before setup, then always held
\* by exactly one active account, and handed only to an active one (Bootstrap, UpdateUser,
\* DeleteUser, TransferOwnership).
THEOREM SeatTheorem == Spec => SeatSpec
<1>1. Init => IInv
  BY InitIInv
<1>2. IInv => Seat!Init
  <2> SUFFICES ASSUME IInv
               PROVE  Seat!Init
    OBVIOUS
  <2>1. SeatFacts
    BY SeatOf
  <2> QED BY <2>1 DEF SeatFacts, Seat!Init, Seated, Actives, Active
<1>3. IInv /\ SeatFacts /\ SeatFacts' /\ SeatMoves => [Seat!Next]_<<SeatHolder, Actives>>
  BY SeatStep
<1>4. IInv /\ [Next]_vars => IInv' /\ SeatMoves
  BY NextIInv
<1>5. IInv => SeatFacts
  BY SeatOf
<1> QED BY <1>1, <1>2, <1>3, <1>4, <1>5, PTL DEF Spec, SeatSpec, Seat!Spec

===============================================================================

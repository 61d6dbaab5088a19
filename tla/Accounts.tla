------------------------------- MODULE Accounts -------------------------------
(***************************************************************************)
(* The accounts of an instance: who owns and administers it, how accounts  *)
(* come to be (setup, an administrator, an invitation, Google), how a      *)
(* credential is attached to or taken from one, and how its address moves. *)
(* The tables app_user, session, invite, oauth_state, user_identity,       *)
(* email_change, api_token and the convert_google rows of auth_challenge.  *)
(*                                                                         *)
(* A handler reads (the principal, a password, a redirect state) in one    *)
(* step and commits in a later one; in between its request holds a slot of *)
(* req, and anything may happen to what it read.  A commit is one          *)
(* transaction that locks the account row, so it is one step.              *)
(*                                                                         *)
(* Passwords are numbers, a new one for every password set; 0 is none.     *)
(* The second factor is AuthFactors' subject, token rotation AuthSessions'.*)
(* Rows expire by Expire; a viewer is an editor here.                      *)
(***************************************************************************)
EXTENDS Integers, Sequences, FiniteSets

CONSTANTS
    Slots,      \* requests that can be in flight together
    MaxIds,     \* account ids 1 .. MaxIds
    Google,     \* the provider's accounts: [subject, email, verified]
    Scenarios,  \* [ops, rows, users, sess, idents]: what is exercised and how long, and the
                \* rows at the start
    Provision   \* the instance policy provisions unknown verified addresses

Ids == 1 .. MaxIds

IsAdmin(r) == r \in {"owner", "admin"}

\* The rows of app_user, session and user_identity.
Addresses == {"none"} \cup {g.email : g \in Google}
                 \cup {s.users[u].email : s \in Scenarios, u \in Ids}
Subjects  == {g.subject : g \in Google}
UserRows  == [role : {"owner", "admin", "editor"},
              status : {"absent", "pending", "active", "disabled", "gone"},
              epoch : Nat, email : Addresses, pw : Nat, verified : BOOLEAN]
SessRows  == [user : Ids, live : BOOLEAN, admin : BOOLEAN]
IdentRows == [user : Ids, subject : Subjects]

\* What is true of the tables us, ss and is of any instance.  The index app_user_single_owner_uniq;
\* an owner from setup on, and before it nobody but the administrator that the migration left to claim.
OneOwner(us) == \A u, v \in Ids : us[u].role = "owner" /\ us[v].role = "owner" => u = v
Seated(us) ==
    /\ \E u \in Ids : us[u].role = "owner" /\ us[u].status = "active"
    /\ \A u \in Ids : us[u].status # "pending"
Unclaimed(us) ==
    /\ \A u \in Ids : /\ us[u].status \in {"absent", "pending", "gone"}
                      /\ us[u].role = "owner" => us[u].status = "pending"
                      /\ us[u].status = "pending" => IsAdmin(us[u].role)
    /\ \A u, v \in Ids : us[u].status = "pending" /\ us[v].status = "pending" => u = v
SeatRows(us) == OneOwner(us) /\ (Seated(us) \/ Unclaimed(us))

\* A session is of an account there was, and old ones of an administrator's are an administrator's.
SessionRows(us, ss) ==
    \A s \in DOMAIN ss :
        ss[s].live => /\ us[ss[s].user].status # "absent"
                      /\ IsAdmin(us[ss[s].user].role) => ss[s].admin

\* What the constraint triggers of app_user and user_identity demand of active accounts; a
\* disabled one was active before, and nobody takes a credential from it.
CredentialRows(us, is) ==
    \A u \in Ids : us[u].status \in {"active", "disabled"} =>
                      us[u].pw # 0 \/ \E i \in is : i.user = u

\* Every instance starts with such tables, and its policy provisions nobody before an
\* administrator has set it to.
ASSUME AccountsAssumption ==
    /\ MaxIds \in Nat \ {0}
    /\ Provision \in BOOLEAN
    /\ \A g \in Google : g.verified \in BOOLEAN
    /\ \A s \in Scenarios :
          /\ s.users \in [Ids -> UserRows] /\ s.sess \in Seq(SessRows)
          /\ s.idents \subseteq IdentRows /\ s.rows \in Nat
          /\ SeatRows(s.users) /\ SessionRows(s.users, s.sess)
          /\ CredentialRows(s.users, s.idents)
          /\ Provision /\ "google" \in s.ops => Seated(s.users)

VARIABLES
    scen,     \* the operations of the scenario, and how many rows a table may get
    users,    \* app_user by id
    sess,     \* session
    invites,  \* invite
    idents,   \* user_identity
    states,   \* oauth_state
    convs,    \* auth_challenge with purpose convert_google
    changes,  \* email_change
    tokens,   \* api_token
    pws,      \* passwords ever chosen
    req,      \* the requests in flight
    grants    \* history: credentials and addresses attached, with the proof that paid

vars == <<scen, users, sess, invites, idents, states, convs, changes, tokens, pws, req, grants>>
tables == <<users, sess, invites, idents, states, convs, changes, tokens, pws>>

\* Bound on the rows of each table ever inserted, and on epochs.
MaxRows == scen.rows

Idle    == [op |-> "idle"]
Free(p) == req[p] = Idle
Busy(p, op) == req[p].op = op
\* The scenario's operations never change.
Continue(p, r) == req' = [req EXCEPT ![p] = r] /\ UNCHANGED scen
Finish(p)      == Continue(p, Idle)

Absent(u)  == users[u].status = "absent"
Active(u)  == users[u].status = "active"
Actives    == {u \in Ids : Active(u)}
Owners     == {u \in Ids : users[u].role = "owner" /\ ~Absent(u) /\ users[u].status # "gone"}
Taken(e)   == \E u \in Ids : users[u].email = e
HasIdentity(u) == \E i \in idents : i.user = u

\* ResolveAccess: the principal behind an access cookie.
Resolve(s) == /\ s \in DOMAIN sess
              /\ sess[s].live
              /\ Active(sess[s].user)
Caller(s)     == sess[s].user
AdminCaller(s) == Resolve(s) /\ IsAdmin(users[Caller(s)].role)

\* requireLiveSessionTx under the account lock, with the epoch the caller read.
SessionProven(u, s, ver) == Active(u) /\ users[u].epoch = ver /\ sess[s].live

RevokeSessions(set, keep) ==
    [s \in DOMAIN sess |-> IF sess[s].user \in set /\ s # keep
                           THEN [sess[s] EXCEPT !.live = FALSE] ELSE sess[s]]

\* A new row takes the next id; ids are never used again.
NextId == IF \E u \in Ids : Absent(u)
          THEN CHOOSE u \in Ids : Absent(u) /\ \A v \in Ids : Absent(v) => u <= v
          ELSE 0
NewUser(role, email, pw, verified) ==
    [role |-> role, status |-> "active", epoch |-> 0, email |-> email, pw |-> pw,
     verified |-> verified]

NewPassword == pws + 1

-------------------------------------------------------------------------------
(***************************************************************************)
(* Setup.                                                                  *)
(***************************************************************************)

NeedsBootstrap == Actives = {}

placeholders == {u \in Ids : users[u].status = "pending" /\ IsAdmin(users[u].role)}

\* Bootstrap, under its advisory lock: claim the oldest pending administrator, or insert.
Bootstrap(e) ==
    LET id == IF placeholders # {} THEN CHOOSE u \in placeholders : \A v \in placeholders : u <= v
              ELSE NextId
    IN /\ NeedsBootstrap
       /\ id # 0
       /\ \A u \in Ids \ {id} : users[u].email # e
       /\ Owners \subseteq {id}
       /\ users' = [users EXCEPT ![id] = [NewUser("owner", e, NewPassword, TRUE)
                                          EXCEPT !.epoch = users[id].epoch]]
       /\ pws' = NewPassword
       /\ UNCHANGED <<sess, invites, idents, states, convs, changes, tokens, scen, req, grants>>

-------------------------------------------------------------------------------
(***************************************************************************)
(* Signing in: the proof is read in one step, the session issued later.    *)
(***************************************************************************)

\* A password is verified, or a known identity resolved; without a second factor
\* the handler goes on to IssueSession with the epoch it read.
LoginProof(p, u) ==
    /\ Free(p) /\ Active(u) /\ users[u].pw # 0
    /\ Continue(p, [op |-> "issue", user |-> u, ver |-> users[u].epoch])
    /\ UNCHANGED <<tables, grants>>

IssueSession(p) ==
    LET r == req[p]
    IN /\ Busy(p, "issue")
       /\ Len(sess) < MaxRows
       /\ sess' = IF Active(r.user) /\ users[r.user].epoch = r.ver
                  THEN Append(sess, [user |-> r.user, live |-> TRUE,
                                     admin |-> IsAdmin(users[r.user].role)])
                  ELSE sess
       /\ Finish(p)
       /\ UNCHANGED <<users, invites, idents, states, convs, changes, tokens, pws, grants>>

-------------------------------------------------------------------------------
(***************************************************************************)
(* Administration: the principal is resolved first, the edit commits later *)
(* under the advisory lock adminGuardLockKey.                              *)
(***************************************************************************)

Edits == [role : {"keep", "admin", "editor"}, status : {"keep", "active", "disabled"}]

\* A way to get the rule below wrong: to protect the role only.
ownerKeepsRole(t, e) == users[t].role = "owner" /\ e.role # "keep"

\* No ordinary edit reaches the owner, read under the lock.
ownerIsImmutable(t, e) == users[t].role = "owner" /\ (e.role # "keep" \/ e.status # "keep")
isDemoteOrDisable(e) == e.role = "editor" \/ e.status = "disabled"

\* A way to get the rule below wrong: a disabled account is thought to have no session.
isActivePromotion(t, e) == Active(t) /\ ~IsAdmin(users[t].role) /\ IsAdmin(e.role)

isAdminPromotion(t, e) == ~IsAdmin(users[t].role) /\ IsAdmin(e.role)

\* guardLastAdminTx: an active administrator may go only if another remains.
guardLastAdmin(t) ==
    Active(t) /\ IsAdmin(users[t].role)
        => Cardinality({u \in Actives : IsAdmin(users[u].role)}) > 1

applyUserUpdate(t, e) ==
    [users EXCEPT ![t].role   = IF e.role = "keep" THEN @ ELSE e.role,
                  ![t].status = IF e.status = "keep" THEN @ ELSE e.status,
                  ![t].epoch  = @ + 1]

AdminUpdateUser(p, s, t, e) ==
    /\ Free(p) /\ AdminCaller(s)
    /\ e.role # "keep" \/ e.status # "keep"
    /\ t = Caller(s) => ~isDemoteOrDisable(e)
    /\ Continue(p, [op |-> "update", target |-> t, edit |-> e])
    /\ UNCHANGED <<tables, grants>>

\* UpdateUser.  A promotion ends the target's sessions in the same transaction; a
\* disabled account's sessions are ended by a call of its own, RevokeAllForUser.
UpdateUser(p) ==
    LET t == req[p].target
        e == req[p].edit
        ok == /\ users[t].status \notin {"absent", "gone"}
              /\ ~ownerIsImmutable(t, e)
              /\ isDemoteOrDisable(e) => guardLastAdmin(t)
    IN /\ Busy(p, "update")
       /\ users[t].epoch < MaxRows
       /\ IF ok
          THEN /\ users' = applyUserUpdate(t, e)
               /\ sess' = IF isAdminPromotion(t, e) THEN RevokeSessions({t}, 0) ELSE sess
          ELSE UNCHANGED <<users, sess>>
       /\ IF ok /\ e.status = "disabled"
          THEN Continue(p, [op |-> "revoke", target |-> t])
          ELSE Finish(p)
       /\ UNCHANGED <<invites, idents, states, convs, changes, tokens, pws, grants>>

\* A call of its own, which may fail after the edit has committed.
RevokeAllForUser(p) ==
    /\ Busy(p, "revoke")
    /\ sess' \in {sess, RevokeSessions({req[p].target}, 0)}
    /\ Finish(p)
    /\ UNCHANGED <<users, invites, idents, states, convs, changes, tokens, pws, grants>>

RevokeUserSessions(p, s, t) ==
    /\ Free(p) /\ AdminCaller(s)
    /\ Continue(p, [op |-> "revoke", target |-> t])
    /\ UNCHANGED <<tables, grants>>

AdminDeleteUser(p, s, t) ==
    /\ Free(p) /\ AdminCaller(s)
    /\ t # Caller(s)
    /\ Continue(p, [op |-> "delete", target |-> t])
    /\ UNCHANGED <<tables, grants>>

\* The foreign keys cascade: nothing of the account is left.
Cascade(t) ==
    /\ users'   = [users EXCEPT ![t] = [@ EXCEPT !.status = "gone", !.email = "none"]]
    /\ sess'    = RevokeSessions({t}, 0)
    /\ idents'  = {i \in idents : i.user # t}
    /\ states'  = [i \in DOMAIN states |-> IF states[i].user = t
                                           THEN [states[i] EXCEPT !.open = FALSE] ELSE states[i]]
    /\ convs'   = [i \in DOMAIN convs |-> IF convs[i].user = t
                                          THEN [convs[i] EXCEPT !.open = FALSE] ELSE convs[i]]
    /\ changes' = [i \in DOMAIN changes |-> IF changes[i].user = t
                                            THEN [changes[i] EXCEPT !.open = FALSE] ELSE changes[i]]
    /\ tokens'  = [i \in DOMAIN tokens |-> IF tokens[i].user = t
                                           THEN [tokens[i] EXCEPT !.live = FALSE] ELSE tokens[i]]

DeleteUser(p) ==
    LET t == req[p].target
    IN /\ Busy(p, "delete")
       /\ IF /\ users[t].status \notin {"absent", "gone"}
             /\ users[t].role # "owner"
             /\ guardLastAdmin(t)
          THEN Cascade(t)
          ELSE UNCHANGED <<users, sess, idents, states, convs, changes, tokens>>
       /\ Finish(p)
       /\ UNCHANGED <<invites, pws, grants>>

\* The outgoing owner is the caller: the gate admits the owner alone.
AdminTransferOwnership(p, s, t) ==
    /\ Free(p) /\ Resolve(s)
    /\ users[Caller(s)].role = "owner"
    /\ t # Caller(s)
    /\ Continue(p, [op |-> "transfer", from |-> Caller(s), target |-> t])
    /\ UNCHANGED <<tables, grants>>

\* Decided under the lock: the caller may have handed the seat on meanwhile.
Transferable(from, to) == users[from].role = "owner" /\ Active(to)

\* One statement swaps the roles, and both accounts lose their sessions.
TransferOwnership(p) ==
    LET from == req[p].from
        to   == req[p].target
    IN /\ Busy(p, "transfer")
       /\ {users[from].epoch, users[to].epoch} \subseteq 0 .. MaxRows - 1
       /\ IF Transferable(from, to)
          THEN /\ users' = [users EXCEPT ![from].role = "admin", ![to].role = "owner",
                                         ![from].epoch = @ + 1, ![to].epoch = @ + 1]
               /\ sess' = RevokeSessions({from, to}, 0)
          ELSE UNCHANGED <<users, sess>>
       /\ Finish(p)
       /\ UNCHANGED <<invites, idents, states, convs, changes, tokens, pws, grants>>

\* AdminCreateUser: the password is chosen by the administrator, the address unverified.
AdminCreateUser(role, e) ==
    /\ NextId # 0 /\ ~Taken(e)
    /\ users' = [users EXCEPT ![NextId] = NewUser(role, e, NewPassword, FALSE)]
    /\ pws' = NewPassword
    /\ UNCHANGED <<sess, invites, idents, states, convs, changes, tokens, scen, req, grants>>

\* The handler's gate in front of it.
CreateUser(s, role, e) == AdminCaller(s) /\ AdminCreateUser(role, e)

-------------------------------------------------------------------------------
(***************************************************************************)
(* Invitations.                                                            *)
(***************************************************************************)

InviteOpen(i) == i \in DOMAIN invites /\ invites[i].state = "open"

\* A new invitation closes the open one of the address, expired or not.
Supersede(e) == [i \in DOMAIN invites |->
                   IF invites[i].email = e /\ invites[i].state \in {"open", "expired"}
                   THEN [invites[i] EXCEPT !.state = "revoked"] ELSE invites[i]]

\* CreateInvite of the repository, serialized per address by an advisory lock the other ways to
\* create an account do not take.
InviteRow(role, e) ==
    /\ ~Taken(e) /\ Len(invites) < MaxRows
    /\ invites' = Append(Supersede(e), [email |-> e, role |-> role, state |-> "open", user |-> 0])
    /\ UNCHANGED <<users, sess, idents, states, convs, changes, tokens, pws, scen, req, grants>>

\* The handler mails the link; the mail is queued in the same transaction (MailOutbox).
CreateInvite(s, role, e) == AdminCaller(s) /\ InviteRow(role, e)

RevokeInvite(s, i) ==
    /\ AdminCaller(s)
    /\ i \in DOMAIN invites /\ invites[i].state \in {"open", "expired"}
    /\ invites' = [invites EXCEPT ![i].state = "revoked"]
    /\ UNCHANGED <<users, sess, idents, states, convs, changes, tokens, pws, scen, req, grants>>

\* insertAcceptedUserTx and the consumption of the invitation, one transaction:
\* the account it describes, or nothing when the address is taken meanwhile.
Accepted(i, pw) ==
    /\ users' = [users EXCEPT ![NextId] = NewUser(invites[i].role, invites[i].email, pw, TRUE)]
    /\ invites' = [invites EXCEPT ![i].state = "accepted", ![i].user = NextId]

\* AcceptInvite, with the token and a password.
AcceptInvite(p, i) ==
    /\ Free(p) /\ InviteOpen(i)
    /\ NextId # 0 /\ ~Taken(invites[i].email)
    /\ Accepted(i, NewPassword)
    /\ pws' = NewPassword
    /\ Continue(p, [op |-> "issue", user |-> NextId, ver |-> 0])
    /\ UNCHANGED <<sess, idents, states, convs, changes, tokens, grants>>

-------------------------------------------------------------------------------
(***************************************************************************)
(* The redirect to Google and back.  A state row is spent once; what the   *)
(* provider answers arrives a network round-trip later.                    *)
(***************************************************************************)

NewState(purpose, user, sid, ver, inv, pw) ==
    [purpose |-> purpose, user |-> user, sid |-> sid, ver |-> ver, inv |-> inv, pw |-> pw,
     open |-> TRUE]

\* CreateOAuthState for a login.
OAuthStart ==
    /\ Len(states) < MaxRows
    /\ states' = Append(states, NewState("login", 0, 0, 0, 0, 0))
    /\ UNCHANGED <<users, sess, invites, idents, convs, changes, tokens, pws, scen, req, grants>>

\* LookupInvite resolves the token; the state keeps the invitation's id.
OAuthInviteStart(i) ==
    /\ InviteOpen(i) /\ Len(states) < MaxRows
    /\ states' = Append(states, NewState("invite", 0, 0, 0, i, 0))
    /\ UNCHANGED <<users, sess, invites, idents, convs, changes, tokens, pws, scen, req, grants>>

\* VerifyUserPasswordEpoch: the password, with the epoch read beside its hash.
VerifyUserPasswordEpoch(p, s, op, e) ==
    LET u == Caller(s)
    IN /\ Free(p) /\ Resolve(s) /\ users[u].pw # 0
       /\ Continue(p, [op |-> op, user |-> u, sid |-> s, ver |-> users[u].epoch,
                       pw |-> users[u].pw, email |-> e])
       /\ UNCHANGED <<tables, grants>>

OAuthLinkStart(p, s) == VerifyUserPasswordEpoch(p, s, "link", "none")

\* The link state is stored only while session and epoch are the proven ones.
CreateOAuthLinkState(p) ==
    LET r == req[p]
    IN /\ Busy(p, "link") /\ Len(states) < MaxRows
       /\ states' = IF SessionProven(r.user, r.sid, r.ver)
                    THEN Append(states, NewState("link", r.user, r.sid, r.ver, 0, r.pw))
                    ELSE states
       /\ Finish(p)
       /\ UNCHANGED <<users, sess, invites, idents, convs, changes, tokens, pws, grants>>

\* A way to get the check below wrong: to leave the epoch to the start of the link.
LinkSessionLive(st, cookie) == cookie = st.sid /\ Active(st.user) /\ sess[st.sid].live

\* The state's session, presented by this browser, is live at the state's epoch.
LinkProven(st, cookie) == cookie = st.sid /\ SessionProven(st.user, st.sid, st.ver)

\* OAuthCallback consumes the state; a link is checked once before the exchange.
ConsumeOAuthState(p, i, cookie) ==
    /\ Free(p)
    /\ i \in DOMAIN states /\ states[i].open
    /\ states' = [states EXCEPT ![i].open = FALSE]
    /\ IF states[i].purpose = "link" /\ ~LinkProven(states[i], cookie)
       THEN UNCHANGED <<scen, req>>
       ELSE Continue(p, [op |-> "callback", st |-> i, cookie |-> cookie])
    /\ UNCHANGED <<users, sess, invites, idents, convs, changes, tokens, pws, grants>>

Callback(p, purpose) == Busy(p, "callback") /\ states[req[p].st].purpose = purpose

\* The unique indexes of user_identity: one account per subject, one subject per account.
IdentityFree(u, g) == \A i \in idents : i.subject # g.subject /\ i.user # u
Attach(u, g) == idents' = idents \union {[user |-> u, subject |-> g.subject]}
Paid(how, u, pw, email) ==
    grants' = grants \union {[how |-> how, user |-> u, paid |-> pw, pw |-> users[u].pw,
                              email |-> email, addr |-> users[u].email]}

\* oauthFinishLink and LinkIdentity: the proof is checked again under the locks.
LinkIdentity(p, g) ==
    LET st == states[req[p].st]
    IN /\ Callback(p, "link")
       /\ IF LinkProven(st, req[p].cookie) /\ IdentityFree(st.user, g)
          THEN Attach(st.user, g) /\ Paid("link", st.user, st.pw, g.email)
          ELSE UNCHANGED <<idents, grants>>
       /\ Finish(p)
       /\ UNCHANGED <<users, sess, invites, states, convs, changes, tokens, pws>>

\* oauthFinishInvite: the invitation must still be open, and be to this address.
AcceptInviteWithIdentity(p, g) ==
    LET i == states[req[p].st].inv
        ok == /\ g.verified /\ InviteOpen(i) /\ g.email = invites[i].email
              /\ ~Taken(g.email) /\ IdentityFree(0, g)
    IN /\ Callback(p, "invite")
       /\ ok => NextId # 0
       /\ IF ok
          THEN /\ Accepted(i, 0)
               /\ Attach(NextId, g)
               /\ Continue(p, [op |-> "issue", user |-> NextId, ver |-> 0])
          ELSE Finish(p) /\ UNCHANGED <<users, invites, idents>>
       /\ UNCHANGED <<sess, states, convs, changes, tokens, pws, grants>>

Known(g) == \E i \in idents : i.subject = g.subject
Holder(g) == (CHOOSE i \in idents : i.subject = g.subject).user

\* oauthFinishLogin for a linked subject.
UserByIdentity(p, g) ==
    /\ Callback(p, "login") /\ Known(g)
    /\ IF Active(Holder(g))
       THEN Continue(p, [op |-> "issue", user |-> Holder(g), ver |-> users[Holder(g)].epoch])
       ELSE Finish(p)
    /\ UNCHANGED <<tables, grants>>

oauthAutoProvision(g) == g.verified /\ Provision

\* An unknown subject with an unknown, verified address: a new account, if the policy
\* provisions; the account and its identity are one transaction.
ProvisionOAuthUser(p, g) ==
    LET ok == oauthAutoProvision(g)
    IN /\ Callback(p, "login") /\ ~Known(g) /\ ~Taken(g.email)
       /\ ok => NextId # 0
       /\ IF ok
          THEN /\ users' = [users EXCEPT ![NextId] = NewUser("editor", g.email, 0, TRUE)]
               /\ Attach(NextId, g)
               /\ Continue(p, [op |-> "issue", user |-> NextId, ver |-> 0])
          ELSE Finish(p) /\ UNCHANGED <<users, idents>>
       /\ UNCHANGED <<sess, invites, states, convs, changes, tokens, pws, grants>>

ByEmail(e) == CHOOSE u \in Ids : users[u].email = e

\* An unknown subject whose verified address is a password account's: a challenge for
\* that account's password, with the subject pinned to it.  Never a session.
OfferConversion(p, g) ==
    LET u == ByEmail(g.email)
    IN /\ Callback(p, "login") /\ ~Known(g) /\ Taken(g.email)
       /\ Len(convs) < MaxRows
       /\ convs' = IF g.verified /\ Active(u) /\ users[u].pw # 0
                   THEN Append([i \in DOMAIN convs |-> IF convs[i].user = u
                                  THEN [convs[i] EXCEPT !.open = FALSE] ELSE convs[i]],
                               [user |-> u, g |-> g, ver |-> users[u].epoch, open |-> TRUE])
                   ELSE convs
       /\ Finish(p)
       /\ UNCHANGED <<users, sess, invites, idents, states, changes, tokens, pws, grants>>

ConvertOpen(c) == /\ c \in DOMAIN convs /\ convs[c].open
                  /\ Active(convs[c].user) /\ users[convs[c].user].epoch = convs[c].ver

\* OAuthConvert verifies the password against the hash loadConvertProof read.
OAuthConvert(p, c) ==
    /\ Free(p) /\ ConvertOpen(c) /\ users[convs[c].user].pw # 0
    /\ Continue(p, [op |-> "convert", conv |-> c, pw |-> users[convs[c].user].pw])
    /\ UNCHANGED <<tables, grants>>

\* A way to get the lock below wrong: to trust the challenge and forget the hash.
lockChallengeOnly(c, pw) == convs[c].open /\ users[convs[c].user].pw # 0

\* lockConvertUserTx and consumeConvertChallengeTx: still the same hash, epoch and challenge.
lockConvertUser(c, pw) == ConvertOpen(c) /\ users[convs[c].user].pw = pw

\* ConvertToProvider: attach the identity, retire the password, end every session.
ConvertToProvider(p) ==
    LET c == req[p].conv
        u == convs[c].user
        ok == lockConvertUser(c, req[p].pw) /\ IdentityFree(u, convs[c].g)
    IN /\ Busy(p, "convert")
       /\ users[u].epoch < MaxRows
       /\ IF ok
          THEN /\ users' = [users EXCEPT ![u].pw = 0, ![u].epoch = @ + 1]
               /\ convs' = [convs EXCEPT ![c].open = FALSE]
               /\ sess' = RevokeSessions({u}, 0)
               /\ Attach(u, convs[c].g) /\ Paid("convert", u, req[p].pw, convs[c].g.email)
               /\ Continue(p, [op |-> "issue", user |-> u, ver |-> users[u].epoch + 1])
          ELSE UNCHANGED <<users, convs, sess, idents, grants>> /\ Finish(p)
       /\ UNCHANGED <<invites, states, changes, tokens, pws>>

-------------------------------------------------------------------------------
(***************************************************************************)
(* Credentials given up or set from a session.                             *)
(***************************************************************************)

\* GetUser reads the epoch that UnlinkIdentity and SetPassword compare.
BeginFromSession(p, s, op) ==
    /\ Free(p) /\ Resolve(s)
    /\ Continue(p, [op |-> op, user |-> Caller(s), sid |-> s, ver |-> users[Caller(s)].epoch])
    /\ UNCHANGED <<tables, grants>>

\* A way to get the refusal below wrong: to let the password's owner be asked by the form.
MayUnlinkAny(u) == HasIdentity(u)

\* ErrIdentityMissing and ErrLastCredential.
MayUnlink(u) == HasIdentity(u) /\ users[u].pw # 0

CredentialCommit(u, keep) ==
    /\ sess' = RevokeSessions({u}, keep)
    /\ UNCHANGED <<invites, states, convs, changes, tokens, grants>>

UnlinkIdentity(p) ==
    LET r == req[p]
        u == r.user
    IN /\ Busy(p, "unlink") /\ users[u].epoch < MaxRows
       /\ Finish(p)
       /\ IF SessionProven(u, r.sid, r.ver) /\ MayUnlink(u)
          THEN /\ idents' = {i \in idents : i.user # u}
               /\ users' = [users EXCEPT ![u].epoch = @ + 1]
               /\ CredentialCommit(u, r.sid) /\ UNCHANGED pws
          ELSE UNCHANGED <<tables, grants>>

SetPassword(p) ==
    LET r == req[p]
        u == r.user
    IN /\ Busy(p, "set") /\ users[u].epoch < MaxRows
       /\ Finish(p)
       /\ IF SessionProven(u, r.sid, r.ver) /\ users[u].pw = 0
          THEN /\ users' = [users EXCEPT ![u].epoch = @ + 1, ![u].pw = NewPassword]
               /\ pws' = NewPassword
               /\ CredentialCommit(u, r.sid) /\ UNCHANGED idents
          ELSE UNCHANGED <<tables, grants>>

\* ChangePassword verifies the current password and replaces it under one lock.
ChangePassword(s) ==
    LET u == Caller(s)
    IN /\ Resolve(s) /\ users[u].pw # 0 /\ users[u].epoch < MaxRows
       /\ users' = [users EXCEPT ![u].epoch = @ + 1, ![u].pw = NewPassword]
       /\ pws' = NewPassword
       /\ CredentialCommit(u, s)
       /\ UNCHANGED <<idents, scen, req>>

-------------------------------------------------------------------------------
(***************************************************************************)
(* Moving to another address.                                              *)
(***************************************************************************)

\* The handler verifies the password and keeps nothing of it.
AskEmailChange(p, s, e) == VerifyUserPasswordEpoch(p, s, "move", e)

\* The row is bound to the epoch read now, under the lock, and to the session; it
\* closes the account's earlier rows.
RequestEmailChange(p) ==
    LET r == req[p]
        u == r.user
    IN /\ Busy(p, "move") /\ Len(changes) < MaxRows
       /\ changes' = IF Active(u) /\ ~Taken(r.email)
                     THEN Append([c \in DOMAIN changes |-> IF changes[c].user = u
                                    THEN [changes[c] EXCEPT !.open = FALSE] ELSE changes[c]],
                                 [user |-> u, email |-> r.email, ver |-> users[u].epoch,
                                  sid |-> r.sid, pw |-> r.pw, open |-> TRUE])
                     ELSE changes
       /\ Finish(p)
       /\ UNCHANGED <<users, sess, invites, idents, states, convs, tokens, pws, grants>>

CancelEmailChange(s) ==
    /\ Resolve(s)
    /\ \E c \in DOMAIN changes : changes[c].user = Caller(s) /\ changes[c].open
    /\ changes' = [c \in DOMAIN changes |-> IF changes[c].user = Caller(s)
                                            THEN [changes[c] EXCEPT !.open = FALSE] ELSE changes[c]]
    /\ UNCHANGED <<users, sess, invites, idents, states, convs, tokens, pws, scen, req, grants>>

\* loadLiveEmailChangeTx: open, at the row's epoch, and the asking session not revoked.
ChangeLive(c) == changes[c].open /\ SessionProven(changes[c].user, changes[c].sid, changes[c].ver)

\* The address moves, verified, and every session ends.
ConsumeEmailChange(c) ==
    LET u == changes[c].user
    IN /\ users' = [users EXCEPT ![u].email = changes[c].email, ![u].verified = TRUE,
                                 ![u].epoch = @ + 1]
       /\ changes' = [changes EXCEPT ![c].open = FALSE]
       /\ sess' = RevokeSessions({u}, 0)
       /\ Paid("email", u, changes[c].pw, changes[c].email)

\* The mailed link is opened, on any device.
ConfirmEmailChange(c) ==
    /\ ChangeLive(c)
    /\ ~Taken(changes[c].email)
    /\ users[changes[c].user].epoch < MaxRows
    /\ ConsumeEmailChange(c)
    /\ UNCHANGED <<invites, idents, states, convs, tokens, pws, scen, req>>

-------------------------------------------------------------------------------
(***************************************************************************)
(* API tokens: one live token per account, created and revoked under the   *)
(* account lock by its session.                                            *)
(***************************************************************************)

maxTokensPerUser == 1

CreateAPIToken(s) ==
    LET u == Caller(s)
    IN /\ Resolve(s) /\ Len(tokens) < MaxRows
       /\ Cardinality({t \in DOMAIN tokens : tokens[t].user = u /\ tokens[t].live})
             < maxTokensPerUser
       /\ tokens' = Append(tokens, [user |-> u, live |-> TRUE])
       /\ UNCHANGED <<users, sess, invites, idents, states, convs, changes, pws, scen, req, grants>>

\* Scoped by the caller: another account's token is not found.
RevokeAPIToken(s, t) ==
    /\ Resolve(s)
    /\ t \in DOMAIN tokens /\ tokens[t].live /\ tokens[t].user = Caller(s)
    /\ tokens' = [tokens EXCEPT ![t].live = FALSE]
    /\ UNCHANGED <<users, sess, invites, idents, states, convs, changes, pws, scen, req, grants>>

-------------------------------------------------------------------------------

\* Time passes: an invitation, a redirect state, a challenge or a change expires.
Expire ==
    /\ \/ /\ \E i \in DOMAIN invites : /\ invites[i].state = "open"
                                       /\ invites' = [invites EXCEPT ![i].state = "expired"]
          /\ UNCHANGED <<states, convs, changes>>
       \/ /\ \E i \in DOMAIN states : states[i].open /\ states' = [states EXCEPT ![i].open = FALSE]
          /\ UNCHANGED <<invites, convs, changes>>
       \/ /\ \E i \in DOMAIN convs : convs[i].open /\ convs' = [convs EXCEPT ![i].open = FALSE]
          /\ UNCHANGED <<invites, states, changes>>
       \/ /\ \E i \in DOMAIN changes : /\ changes[i].open
                                       /\ changes' = [changes EXCEPT ![i].open = FALSE]
          /\ UNCHANGED <<invites, states, convs>>
    /\ UNCHANGED <<users, sess, idents, tokens, pws, scen, req, grants>>

Init ==
    \E sc \in Scenarios :
       /\ scen = [ops |-> sc.ops, rows |-> sc.rows]
       /\ users = sc.users /\ sess = sc.sess /\ idents = sc.idents
       /\ invites = <<>> /\ states = <<>> /\ convs = <<>> /\ changes = <<>> /\ tokens = <<>>
       /\ pws = MaxIds
       /\ req = [p \in Slots |-> Idle]
       /\ grants = {}

Emails == {g.email : g \in Google}
Sessions == DOMAIN sess

Administer(p, s) ==
    \/ "update" \in scen.ops /\ \E t \in Ids, e \in Edits : AdminUpdateUser(p, s, t, e)
    \/ "delete" \in scen.ops /\ \E t \in Ids : AdminDeleteUser(p, s, t)
    \/ "transfer" \in scen.ops /\ \E t \in Ids : AdminTransferOwnership(p, s, t)
    \/ "revoke" \in scen.ops /\ \E t \in Ids : RevokeUserSessions(p, s, t)

Next ==
    \/ "setup" \in scen.ops /\ \E e \in Emails : Bootstrap(e)
    \/ "login" \in scen.ops /\ \E p \in Slots, u \in Ids : LoginProof(p, u)
    \/ \E p \in Slots, s \in Sessions : Administer(p, s)
    \/ \E p \in Slots :
          \/ IssueSession(p) \/ UpdateUser(p) \/ RevokeAllForUser(p) \/ DeleteUser(p)
          \/ TransferOwnership(p) \/ CreateOAuthLinkState(p) \/ ConvertToProvider(p)
          \/ UnlinkIdentity(p) \/ SetPassword(p) \/ RequestEmailChange(p)
          \/ \E g \in Google :
                \/ LinkIdentity(p, g) \/ AcceptInviteWithIdentity(p, g) \/ UserByIdentity(p, g)
                \/ ProvisionOAuthUser(p, g) \/ OfferConversion(p, g)
    \/ \E s \in Sessions, r \in {"admin", "editor"}, e \in Emails :
          \/ "create" \in scen.ops /\ CreateUser(s, r, e)
          \/ "invite" \in scen.ops /\ CreateInvite(s, r, e)
    \/ \E s \in Sessions, i \in DOMAIN invites : RevokeInvite(s, i)
    \/ \E p \in Slots, i \in DOMAIN invites : AcceptInvite(p, i)
    \/ "google" \in scen.ops /\ OAuthStart
    \/ \E i \in DOMAIN invites : "google" \in scen.ops /\ OAuthInviteStart(i)
    \/ \E p \in Slots, s \in Sessions :
          \/ "link" \in scen.ops /\ OAuthLinkStart(p, s)
          \/ "unlink" \in scen.ops /\ BeginFromSession(p, s, "unlink")
          \/ "set" \in scen.ops /\ BeginFromSession(p, s, "set")
    \/ \E p \in Slots, i \in DOMAIN states, s \in Sessions \union {0} : ConsumeOAuthState(p, i, s)
    \/ \E p \in Slots, c \in DOMAIN convs : OAuthConvert(p, c)
    \/ \E s \in Sessions : \/ "change" \in scen.ops /\ ChangePassword(s)
                           \/ "token" \in scen.ops /\ CreateAPIToken(s)
                           \/ CancelEmailChange(s)
    \/ \E s \in Sessions, t \in DOMAIN tokens : RevokeAPIToken(s, t)
    \/ \E p \in Slots, s \in Sessions, e \in Emails : "move" \in scen.ops /\ AskEmailChange(p, s, e)
    \/ \E c \in DOMAIN changes : ConfirmEmailChange(c)
    \/ "time" \in scen.ops /\ Expire

Spec == Init /\ [][Next]_vars

-------------------------------------------------------------------------------
(***************************************************************************)
(* Properties.                                                             *)
(***************************************************************************)

\* The owner's seat behaves as OwnerSeat promises: setup, edits, deletions, transfers
\* and stale requests of former owners never empty it, double it or give it to an
\* account that is not active (UpdateUser, DeleteUser, TransferOwnership, Bootstrap).
SeatHolder == IF \E u \in Actives : users[u].role = "owner"
              THEN CHOOSE u \in Actives : users[u].role = "owner" ELSE 0
Seat == INSTANCE OwnerSeat WITH Accounts <- Ids, Nobody <- 0, seat <- SeatHolder, active <- Actives
SeatSpec == Seat!Spec

\* No session acts as an administrator that was opened before its account became one,
\* also when a revocation failed or the account was disabled meanwhile (UpdateUser,
\* TransferOwnership, IssueSession).
PrivilegeIsFresh ==
    \A s \in DOMAIN sess : Resolve(s) /\ IsAdmin(users[sess[s].user].role) => sess[s].admin

\* An active account can always sign in: conversions, unlinks and password changes of
\* one account in any order leave it a password or an identity, without the help of the
\* constraint trigger of the schema (UnlinkIdentity, ConvertToProvider, SetPassword).
CredentialKept == \A u \in Actives : users[u].pw # 0 \/ HasIdentity(u)

\* An identity is attached to an existing account only on a proof of the password the
\* account has at that moment (LinkIdentity, ConvertToProvider).
IdentityPaid == \A g \in grants : g.how \in {"link", "convert"} => g.paid = g.pw

\* Credentials are neither lost nor slipped in: the two above, together.
CredentialsSound == CredentialKept /\ IdentityPaid
===============================================================================

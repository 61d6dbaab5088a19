------------------------------ MODULE MCIdentity ------------------------------
(***************************************************************************)
(* Small instances of the accounts and of one account's second factors,    *)
(* one of the two at a time: they share no state the properties tell apart.*)
(***************************************************************************)
EXTENDS Accounts, AuthFactors, TLC

Symmetry == Permutations(Slots) \cup Permutations(Hands)

gAna == [subject |-> "g1", email |-> "ana", verified |-> TRUE]
gBob == [subject |-> "g2", email |-> "bob", verified |-> TRUE]
GoogleAccounts == {gAna, gBob}

Row(role, status, email, pw) ==
    [role |-> role, status |-> status, epoch |-> 0, email |-> email, pw |-> pw, verified |-> TRUE]
None == Row("editor", "absent", "none", 0)
Sess(u, a) == [user |-> u, live |-> TRUE, admin |-> a]
Scenario(o, n, u, s, i) == [ops |-> o, rows |-> n, users |-> u, sess |-> s, idents |-> i]

Owner  == Row("owner", "active", "root", 1)
Three  == <<Owner, Row("admin", "active", "adm", 2), Row("editor", "active", "ed", 3)>>
Two    == <<Owner, Row("editor", "active", "ana", 2), None>>
Single == <<Owner, None, None>>
NoAccounts == Scenario({}, 0, <<None, None, None>>, <<>>, {})

\* Setup of an upgraded instance and of an empty one; two administrators with sessions, and
\* an editor; an owner and an editor with sessions.
Administration ==
    {Scenario({"setup", "login", "create"}, 3, <<Row("owner", "pending", "none", 0), None, None>>,
              <<>>, {}),
     Scenario({"setup", "login", "create"}, 3, <<None, None, None>>, <<>>, {}),
     Scenario({"update", "delete"}, 2, Three, <<Sess(1, TRUE), Sess(2, TRUE)>>, {}),
     Scenario({"delete", "transfer", "revoke"}, 2, Three, <<Sess(1, TRUE), Sess(2, TRUE)>>, {}),
     Scenario({"update", "transfer", "login"}, 3, Two, <<Sess(1, TRUE), Sess(2, FALSE)>>, {})}

\* Invitations of one address; an account that links, converts, unlinks and
\* changes its password; one with an identity alone; one that moves its address.
Credentials ==
    {Scenario({"invite", "google", "time"}, 2, Single, <<Sess(1, TRUE)>>, {}),
     Scenario({"link", "google", "unlink"}, 3, Two, <<Sess(2, FALSE)>>, {}),
     Scenario({"link", "change", "unlink"}, 3, Two, <<Sess(2, FALSE)>>, {}),
     Scenario({"google", "set", "unlink"}, 3, [Two EXCEPT ![2].pw = 0],
              <<Sess(2, FALSE), Sess(2, FALSE)>>, {[user |-> 2, subject |-> "g1"]}),
     Scenario({"move", "token"}, 3, Two, <<Sess(2, FALSE)>>, {})}
AccountPlans == {NoAccounts} \cup Administration \cup Credentials

Enrolled(ops, enrolled, pw, session, mandatory, most) ==
    [ops |-> ops, enrolled |-> enrolled, pw |-> pw, session |-> session,
     mandatory |-> mandatory, most |-> most]
Most(t, ch, co, e, k) == [time |-> t, challenges |-> ch, codes |-> co, epoch |-> e, sets |-> k]
Signing  == Most(1, 2, 1, 1, 1)
Changing == Most(0, 1, 2, 2, 2)
NoFactors == Enrolled({}, {}, FALSE, FALSE, FALSE, Most(0, 0, 0, 0, 0))

\* An account with both factors signs in, with its password or a reset link; a session of an
\* administrator with both factors gives factors up; an administrator without a factor has to
\* enroll one; an account without a password sets one; a user with one factor gives it up.
FactorPlans ==
    {NoFactors,
     Enrolled({"login", "verify", "reset", "sweep", "status"}, {"totp", "mail"}, TRUE, FALSE, FALSE, Signing),
     Enrolled({"removeTOTP", "removeMail", "link", "stepupMail"}, {"totp", "mail"}, TRUE, TRUE, TRUE, Changing),
     Enrolled({"login", "enroll", "removeTOTP", "reset"}, {}, TRUE, FALSE, TRUE, Changing),
     Enrolled({"login", "enroll", "setPassword", "address"}, {}, FALSE, TRUE, FALSE, Changing),
     Enrolled({"removeTOTP", "removeMail", "regenerate"}, {"totp"}, TRUE, TRUE, FALSE, Changing)}

IdentityInit == Init /\ FactorsInit /\ ((scen.ops = {}) # (Ops = {}))
IdentityNext == (scen.ops # {} /\ Next /\ UNCHANGED factorVars) \/ (Ops # {} /\ FactorsNext /\ UNCHANGED vars)
IdentitySpec == IdentityInit /\ [][IdentityNext]_<<vars, factorVars>>
===============================================================================

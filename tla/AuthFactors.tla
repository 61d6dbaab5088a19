----------------------------- MODULE AuthFactors ------------------------------
(***************************************************************************)
(* Second factors, pending sign-ins and account recovery of ONE account:   *)
(* the tables totp_secret, email_factor, recovery_code, email_otp,         *)
(* auth_challenge and password_reset, the columns of app_user and session  *)
(* they depend on, and the handlers of twofa_handler.go,                   *)
(* email_factor_handler.go and password_handler.go.                        *)
(*                                                                         *)
(* A handler is not one transaction: it reads (a challenge, the user, the  *)
(* TOTP row), decides, and commits later.  Every handler is a request that *)
(* occupies a slot of task from its first read to its commit, and what it   *)
(* read stays in the slot while other requests run.  Each repository call  *)
(* is one step: it locks the app_user row first, so two of them on one     *)
(* account do not overlap.                                                 *)
(*                                                                         *)
(* Codes are numbers in the order of minting; a TOTP code is its counter.  *)
(* Two codes never collide: the six digits are abstracted.                 *)
(***************************************************************************)
EXTENDS Integers, Sequences, FiniteSets

CONSTANTS
    Hands,        \* requests that can be in flight together
    FactorScenarios, \* how the account starts, what is exercised and how long
    TOTPOnly,     \* the instance policy: only an authenticator counts
    MaxAttempts,  \* maxChallengeAttempts
    MaxSends,     \* maxChallengeSends
    TTL,          \* challengeTTL, in ticks
    CodeTTL,      \* emailOTPTTL and passwordResetTTL, in ticks
    Cooldown,     \* the cooldown between two mailed codes, in ticks
    Retain,       \* retention of expired rows, in ticks
    MaxSessions, MaxResets, MaxSeeds   \* bounds on the rows ever inserted

\* A scenario: the factors confirmed at the start, whether there is a password, a
\* verified address and a session, and whether the account is an administrator
\* under require2FAForAdmins; and the bounds on the clock, the epoch and the rows that
\* tell its questions apart.
ASSUME FactorsAssumption ==
    /\ \A x \in FactorScenarios : /\ x.enrolled \subseteq {"totp", "mail"} /\ x.ops \subseteq STRING
                                  /\ {x.mandatory, x.pw, x.session} \subseteq BOOLEAN
    /\ TOTPOnly \in BOOLEAN
    /\ {MaxAttempts, MaxSends, TTL, CodeTTL} \subseteq Nat \ {0}
    /\ {Cooldown, Retain, MaxSessions, MaxResets, MaxSeeds} \subseteq Nat
    /\ \A x \in FactorScenarios :
          x.most \in [time : Nat, challenges : Nat, codes : Nat, epoch : Nat, sets : Nat]

VARIABLES
    now,     \* the clock
    acct,    \* app_user: status, token_version, whether a password is set, email_verified_at
    totp,    \* totp_secret; seed 0: no row
    mailf,   \* email_factor; ver NoVer and not confirmed: no row
    recov,   \* recovery_code rows not used
    sets,    \* recovery code sets minted so far: set k is the one code k
    otps,    \* email_otp
    chals,   \* auth_challenge
    signed,  \* session
    resets,  \* password_reset
    seeds,   \* TOTP secrets drawn so far
    task,    \* the requests in flight
    spent,   \* history: the proofs accepted, in order
    window   \* history: guesses and mails since a sign-in window opened

factorVars == <<now, acct, totp, mailf, recov, sets, otps, chals, signed, resets, seeds, task,
          spent, window>>
rows == <<acct, totp, mailf, recov, sets, otps, chals, signed, resets, seeds>>
hist == <<spent, window>>

\* The scenario is kept with the account and never changes.
Ops       == acct.ops
Mandatory == acct.mandatory
MaxTime   == acct.most.time
MaxEpoch  == acct.most.epoch
MaxChallenges == acct.most.challenges
MaxCodes  == acct.most.codes
MaxSets   == acct.most.sets

NoVer   == 0 - 1
NoTOTP  == [seed |-> 0, conf |-> FALSE, ver |-> NoVer, sid |-> 0, last |-> NoVer]
NoMailf == [conf |-> FALSE, ver |-> NoVer, sid |-> 0]
NoTask    == [op |-> "idle"]
NoProof == [kind |-> "none", n |-> 0, seed |-> 0]

Request(op, pc, ch, sid, ver, proof, flag) ==
    [op |-> op, pc |-> pc, ch |-> ch, sid |-> sid, ver |-> ver, proof |-> proof, flag |-> flag]
FreeHand(p)        == task[p] = NoTask
At(p, op, pc)  == task[p] # NoTask /\ task[p].op = op /\ task[p].pc = pc
Leave(p)      == task' = [task EXCEPT ![p] = NoTask]
Goto(p, pc)    == task' = [task EXCEPT ![p].pc = pc]

HasSecondFactor == totp.conf \/ mailf.conf
\* What the administrator's policy counts.
HasConfirmedSecondFactor == totp.conf \/ (~TOTPOnly /\ mailf.conf)
ActiveOnly(ver) == acct.active
AtEpoch(ver)    == acct.active /\ acct.epoch = ver

\* An epoch change ends a sign-in window: every challenge of it is dead.
Bumped(a)    == [a EXCEPT !.epoch = @ + 1]
WindowShut   == [until |-> 0, guesses |-> 0, sends |-> 0, proven |-> FALSE]
RevokeOthers(s) == [i \in DOMAIN signed |-> IF i = s THEN signed[i] ELSE [signed[i] EXCEPT !.live = FALSE]]

-------------------------------------------------------------------------------
(***************************************************************************)
(* Challenges.                                                             *)
(***************************************************************************)

PurposeTOTP   == "totp"
PurposeEnroll == "enroll"

secondFactorPurpose ==
    IF HasSecondFactor THEN PurposeTOTP ELSE IF Mandatory THEN PurposeEnroll ELSE "none"

mayRemoveFactor(removing) ==
    Mandatory => IF TOTPOnly THEN removing # "totp"
                 ELSE IF removing = "totp" THEN mailf.conf ELSE totp.conf

emailFactorAvailable(c) ==
    chals[c].purpose = PurposeTOTP /\ ~chals[c].proven /\ mailf.conf

Unspent(c) == ~chals[c].used /\ chals[c].exp > now
Live(c)    == Unspent(c) /\ AtEpoch(chals[c].ver)

\* The challenge that a new one of the same purpose and epoch continues, or 0.
loadPreviousChallenge(purpose, ver) ==
    LET prev == {c \in DOMAIN chals : /\ chals[c].purpose = purpose
                                      /\ chals[c].ver = ver /\ Unspent(c)}
    IN IF prev = {} THEN 0 ELSE CHOOSE c \in prev : \A d \in prev : d <= c

\* Two ways to get the continuation below wrong.
ContinuedAfresh(prev, proven) ==
    [att |-> 0, sends |-> 0, proven |-> proven, exp |-> now + TTL]
ContinuedUnmarked(prev, proven) ==
    IF prev = 0 THEN [att |-> 0, sends |-> 0, proven |-> proven, exp |-> now + TTL]
    ELSE [att |-> chals[prev].att, sends |-> chals[prev].sends,
          proven |-> proven, exp |-> chals[prev].exp]

\* What a new challenge starts from: the guesses, the sends, the deadline and the
\* mailbox mark of the one it replaces.
Continued(prev, proven) ==
    IF prev = 0 THEN [att |-> 0, sends |-> 0, proven |-> proven, exp |-> now + TTL]
    ELSE [att |-> chals[prev].att, sends |-> chals[prev].sends,
          proven |-> chals[prev].proven \/ proven, exp |-> chals[prev].exp]

\* The codes of the replaced challenge move to the new one as spent: they only
\* keep the time of the last mail.
inheritChallengeCodes(prev, c) ==
    [i \in DOMAIN otps |-> IF prev # 0 /\ otps[i].ch = prev
                           THEN [otps[i] EXCEPT !.ch = c, !.used = TRUE] ELSE otps[i]]

\* CreateChallenge, and the sign-in window it opens or continues.
CreateChallenge(purpose, ver, proven) ==
    LET prev == loadPreviousChallenge(purpose, ver)
        new  == Continued(prev, proven)
        id   == Len(chals) + 1
        kept == [c \in DOMAIN chals |-> IF chals[c].purpose = purpose
                                        THEN [chals[c] EXCEPT !.used = TRUE] ELSE chals[c]]
    IN /\ id <= MaxChallenges
       /\ chals' = Append(kept, [purpose |-> purpose, ver |-> ver, att |-> new.att,
                                 sends |-> new.sends, proven |-> new.proven,
                                 exp |-> new.exp, used |-> FALSE])
       /\ otps' = inheritChallengeCodes(prev, id)
       /\ window' = IF purpose # PurposeTOTP THEN window
                    ELSE IF now < window.until
                         THEN [window EXCEPT !.proven = @ \/ proven]
                         ELSE [WindowShut EXCEPT !.until = now + TTL, !.proven = proven]

ResolveChallenge(c, purpose) ==
    /\ c \in DOMAIN chals /\ Live(c)
    /\ chals[c].purpose = purpose
    /\ chals[c].att < MaxAttempts

\* The reservation of a guess: the bound is part of the UPDATE's condition.
Bumpable(c) == Live(c) /\ chals[c].att < MaxAttempts
BumpChallengeAttempt(c) ==
    /\ chals' = [chals EXCEPT ![c].att = @ + 1]
    /\ window' = IF chals[c].purpose = PurposeTOTP
                 THEN [window EXCEPT !.guesses = @ + 1] ELSE window

Spend(c) == [chals EXCEPT ![c].used = TRUE]

\* issueSessionTx: the new session, what proved it and the epoch of that proof.
OpenSession(ver, second) ==
    /\ Len(signed) < MaxSessions
    /\ signed' = Append(signed, [live |-> TRUE, born |-> ver, at |-> acct.epoch,
                             second |-> second, proven |-> window.proven])

-------------------------------------------------------------------------------
(***************************************************************************)
(* Mailed codes.                                                           *)
(***************************************************************************)

Recent(set)      == \E i \in set : otps[i].at >= now - Cooldown
OfPurpose(kind)  == {i \in DOMAIN otps : otps[i].kind = kind}
CodeLive(i, kind) == /\ i \in DOMAIN otps /\ otps[i].kind = kind
                     /\ ~otps[i].used /\ otps[i].exp > now

\* The older codes of the purpose are superseded and the new one is inserted
\* with its mail, in the same transaction.
MintCode(kind, c) ==
    /\ Len(otps) < MaxCodes
    /\ otps' = Append([i \in DOMAIN otps |-> IF otps[i].kind = kind
                                             THEN [otps[i] EXCEPT !.used = TRUE] ELSE otps[i]],
                      [kind |-> kind, ch |-> c, at |-> now, exp |-> now + CodeTTL, used |-> FALSE])

\* CreateChallengeEmailOTP's UPDATE: budget, cooldown and liveness in one statement.
MaySend(c) ==
    /\ Live(c) /\ chals[c].sends < MaxSends
    /\ \A i \in DOMAIN otps : otps[i].ch = c => otps[i].at < now - Cooldown

-------------------------------------------------------------------------------
(***************************************************************************)
(* Proofs.                                                                 *)
(***************************************************************************)

\* twofa.Verify with Skew 1: the counters whose code is accepted now.
Counters == {n \in {now - 1, now, now + 1} : n >= 0}

\* What somebody may type: a code of the current authenticator, a recovery code
\* or mailed code ever minted, or something wrong.
Presented == [kind : {"totp"}, n : Counters, seed : {totp.seed} \ {0}]
               \cup [kind : {"recovery"}, n : 1..sets, seed : {0}]
               \cup [kind : {"mail"}, n : DOMAIN otps, seed : {0}]
               \cup {NoProof}

\* verifyTOTPProof: the row must be confirmed when it is read.
verifyTOTPProof(x) == x.kind = "totp" /\ totp.conf /\ x.seed = totp.seed

\* consumeTOTPProofIfCurrentTx: the same secret, and a counter never used before.
TOTPCurrentAgain(x)  == totp.conf /\ totp.seed = x.seed /\ totp.last <= x.n
TOTPCurrent(x)       == totp.conf /\ totp.seed = x.seed /\ totp.last < x.n

challengeProof(x) == IF x.kind = "totp" /\ ~verifyTOTPProof(x) THEN NoProof ELSE x

tryNumericStepUp(x) ==
    \/ verifyTOTPProof(x)
    \/ x.kind = "mail" /\ mailf.conf /\ CodeLive(x.n, "stepup")
tryRecoveryStepUp(x) == x.kind = "recovery" /\ x.n \in recov
tryStepUpProof(x)    == tryNumericStepUp(x) \/ tryRecoveryStepUp(x)

\* What may be spent, inside the transaction that it pays for: by a sign-in
\* (consumeChallengeProofTx) and by a step-up (consumeSecondFactorTx).
SpendableAtLogin(x, c) ==
    CASE x.kind = "totp"     -> TOTPCurrent(x)
      [] x.kind = "mail"     -> CodeLive(x.n, "login") /\ otps[x.n].ch = c
      [] x.kind = "recovery" -> x.n \in recov
      [] OTHER               -> FALSE
SpendableAtStepUp(x) ==
    CASE x.kind = "totp"     -> TOTPCurrent(x)
      [] x.kind = "mail"     -> CodeLive(x.n, "stepup")
      [] x.kind = "recovery" -> x.n \in recov
      [] OTHER               -> FALSE

UsedTOTP(x)  == IF x.kind = "totp" THEN [totp EXCEPT !.last = x.n] ELSE totp
UsedCode(x)  == IF x.kind = "mail" THEN [otps EXCEPT ![x.n].used = TRUE] ELSE otps
UsedRecov(x) == IF x.kind = "recovery" THEN recov \ {x.n} ELSE recov
RecordProof(x) == spent' = Append(spent, x)

-------------------------------------------------------------------------------
(***************************************************************************)
(* Signing in: with the password, or with a reset link.                    *)
(***************************************************************************)

\* Handler.Login reads the user with its factors; completeLogin decides later,
\* from what was read.
LoginBegin(p) ==
    /\ "login" \in Ops /\ FreeHand(p)
    /\ acct.active /\ acct.pw
    /\ task' = [task EXCEPT ![p] = Request("login", secondFactorPurpose, 0, 0, acct.epoch,
                                         NoProof, FALSE)]
    /\ UNCHANGED <<now, rows, hist>>

\* completeLogin with no second factor: IssueSession locks the account again.
LoginIssue(p) ==
    /\ At(p, "login", "none")
    /\ AtEpoch(task[p].ver)
    /\ OpenSession(task[p].ver, "none")
    /\ Leave(p)
    /\ UNCHANGED <<now, acct, totp, mailf, recov, sets, otps, chals, resets, seeds, hist>>

\* completeLogin with a second factor: startChallenge.  flag is mailboxAlreadyProven.
LoginChallenge(p) ==
    /\ At(p, "login", PurposeTOTP) \/ At(p, "login", PurposeEnroll)
    /\ AtEpoch(task[p].ver)
    /\ CreateChallenge(task[p].pc, task[p].ver, task[p].flag)
    /\ Leave(p)
    /\ UNCHANGED <<now, acct, totp, mailf, recov, sets, signed, resets, seeds, spent>>

\* IssueSession or CreateChallenge finds another epoch or a disabled account.
LoginRefused(p) ==
    /\ task[p] # NoTask /\ task[p].op = "login"
    /\ ~AtEpoch(task[p].ver)
    /\ Leave(p)
    /\ UNCHANGED <<now, rows, hist>>

\* ForgotPassword and, for an administrator's request, SendPasswordRecovery: the
\* older links are superseded, the new one is bound to the epoch.
MayMintReset(byAdmin) == acct.active /\ IF byAdmin THEN acct.verified ELSE acct.pw
CreatePasswordReset(byAdmin) ==
    /\ "reset" \in Ops
    /\ MayMintReset(byAdmin)
    /\ Len(resets) < MaxResets
    /\ resets' = Append([i \in DOMAIN resets |-> [resets[i] EXCEPT !.used = TRUE]],
                        [ver |-> acct.epoch, exp |-> now + CodeTTL, used |-> FALSE])
    /\ UNCHANGED <<now, acct, totp, mailf, recov, sets, otps, chals, signed, seeds, task, hist>>

ResetValid(t) == ~resets[t].used /\ resets[t].exp > now /\ AtEpoch(resets[t].ver)

\* ResetPassword: ConsumePasswordReset, then completeLogin for the user it
\* returned, who has proved control of the mailbox.
ConsumePasswordReset(p, t) ==
    /\ FreeHand(p) /\ t \in DOMAIN resets
    /\ ResetValid(t)
    /\ acct.epoch < MaxEpoch
    /\ resets' = [resets EXCEPT ![t].used = TRUE]
    /\ acct' = [Bumped(acct) EXCEPT !.pw = TRUE, !.verified = TRUE]
    /\ signed' = RevokeOthers(0)
    /\ window' = WindowShut
    /\ task' = [task EXCEPT ![p] = Request("login", secondFactorPurpose, 0, 0, acct.epoch + 1,
                                         NoProof, TRUE)]
    /\ UNCHANGED <<now, totp, mailf, recov, sets, otps, chals, seeds, spent>>

\* Verify2FA.  The guess is reserved before the code is looked at.
VerifyBegin(p, c) ==
    /\ "verify" \in Ops /\ FreeHand(p)
    /\ ResolveChallenge(c, PurposeTOTP)
    /\ task' = [task EXCEPT ![p] = Request("verify", "bump", c, 0, chals[c].ver, NoProof, FALSE)]
    /\ UNCHANGED <<now, rows, hist>>

VerifyBump(p) ==
    /\ At(p, "verify", "bump")
    /\ \/ Bumpable(task[p].ch) /\ BumpChallengeAttempt(task[p].ch) /\ Goto(p, "proof")
       \/ ~Bumpable(task[p].ch) /\ Leave(p) /\ UNCHANGED <<chals, window>>
    /\ UNCHANGED <<now, acct, totp, mailf, recov, sets, otps, signed, resets, seeds, spent>>

VerifyProof(p) ==
    /\ At(p, "verify", "proof")
    /\ \/ /\ acct.active
          /\ \E x \in Presented :
                task' = [task EXCEPT ![p].pc = "complete", ![p].proof = challengeProof(x)]
       \/ ~acct.active /\ Goto(p, "drop")
    /\ UNCHANGED <<now, rows, hist>>

\* Complete2FA: challenge, proof and session in one transaction.
LoginPays(p) ==
    /\ AtEpoch(task[p].ver) /\ Unspent(task[p].ch) /\ chals[task[p].ch].att <= MaxAttempts
    /\ SpendableAtLogin(task[p].proof, task[p].ch)
Complete2FA(p) ==
    /\ At(p, "verify", "complete")
    /\ LoginPays(p)
    /\ totp' = UsedTOTP(task[p].proof)
    /\ otps' = UsedCode(task[p].proof)
    /\ recov' = UsedRecov(task[p].proof)
    /\ RecordProof(task[p].proof)
    /\ chals' = Spend(task[p].ch)
    /\ OpenSession(task[p].ver, task[p].proof.kind)
    /\ window' = WindowShut
    /\ Leave(p)
    /\ UNCHANGED <<now, acct, mailf, sets, resets, seeds>>

VerifyRefused(p) ==
    /\ At(p, "verify", "complete")
    /\ ~LoginPays(p)
    /\ Leave(p)
    /\ UNCHANGED <<now, rows, hist>>

\* The account was not active at GetUser: ConsumeChallenge, which only touches
\* a challenge that is live again by then.
ConsumeChallenge(p) ==
    /\ At(p, "verify", "drop")
    /\ chals' = IF Live(task[p].ch) THEN Spend(task[p].ch) ELSE chals
    /\ Leave(p)
    /\ UNCHANGED <<now, acct, totp, mailf, recov, sets, otps, signed, resets, seeds, hist>>

\* SendEmailOTP: the mark and the factor are read before the code is minted.
SendBegin(p, c) ==
    /\ "verify" \in Ops /\ FreeHand(p)
    /\ ResolveChallenge(c, PurposeTOTP)
    /\ emailFactorAvailable(c)
    /\ task' = [task EXCEPT ![p] = Request("send", "mint", c, 0, chals[c].ver, NoProof, FALSE)]
    /\ UNCHANGED <<now, rows, hist>>

CreateChallengeEmailOTP(p) ==
    /\ At(p, "send", "mint")
    /\ MaySend(task[p].ch)
    /\ MintCode("login", task[p].ch)
    /\ chals' = [chals EXCEPT ![task[p].ch].sends = @ + 1]
    /\ window' = [window EXCEPT !.sends = @ + 1]
    /\ Leave(p)
    /\ UNCHANGED <<now, acct, totp, mailf, recov, sets, signed, resets, seeds, spent>>

SendRefused(p) ==
    /\ At(p, "send", "mint")
    /\ ~MaySend(task[p].ch)
    /\ Leave(p)
    /\ UNCHANGED <<now, rows, hist>>

-------------------------------------------------------------------------------
(***************************************************************************)
(* Enrolling a factor: from a session, or from an enroll_2fa challenge.    *)
(***************************************************************************)

RequireLiveSession(s) == IF s = 0 THEN TRUE ELSE signed[s].live
SignedIn(s)           == s \in DOMAIN signed /\ signed[s].live /\ acct.active

\* enrollmentPrincipal (which also checks the password) and
\* enrollmentPrincipalNoPassword: the epoch is read here and used later.
Principal(p, op, pc, s, c, x, flag) ==
    \/ /\ SignedIn(s) /\ c = 0
       /\ task' = [task EXCEPT ![p] = Request(op, pc, 0, s, acct.epoch, x, flag)]
    \/ /\ s = 0 /\ ResolveChallenge(c, PurposeEnroll)
       /\ task' = [task EXCEPT ![p] = Request(op, pc, c, 0, chals[c].ver, x, flag)]

StartBegin(p, kind, s, c) ==
    /\ "enroll" \in Ops /\ FreeHand(p)
    /\ s # 0 => acct.pw
    /\ Principal(p, "start", kind, s, c, NoProof, FALSE)
    /\ UNCHANGED <<now, rows, hist>>

StartHolds(p) == AtEpoch(task[p].ver) /\ RequireLiveSession(task[p].sid)

StartTOTPEnrollment(p) ==
    /\ At(p, "start", "totp")
    /\ StartHolds(p) /\ ~totp.conf
    /\ seeds < MaxSeeds
    /\ seeds' = seeds + 1
    /\ totp' = [NoTOTP EXCEPT !.seed = seeds + 1, !.ver = task[p].ver, !.sid = task[p].sid]
    /\ Leave(p)
    /\ UNCHANGED <<now, acct, mailf, recov, sets, otps, chals, signed, resets, hist>>

StartEmailFactorEnrollment(p) ==
    /\ At(p, "start", "mail")
    /\ StartHolds(p) /\ ~mailf.conf /\ ~Recent(OfPurpose("enroll"))
    /\ mailf' = [NoMailf EXCEPT !.ver = task[p].ver, !.sid = task[p].sid]
    /\ MintCode("enroll", 0)
    /\ Leave(p)
    /\ UNCHANGED <<now, acct, totp, recov, sets, chals, signed, resets, seeds, hist>>

StartRefused(p) ==
    /\ \/ At(p, "start", "totp") /\ ~(StartHolds(p) /\ ~totp.conf)
       \/ At(p, "start", "mail") /\ ~(StartHolds(p) /\ ~mailf.conf /\ ~Recent(OfPurpose("enroll")))
    /\ Leave(p)
    /\ UNCHANGED <<now, rows, hist>>

\* pendingTOTPEnrollment: the pending row the request reads must be its own, and
\* the code right for that row's secret.
enrollmentSessionMatches(s) == totp.sid = s
pendingTOTPEnrollment(ver, s) ==
    totp.seed # 0 /\ ~totp.conf /\ totp.ver = ver /\ enrollmentSessionMatches(s)

ConfirmTOTPBegin(p, s, c) ==
    /\ "enroll" \in Ops /\ FreeHand(p)
    /\ pendingTOTPEnrollment(IF s # 0 THEN acct.epoch ELSE chals[c].ver, s)
    /\ \E n \in Counters :
          Principal(p, "confirm", "totp", s, c, [kind |-> "totp", n |-> n, seed |-> totp.seed], FALSE)
    /\ UNCHANGED <<now, rows, hist>>

\* reserveEmailFactorConfirm: a guess from a challenge is paid for first.
ConfirmEmailBegin(p, s, c) ==
    /\ "enroll" \in Ops /\ FreeHand(p)
    /\ \E i \in OfPurpose("enroll") \cup {0} :
          Principal(p, "confirm", "mail", s, c, [kind |-> "mail", n |-> i, seed |-> 0], FALSE)
    /\ IF c = 0 THEN UNCHANGED <<chals, window>> ELSE Bumpable(c) /\ BumpChallengeAttempt(c)
    /\ UNCHANGED <<now, acct, totp, mailf, recov, sets, otps, signed, resets, seeds, spent>>

lockEnrollmentUser(p) ==
    AtEpoch(task[p].ver) /\ (task[p].ch = 0 => RequireLiveSession(task[p].sid))

\* finishPreAuthEnrollmentTx: the challenge that carried the enrollment is spent
\* and pays for the session.
PreAuthHolds(p) == task[p].ch # 0 => Unspent(task[p].ch)
finishPreAuthEnrollment(p) ==
    IF task[p].ch = 0 THEN UNCHANGED <<chals, signed>>
    ELSE chals' = Spend(task[p].ch) /\ OpenSession(task[p].ver, "enrolled")

replaceRecoveryCodes == sets < MaxSets /\ sets' = sets + 1 /\ recov' = {sets + 1}

confirmTOTPRow(p) ==
    /\ ~totp.conf /\ totp.ver = task[p].ver /\ totp.seed = task[p].proof.seed
    /\ totp.sid = task[p].sid
CompleteTOTPEnrollment(p) ==
    /\ At(p, "confirm", "totp")
    /\ lockEnrollmentUser(p) /\ confirmTOTPRow(p) /\ PreAuthHolds(p)
    /\ totp' = [totp EXCEPT !.conf = TRUE, !.last = task[p].proof.n, !.sid = 0]
    /\ RecordProof(task[p].proof)
    /\ replaceRecoveryCodes
    /\ finishPreAuthEnrollment(p)
    /\ Leave(p)
    /\ UNCHANGED <<now, acct, mailf, otps, resets, seeds, window>>

\* spendEmailFactorEnrollmentTx: unlike the authenticator's row, the e-mail row
\* may be confirmed by a challenge although a session started it.
spendEmailFactorEnrollment(p) ==
    /\ CodeLive(task[p].proof.n, "enroll")
    /\ ~mailf.conf /\ mailf.ver = task[p].ver
    /\ task[p].sid = 0 \/ mailf.sid = task[p].sid
CompleteEmailFactorEnrollment(p) ==
    /\ At(p, "confirm", "mail")
    /\ lockEnrollmentUser(p) /\ spendEmailFactorEnrollment(p) /\ PreAuthHolds(p)
    /\ mailf' = [NoMailf EXCEPT !.conf = TRUE]
    /\ otps' = UsedCode(task[p].proof)
    /\ RecordProof(task[p].proof)
    /\ replaceRecoveryCodes
    /\ finishPreAuthEnrollment(p)
    /\ Leave(p)
    /\ UNCHANGED <<now, acct, totp, resets, seeds, window>>

ConfirmRefused(p) ==
    /\ \/ At(p, "confirm", "totp") /\ ~(lockEnrollmentUser(p) /\ confirmTOTPRow(p) /\ PreAuthHolds(p))
       \/ At(p, "confirm", "mail") /\ ~(lockEnrollmentUser(p) /\ spendEmailFactorEnrollment(p) /\ PreAuthHolds(p))
    /\ Leave(p)
    /\ UNCHANGED <<now, rows, hist>>

-------------------------------------------------------------------------------
(***************************************************************************)
(* What a session may do with a fresh second factor: remove a factor,      *)
(* replace the recovery codes, set a first password, link an identity.     *)
(***************************************************************************)

\* The e-mail handler reads the epoch with the password and the user, whom the
\* policy is asked about, afterwards; the other handlers read both at once.
StepUpBegin(p, op, s) ==
    /\ op \in Ops /\ FreeHand(p) /\ SignedIn(s)
    /\ op \in {"removeTOTP", "removeMail", "regenerate", "link"} => acct.pw
    /\ op = "setPassword" => ~acct.pw
    /\ op = "removeTOTP" => mayRemoveFactor("totp")
    /\ task' = [task EXCEPT ![p] = Request(op, IF op = "removeMail" THEN "policy" ELSE "proof",
                                         0, s, acct.epoch, NoProof, HasSecondFactor)]
    /\ UNCHANGED <<now, rows, hist>>

RemoveMailPolicy(p) ==
    /\ At(p, "removeMail", "policy")
    /\ IF mayRemoveFactor("mail") THEN Goto(p, "proof") ELSE Leave(p)
    /\ UNCHANGED <<now, rows, hist>>

StepUpOps == {"removeTOTP", "removeMail", "regenerate", "setPassword", "link"}

\* withStepUp: the proof is looked up now and spent by the transaction.  A first
\* password needs one only if the account had a factor when the user was read (flag).
StepUpProof(p) ==
    /\ \E op \in StepUpOps : At(p, op, "proof")
    /\ \E x \in Presented :
          IF tryStepUpProof(x) \/ (task[p].op = "setPassword" /\ ~task[p].flag /\ x = NoProof)
          THEN task' = [task EXCEPT ![p].pc = "commit", ![p].proof = x]
          ELSE Leave(p)
    /\ UNCHANGED <<now, rows, hist>>

\* lockUserWithPasswordAndProof, and DisableEmailFactor's own lock.
StepUpAnyEpoch(p) == acct.active
StepUpEpoch(p)    == AtEpoch(task[p].ver)
StepUpPays(p) ==
    /\ StepUpEpoch(p) /\ signed[task[p].sid].live
    /\ SpendableAtStepUp(task[p].proof)

SpendProof(x) == otps' = UsedCode(x) /\ RecordProof(x)

\* disableFactorTx: the codes go with the last confirmed factor.
LastFactorNever(kind) == FALSE
LastFactor(kind)     == IF kind = "totp" THEN ~mailf.conf ELSE ~totp.conf
RecovAfter(kind, x)  == IF LastFactor(kind) THEN {} ELSE UsedRecov(x)
FactorRow(kind)      == IF kind = "totp" THEN totp # NoTOTP ELSE mailf # NoMailf

DisableTOTP(p) ==
    /\ At(p, "removeTOTP", "commit")
    /\ StepUpPays(p) /\ acct.pw /\ FactorRow("totp")
    /\ acct.epoch < MaxEpoch
    /\ SpendProof(task[p].proof)
    /\ totp' = NoTOTP
    /\ recov' = RecovAfter("totp", task[p].proof)
    /\ acct' = Bumped(acct)
    /\ signed' = RevokeOthers(task[p].sid)
    /\ window' = WindowShut
    /\ Leave(p)
    /\ UNCHANGED <<now, mailf, sets, chals, resets, seeds>>

WithoutCodes(kinds, x) ==
    [i \in DOMAIN otps |-> IF otps[i].kind \in kinds THEN [otps[i] EXCEPT !.kind = "gone"]
                           ELSE UsedCode(x)[i]]
DisableEmailFactor(p) ==
    /\ At(p, "removeMail", "commit")
    /\ StepUpPays(p) /\ FactorRow("mail")
    /\ acct.epoch < MaxEpoch
    /\ mailf' = NoMailf
    /\ otps' = WithoutCodes({"enroll", "stepup"}, task[p].proof)
    /\ totp' = UsedTOTP(task[p].proof)
    /\ RecordProof(task[p].proof)
    /\ recov' = RecovAfter("mail", task[p].proof)
    /\ acct' = Bumped(acct)
    /\ signed' = RevokeOthers(task[p].sid)
    /\ window' = WindowShut
    /\ Leave(p)
    /\ UNCHANGED <<now, sets, chals, resets, seeds>>

RegenerateRecoveryCodes(p) ==
    /\ At(p, "regenerate", "commit")
    /\ StepUpPays(p) /\ acct.pw
    /\ SpendProof(task[p].proof)
    /\ totp' = UsedTOTP(task[p].proof)
    /\ replaceRecoveryCodes
    /\ Leave(p)
    /\ UNCHANGED <<now, acct, mailf, chals, signed, resets, seeds, window>>

\* Repository.SetPassword: refused once a password exists.
PasswordSettable(p) ==
    /\ StepUpEpoch(p) /\ signed[task[p].sid].live /\ ~acct.pw
    /\ HasSecondFactor => SpendableAtStepUp(task[p].proof)
SetFirstPassword(p) ==
    /\ At(p, "setPassword", "commit")
    /\ PasswordSettable(p)
    /\ acct.epoch < MaxEpoch
    /\ acct' = [Bumped(acct) EXCEPT !.pw = TRUE]
    /\ signed' = RevokeOthers(task[p].sid)
    /\ window' = WindowShut
    /\ IF task[p].proof = NoProof THEN UNCHANGED <<totp, otps, recov, spent>>
       ELSE /\ SpendProof(task[p].proof)
            /\ totp' = UsedTOTP(task[p].proof)
            /\ recov' = UsedRecov(task[p].proof)
    /\ Leave(p)
    /\ UNCHANGED <<now, mailf, sets, chals, resets, seeds>>

\* ConsumeSecondFactor, for the link of an identity: no account lock.
ConsumeSecondFactor(p) ==
    /\ At(p, "link", "commit")
    /\ SpendableAtStepUp(task[p].proof)
    /\ SpendProof(task[p].proof)
    /\ totp' = UsedTOTP(task[p].proof)
    /\ recov' = UsedRecov(task[p].proof)
    /\ Leave(p)
    /\ UNCHANGED <<now, acct, mailf, sets, chals, signed, resets, seeds, window>>

StepUpRefused(p) ==
    /\ \/ At(p, "removeTOTP", "commit") /\ ~(StepUpPays(p) /\ acct.pw /\ FactorRow("totp"))
       \/ At(p, "removeMail", "commit") /\ ~(StepUpPays(p) /\ FactorRow("mail"))
       \/ At(p, "regenerate", "commit") /\ ~(StepUpPays(p) /\ acct.pw)
       \/ At(p, "setPassword", "commit") /\ ~PasswordSettable(p)
       \/ At(p, "link", "commit") /\ ~SpendableAtStepUp(task[p].proof)
    /\ Leave(p)
    /\ UNCHANGED <<now, rows, hist>>

\* SendStepUpEmailOTP and CreateStepUpEmailOTP.
StepUpSendBegin(p, s) ==
    /\ "stepupMail" \in Ops /\ FreeHand(p) /\ SignedIn(s) /\ mailf.conf
    /\ task' = [task EXCEPT ![p] = Request("stepupMail", "mint", 0, s, acct.epoch, NoProof, FALSE)]
    /\ UNCHANGED <<now, rows, hist>>

MayMintStepUp(p) ==
    /\ AtEpoch(task[p].ver) /\ signed[task[p].sid].live
    /\ mailf.conf /\ ~Recent(OfPurpose("stepup"))
CreateStepUpEmailOTP(p) ==
    /\ At(p, "stepupMail", "mint")
    /\ IF MayMintStepUp(p) THEN MintCode("stepup", 0) ELSE UNCHANGED otps
    /\ Leave(p)
    /\ UNCHANGED <<now, acct, totp, mailf, recov, sets, chals, signed, resets, seeds, hist>>

-------------------------------------------------------------------------------
(***************************************************************************)
(* The mailbox, the administrator, the sweeper and the clock.              *)
(***************************************************************************)

CreateEmailVerification ==
    /\ "address" \in Ops
    /\ ~acct.verified /\ ~Recent(OfPurpose("address"))
    /\ MintCode("address", 0)
    /\ UNCHANGED <<now, acct, totp, mailf, recov, sets, chals, signed, resets, seeds, task, hist>>

ConsumeEmailVerification(i) ==
    /\ "address" \in Ops
    /\ CodeLive(i, "address")
    /\ otps' = [otps EXCEPT ![i].used = TRUE]
    /\ acct' = [acct EXCEPT !.verified = TRUE]
    /\ UNCHANGED <<now, totp, mailf, recov, sets, chals, signed, resets, seeds, task, hist>>

\* An administrator disables or enables the account; disabling bumps the epoch
\* and revokes every session.
SetStatus ==
    /\ "status" \in Ops
    /\ acct.active => acct.epoch < MaxEpoch
    /\ acct' = IF acct.active THEN [Bumped(acct) EXCEPT !.active = FALSE]
               ELSE [acct EXCEPT !.active = TRUE]
    /\ signed' = IF acct.active THEN RevokeOthers(0) ELSE signed
    /\ window' = IF acct.active THEN WindowShut ELSE window
    /\ UNCHANGED <<now, totp, mailf, recov, sets, otps, chals, resets, seeds, task, spent>>

Old(row) == row.exp < now - Retain
SweepTwoFactor ==
    /\ "sweep" \in Ops
    /\ chals' = [c \in DOMAIN chals |-> IF Old(chals[c])
                                        THEN [chals[c] EXCEPT !.purpose = "gone", !.used = TRUE]
                                        ELSE chals[c]]
    /\ otps' = [i \in DOMAIN otps |-> IF Old(otps[i])
                                      THEN [otps[i] EXCEPT !.kind = "gone", !.ch = 0] ELSE otps[i]]
    /\ resets' = [i \in DOMAIN resets |-> IF Old(resets[i])
                                          THEN [resets[i] EXCEPT !.used = TRUE] ELSE resets[i]]
    /\ UNCHANGED <<now, acct, totp, mailf, recov, sets, signed, seeds, task, hist>>

Tick == now < MaxTime /\ now' = now + 1 /\ UNCHANGED <<rows, task, hist>>

-------------------------------------------------------------------------------
FactorsInit ==
    /\ now = 0
    /\ \E x \in FactorScenarios :
          /\ acct = [active |-> TRUE, epoch |-> 0, pw |-> x.pw, verified |-> x.pw,
                     ops |-> x.ops, mandatory |-> x.mandatory, most |-> x.most]
          /\ totp = IF "totp" \in x.enrolled THEN [NoTOTP EXCEPT !.seed = 1, !.conf = TRUE] ELSE NoTOTP
          /\ mailf = IF "mail" \in x.enrolled THEN [NoMailf EXCEPT !.conf = TRUE] ELSE NoMailf
          /\ recov = IF x.enrolled = {} THEN {} ELSE {1}
          /\ sets = IF x.enrolled = {} THEN 0 ELSE 1
          /\ signed = IF ~x.session THEN <<>>
                    ELSE <<[live |-> TRUE, born |-> 0, at |-> 0, second |-> "none",
                            proven |-> FALSE]>>
    /\ seeds = 1
    /\ otps = <<>> /\ chals = <<>> /\ resets = <<>>
    /\ task = [p \in Hands |-> NoTask]
    /\ spent = <<>>
    /\ window = WindowShut

SignIn(p) ==
    \/ LoginBegin(p) \/ LoginIssue(p) \/ LoginChallenge(p) \/ LoginRefused(p)
    \/ \E t \in DOMAIN resets : ConsumePasswordReset(p, t)
    \/ \E c \in DOMAIN chals : VerifyBegin(p, c) \/ SendBegin(p, c)
    \/ VerifyBump(p) \/ VerifyProof(p) \/ Complete2FA(p) \/ VerifyRefused(p)
    \/ ConsumeChallenge(p) \/ CreateChallengeEmailOTP(p) \/ SendRefused(p)

Enroll(p) ==
    \/ \E s \in DOMAIN signed, kind \in {"totp", "mail"} : StartBegin(p, kind, s, 0)
    \/ \E c \in DOMAIN chals, kind \in {"totp", "mail"} : StartBegin(p, kind, 0, c)
    \/ \E s \in DOMAIN signed : ConfirmTOTPBegin(p, s, 0) \/ ConfirmEmailBegin(p, s, 0)
    \/ \E c \in DOMAIN chals : ConfirmTOTPBegin(p, 0, c) \/ ConfirmEmailBegin(p, 0, c)
    \/ StartTOTPEnrollment(p) \/ StartEmailFactorEnrollment(p) \/ StartRefused(p)
    \/ CompleteTOTPEnrollment(p) \/ CompleteEmailFactorEnrollment(p) \/ ConfirmRefused(p)

StepUp(p) ==
    \/ \E s \in DOMAIN signed : StepUpSendBegin(p, s) \/ \E op \in StepUpOps : StepUpBegin(p, op, s)
    \/ RemoveMailPolicy(p) \/ StepUpProof(p) \/ DisableTOTP(p) \/ DisableEmailFactor(p)
    \/ RegenerateRecoveryCodes(p) \/ SetFirstPassword(p) \/ ConsumeSecondFactor(p)
    \/ StepUpRefused(p) \/ CreateStepUpEmailOTP(p)

FactorsNext ==
    \/ \E p \in Hands : SignIn(p) \/ Enroll(p) \/ StepUp(p)
    \/ \E byAdmin \in BOOLEAN : CreatePasswordReset(byAdmin)
    \/ CreateEmailVerification
    \/ \E i \in DOMAIN otps : ConsumeEmailVerification(i)
    \/ SetStatus
    \/ SweepTwoFactor
    \/ Tick

FactorsSpec == FactorsInit /\ [][FactorsNext]_factorVars

-------------------------------------------------------------------------------
\* A sign-in window lasts TTL from the first challenge of the account.  Whatever
\* signs in again, mails again or guesses in parallel meanwhile, at most
\* MaxAttempts codes are tried and MaxSends codes mailed in it: a new challenge
\* continues the old one's budget (repository_2fa.go, CreateChallenge) and a guess is
\* reserved by one conditional UPDATE (BumpChallengeAttempt).
LoginBudget == window.guesses <= MaxAttempts /\ window.sends <= MaxSends

\* No proof is accepted twice, whether it pays for a sign-in, an enrollment, a
\* step-up or a link, and whichever of two requests read it first.
ProofsSpentOnce ==
    \A i, j \in DOMAIN spent : spent[i] = spent[j] => i = j

\* A sign-in window that began with a reset link, which proves the mailbox, is
\* never completed with a code mailed to the same mailbox, not even after signing
\* in again with the new password (mailbox_already_proven).
MailboxNotTwice ==
    \A s \in DOMAIN signed : ~(signed[s].second = "mail" /\ signed[s].proven)

\* An administrator who must keep a second factor never loses the last one that counts,
\* not when both factors are removed at the same time: the policy is asked about a
\* user read earlier (DisableTOTP, DisableEmailFactor) and only the epoch in the
\* transaction makes that reading safe.
MandatoryFactorStays ==
    [][Mandatory /\ HasConfirmedSecondFactor => HasConfirmedSecondFactor']_factorVars

\* Recovery codes never outlive the last confirmed factor: they would keep on
\* answering step-ups of an account that has no second factor.
NoOrphanRecovery == recov # {} => HasSecondFactor

\* A session opens in the epoch in which its first factor was proved: a pending
\* sign-in or enrollment dies with the epoch, whatever it had read before.
SessionBornInEpoch == \A s \in DOMAIN signed : signed[s].born = signed[s].at

\* What a sign-in window admits: bounded guesses and mails, every proof once, and no mailbox
\* for both steps.
GuessesBounded == LoginBudget /\ ProofsSpentOnce /\ MailboxNotTwice

\* What a change of factors leaves behind: no orphaned codes, no session of an older epoch, and
\* no administrator without the factor the policy demands.
FactorsSound == [](NoOrphanRecovery /\ SessionBornInEpoch) /\ MandatoryFactorStays
===============================================================================

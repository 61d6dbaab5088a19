--------------------------- MODULE AuthFactorsProofs ---------------------------
(***************************************************************************)
(* Proofs about AuthFactors, for any number of requests, codes and         *)
(* challenges, and any scenario.                                           *)
(*                                                                         *)
(* A handler reads, decides and commits later, so what it read may be out  *)
(* of date.  The invariant says what a request in flight may still rely    *)
(* on: what never changes (a challenge's epoch and mailbox mark), and what *)
(* changes only with the epoch (a confirmed factor), which the commit      *)
(* compares.  The budget of a sign-in window is that of the one challenge  *)
(* that is alive in it.                                                    *)
(***************************************************************************)
EXTENDS AuthFactors, TLAPS

Proofs     == [kind : {"none", "totp", "mail", "recovery"}, n : Nat, seed : Nat]
SignInPcs  == {"none", PurposeTOTP, PurposeEnroll}
VerifyPcs  == {"bump", "proof", "complete", "drop"}
FactorPcs  == {"totp", "mail"}
StepUpPcs  == {"policy", "proof", "commit"}
AllOps     == {"login", "verify", "send", "start", "confirm", "stepupMail"} \cup StepUpOps
Requests   == [op : AllOps, pc : SignInPcs \cup VerifyPcs \cup FactorPcs \cup StepUpPcs \cup {"mint"},
               ch : Nat, sid : Nat, ver : Nat, proof : Proofs, flag : BOOLEAN]
Challenges == [purpose : {PurposeTOTP, PurposeEnroll, "gone"}, ver : Nat, att : Nat, sends : Nat,
               proven : BOOLEAN, exp : Nat, used : BOOLEAN]
Codes      == [kind : {"login", "enroll", "stepup", "address", "gone"}, ch : Nat, at : Nat,
               exp : Nat, used : BOOLEAN]
Opened     == [live : BOOLEAN, born : Nat, at : Nat,
               second : {"none", "enrolled", "totp", "mail", "recovery"}, proven : BOOLEAN]
Links      == [ver : Nat, exp : Nat, used : BOOLEAN]
Accts      == [active : BOOLEAN, epoch : Nat, pw : BOOLEAN, verified : BOOLEAN,
               ops : SUBSET STRING, mandatory : BOOLEAN,
               most : [time : Nat, challenges : Nat, codes : Nat, epoch : Nat, sets : Nat]]
Vers       == Nat \cup {NoVer}
TOTPRows   == [seed : Nat, conf : BOOLEAN, ver : Vers, sid : Nat, last : Vers]
MailRows   == [conf : BOOLEAN, ver : Vers, sid : Nat]
Windows    == [until : Nat, guesses : Nat, sends : Nat, proven : BOOLEAN]
Tasks      == {NoTask} \cup Requests

FTyped ==
    /\ now \in Nat /\ sets \in Nat /\ seeds \in Nat
    /\ acct \in Accts
    /\ totp \in TOTPRows
    /\ mailf \in MailRows
    /\ recov \subseteq Nat
    /\ otps \in Seq(Codes) /\ chals \in Seq(Challenges) /\ signed \in Seq(Opened)
    /\ resets \in Seq(Links) /\ spent \in Seq(Proofs)
    /\ task \in [Hands -> Tasks]
    /\ window \in Windows

\* A challenge of a sign-in that can still be answered, the account being active.
Answerable(c) == chals[c].purpose = PurposeTOTP /\ chals[c].ver = acct.epoch /\ Unspent(c)

\* No two challenges of one purpose and epoch are unspent; none is of a later epoch, or of the
\* present one while the account is disabled; a swept one is spent.
ChallengesApart ==
    /\ \A c, d \in DOMAIN chals :
          Unspent(c) /\ Unspent(d) /\ chals[c].purpose = chals[d].purpose
            /\ chals[c].ver = chals[d].ver => c = d
    /\ \A c \in DOMAIN chals : /\ chals[c].ver <= acct.epoch
                               /\ chals[c].ver = acct.epoch => acct.active
                               /\ chals[c].purpose = "gone" => chals[c].used

\* The sign-in window is that of the challenge that can be answered, and it lasts as long.
WindowMatches ==
    /\ LoginBudget
    /\ \A c \in DOMAIN chals : Answerable(c) =>
          /\ chals[c].att = window.guesses /\ chals[c].sends = window.sends
          /\ chals[c].proven = window.proven /\ chals[c].exp = window.until
    /\ now < window.until => \E c \in DOMAIN chals : Answerable(c)

\* A mailed sign-in code belongs to a challenge that the mailbox did not open, and a mailed
\* step-up code to an account with the e-mail factor.
CodesApart ==
    \A i \in DOMAIN otps : ~otps[i].used =>
        /\ otps[i].kind = "login" => otps[i].ch \in DOMAIN chals /\ ~chals[otps[i].ch].proven
        /\ otps[i].kind = "stepup" => mailf.conf

\* A proof that cannot be accepted again.
Burnt(x) ==
    \/ x.kind = "totp" /\ x.seed \in 1..seeds /\ (totp.seed = x.seed => x.n <= totp.last)
    \/ x.kind = "mail" /\ x.n \in DOMAIN otps /\ (otps[x.n].used \/ otps[x.n].kind = "gone")
    \/ x.kind = "recovery" /\ x.n \in 1..sets /\ x.n \notin recov

ProofsBurn ==
    /\ ProofsSpentOnce
    /\ \A i \in DOMAIN spent : Burnt(spent[i])
    /\ recov \subseteq 1..sets
    /\ totp.seed <= seeds /\ (~totp.conf => totp.last = NoVer) /\ (totp.conf => totp.seed # 0)

\* What the policy that was asked about a removal knows, while the epoch is the same.
PolicyHolds(op) ==
    Mandatory => /\ op = "removeTOTP" => ~TOTPOnly /\ mailf.conf
                 /\ op = "removeMail" => TOTPOnly \/ totp.conf

\* What a request in flight may rely on.
Knows(t) ==
    /\ t.ver <= acct.epoch
    /\ t.ch # 0 => t.ch \in DOMAIN chals /\ chals[t.ch].ver = t.ver
    /\ t.op \in {"verify", "send"} => t.ch # 0 /\ chals[t.ch].purpose \in {PurposeTOTP, "gone"}
    /\ t.op \in {"start", "confirm"} /\ t.ch # 0 => chals[t.ch].purpose \in {PurposeEnroll, "gone"}
    /\ t.op = "verify" /\ t.pc = "drop" => t.ver < acct.epoch
    /\ t.op = "send" => ~chals[t.ch].proven
    /\ t.op = "confirm" => t.proof.kind = t.pc /\ (t.pc = "totp" => t.proof.seed # 0)
    /\ t.op = "login" => t.pc \in SignInPcs
    /\ t.op \in {"removeTOTP", "removeMail"} /\ t.pc # "policy" /\ t.ver = acct.epoch =>
          PolicyHolds(t.op)
    /\ t.op = "setPassword" /\ t.proof # NoProof /\ t.ver = acct.epoch => HasSecondFactor

TasksKnow == \A p \in Hands : task[p] # NoTask => Knows(task[p])

\* The inductive invariant.
FInv ==
    /\ FTyped /\ ChallengesApart /\ WindowMatches /\ CodesApart /\ ProofsBurn
    /\ NoOrphanRecovery /\ SessionBornInEpoch /\ MailboxNotTwice
    /\ TasksKnow

-------------------------------------------------------------------------------
(***************************************************************************)
(* Sequences.                                                              *)
(***************************************************************************)

\* A function over the positions of a sequence is a sequence of the same length (the rows of a
\* table after an UPDATE).
LEMMA SeqMap ==
    ASSUME NEW S, NEW s \in Seq(S), NEW f, f = [i \in DOMAIN f |-> f[i]], DOMAIN f = DOMAIN s,
           \A i \in DOMAIN s : f[i] \in S
    PROVE  f \in Seq(S) /\ Len(f) = Len(s)
<1>1. s \in [1..Len(s) -> S] /\ Len(s) \in Nat /\ DOMAIN s = 1..Len(s)
  OBVIOUS
<1>2. f \in [1..Len(s) -> S]
  BY <1>1
<1> QED
  BY <1>1, <1>2

\* What an INSERT does to the positions of a table.
LEMMA AppendAt ==
    ASSUME NEW S, NEW s \in Seq(S), NEW e \in S
    PROVE  /\ Append(s, e) \in Seq(S)
           /\ Len(s) \in Nat /\ DOMAIN s = 1..Len(s)
           /\ DOMAIN Append(s, e) = 1..(Len(s) + 1)
           /\ \A i \in DOMAIN s : Append(s, e)[i] = s[i]
           /\ Append(s, e)[Len(s) + 1] = e
  OBVIOUS

-------------------------------------------------------------------------------
(***************************************************************************)
(* What a step may do to what the requests in flight have read.            *)
(***************************************************************************)

\* The types the steps below need, one by one.
Flat ==
    /\ now \in Nat /\ sets \in Nat /\ seeds \in Nat
    /\ acct.epoch \in Nat /\ acct.active \in BOOLEAN /\ acct.mandatory \in BOOLEAN
    /\ totp.seed \in Nat /\ totp.last \in Int /\ totp.last >= -1 /\ totp.conf \in BOOLEAN
    /\ mailf.conf \in BOOLEAN
    /\ recov \subseteq Nat
    /\ window.until \in Nat /\ window.guesses \in Nat /\ window.sends \in Nat
    /\ window.proven \in BOOLEAN

\* The types, read off the state.
LEMMA FlatTypes == FTyped => Flat
<1> SUFFICES ASSUME FTyped PROVE Flat
  OBVIOUS
<1>1. now \in Nat /\ sets \in Nat /\ seeds \in Nat /\ recov \subseteq Nat
  BY DEF FTyped
<1>2. acct.epoch \in Nat /\ acct.active \in BOOLEAN /\ acct.mandatory \in BOOLEAN
  BY DEF FTyped, Accts
<1>3. totp.seed \in Nat /\ totp.last \in Int /\ totp.last >= -1 /\ totp.conf \in BOOLEAN
  BY DEF FTyped, TOTPRows, Vers, NoVer
<1>4. mailf.conf \in BOOLEAN
  BY DEF FTyped, MailRows
<1>5. /\ window.until \in Nat /\ window.guesses \in Nat /\ window.sends \in Nat
      /\ window.proven \in BOOLEAN
  BY DEF FTyped, Windows
<1> QED
  BY <1>1, <1>2, <1>3, <1>4, <1>5 DEF Flat

\* The same, of the next state.
LEMMA FlatTypesNext == FTyped' => Flat'
BY FlatTypes, PTL

\* Challenges are spent and swept, and keep their epoch, deadline and mailbox mark.
ChalsKeep ==
    /\ DOMAIN chals \subseteq DOMAIN chals'
    /\ \A c \in DOMAIN chals :
          /\ chals'[c].ver = chals[c].ver /\ chals'[c].exp = chals[c].exp
          /\ chals'[c].proven = chals[c].proven
          /\ chals'[c].purpose \in {chals[c].purpose, "gone"}
          /\ chals[c].used => chals'[c].used
          /\ chals'[c].purpose = "gone" => chals'[c].used

\* Codes are used and swept, and a code that is neither stays with its challenge.
CodesKeep ==
    /\ DOMAIN otps \subseteq DOMAIN otps'
    /\ \A i \in DOMAIN otps :
          /\ otps'[i].kind \in {otps[i].kind, "gone"}
          /\ otps[i].used => otps'[i].used
          /\ ~otps'[i].used /\ otps'[i].kind # "gone" => otps'[i].ch = otps[i].ch

\* A counter only advances on one secret, and no secret or recovery set comes back.
ProofsKeep ==
    /\ CodesKeep
    /\ seeds <= seeds' /\ sets <= sets'
    /\ recov' \cap (1..sets) \subseteq recov
    /\ \/ totp'.seed = totp.seed /\ totp.last <= totp'.last
       \/ totp'.seed = 0
       \/ seeds < totp'.seed

\* A confirmed factor stays, or the epoch moves.
FactorsKeep ==
    /\ acct'.mandatory = acct.mandatory
    /\ \/ /\ acct'.epoch = acct.epoch
          /\ totp.conf => totp'.conf
          /\ mailf.conf => mailf'.conf
       \/ acct.epoch < acct'.epoch

\* A proof that was spent stays spent.
LEMMA BurntStays ==
    ASSUME FTyped, ProofsKeep, NEW x \in Proofs, Burnt(x), FTyped'
    PROVE  Burnt(x)'
<1>0. Flat /\ Flat' /\ x.n \in Nat /\ x.seed \in Nat
  BY FlatTypes, FlatTypesNext DEF Proofs
<1>1. CASE x.kind = "totp"
  <2>1. x.seed \in 1..seeds /\ (totp.seed = x.seed => x.n <= totp.last)
    BY <1>1 DEF Burnt
  <2>2. x.seed \in 1..seeds'
    BY <2>1, <1>0 DEF ProofsKeep, Flat
  <2>3. totp'.seed = x.seed => x.n <= totp'.last
    BY <2>1, <1>0 DEF ProofsKeep, Flat
  <2> QED
    BY <1>1, <2>2, <2>3 DEF Burnt
<1>2. CASE x.kind = "mail"
  <2>1. x.n \in DOMAIN otps /\ (otps[x.n].used \/ otps[x.n].kind = "gone")
    BY <1>2 DEF Burnt
  <2> QED
    BY <1>2, <2>1 DEF Burnt, ProofsKeep, CodesKeep
<1>3. CASE x.kind = "recovery"
  <2>1. x.n \in 1..sets /\ x.n \notin recov
    BY <1>3 DEF Burnt
  <2>2. x.n \in 1..sets' /\ x.n \notin recov'
    BY <2>1, <1>0 DEF ProofsKeep, Flat
  <2> QED
    BY <1>3, <2>2 DEF Burnt
<1> QED
  BY <1>1, <1>2, <1>3 DEF Burnt

\* No new proof: those on record stay burnt.
LEMMA SpentStays ==
    ASSUME FTyped, FTyped', ProofsBurn, ProofsKeep, UNCHANGED spent
    PROVE  ProofsSpentOnce' /\ (\A i \in DOMAIN spent : Burnt(spent[i]))'
<1>1. ProofsSpentOnce'
  BY DEF ProofsBurn, ProofsSpentOnce
<1>3. spent \in Seq(Proofs)
  BY DEF FTyped
<1>2. ASSUME NEW i \in DOMAIN spent' PROVE Burnt(spent[i])'
  <2>1. spent'[i] = spent[i] /\ i \in DOMAIN spent
    BY <1>2
  <2>2. Burnt(spent[i]) /\ spent[i] \in Proofs
    BY <2>1, <1>3 DEF ProofsBurn
  <2>3. PICK y \in Proofs : y = spent[i]
    BY <2>2
  <2>4. Burnt(y)'
    BY <2>2, <2>3, BurntStays
  <2> QED
    BY <2>1, <2>3, <2>4 DEF Burnt
<1> QED
  BY <1>1, <1>2

\* A proof that was not burnt, and is now, is a new one.
LEMMA SpentGrows ==
    ASSUME FTyped, FTyped', ProofsBurn, ProofsKeep,
           NEW x \in Proofs, spent' = Append(spent, x), ~Burnt(x), Burnt(x)'
    PROVE  ProofsSpentOnce' /\ (\A i \in DOMAIN spent : Burnt(spent[i]))'
<1>0. spent \in Seq(Proofs)
  BY DEF FTyped
<1>1. /\ Len(spent) \in Nat /\ DOMAIN spent = 1..Len(spent)
      /\ DOMAIN spent' = 1..(Len(spent) + 1)
      /\ \A i \in DOMAIN spent : spent'[i] = spent[i]
      /\ spent'[Len(spent) + 1] = x
  BY <1>0, AppendAt
<1>2. \A i \in DOMAIN spent : spent[i] \in Proofs /\ Burnt(spent[i])
  BY <1>0 DEF ProofsBurn
<1>3. ASSUME NEW i \in DOMAIN spent' PROVE Burnt(spent[i])'
  <2>1. PICK y \in Proofs : y = spent'[i]
    BY <1>1, <1>2
  <2>2. Burnt(y)'
    <3>1. CASE i \in DOMAIN spent
      BY <2>1, <3>1, <1>1, <1>2, BurntStays
    <3>2. CASE i = Len(spent) + 1
      BY <2>1, <3>2, <1>1
    <3> QED
      BY <3>1, <3>2, <1>1
  <2> QED
    BY <2>1, <2>2 DEF Burnt
<1>4. \A i, j \in DOMAIN spent : spent[i] = spent[j] => i = j
  BY DEF ProofsBurn, ProofsSpentOnce
<1>5. \A i \in DOMAIN spent : spent[i] # x
  BY <1>2
<1>6. ProofsSpentOnce'
  BY <1>1, <1>4, <1>5 DEF ProofsSpentOnce
<1> QED
  BY <1>3, <1>6

\* What a request knows, it still knows.
LEMMA KnowsStays ==
    ASSUME FTyped, FTyped', ChalsKeep, FactorsKeep, NEW t \in Requests, Knows(t)
    PROVE  Knows(t)'
<1>0. Flat /\ Flat' /\ t.ver \in Nat
  BY FlatTypes, FlatTypesNext DEF Requests
<1>1. /\ acct.epoch \in Nat /\ acct'.epoch \in Nat /\ t.ver \in Nat /\ t.ver <= acct.epoch
      /\ acct.epoch <= acct'.epoch
  BY <1>0 DEF Flat, FactorsKeep, Knows
<1>2. t.ver <= acct'.epoch /\ (t.op = "verify" /\ t.pc = "drop" => t.ver < acct'.epoch)
  BY <1>1 DEF Knows
<1>3. t.ch # 0 => t.ch \in DOMAIN chals' /\ chals'[t.ch].ver = t.ver
  BY DEF Knows, ChalsKeep
<1>4. t.op \in {"verify", "send"} => t.ch # 0 /\ chals'[t.ch].purpose \in {PurposeTOTP, "gone"}
  BY DEF Knows, ChalsKeep
<1>5. t.op \in {"start", "confirm"} /\ t.ch # 0 => chals'[t.ch].purpose \in {PurposeEnroll, "gone"}
  BY DEF Knows, ChalsKeep
<1>6. t.op = "send" => ~chals'[t.ch].proven
  BY DEF Knows, ChalsKeep
<1>7. t.op \in {"removeTOTP", "removeMail"} /\ t.pc # "policy" /\ t.ver = acct'.epoch => PolicyHolds(t.op)'
  BY <1>1 DEF Knows, FactorsKeep, PolicyHolds, Mandatory
<1>8. t.op = "setPassword" /\ t.proof # NoProof /\ t.ver = acct'.epoch => HasSecondFactor'
  BY <1>1 DEF Knows, FactorsKeep, HasSecondFactor
<1>9. (t.op = "confirm" => t.proof.kind = t.pc /\ (t.pc = "totp" => t.proof.seed # 0))
      /\ (t.op = "login" => t.pc \in SignInPcs)
  BY DEF Knows
<1> QED
  BY <1>2, <1>3, <1>4, <1>5, <1>6, <1>7, <1>8, <1>9 DEF Knows

\* The requests in flight, but for the hand that moved: what they knew they still know.
LEMMA TasksKeep ==
    ASSUME FTyped, FTyped', TasksKnow, ChalsKeep, FactorsKeep, NEW p \in Hands, NEW t \in Tasks,
           task' = [task EXCEPT ![p] = t], t # NoTask => Knows(t)'
    PROVE  TasksKnow'
<1>1. task \in [Hands -> Tasks]
  BY DEF FTyped
<1>2. ASSUME NEW q \in Hands, task'[q] # NoTask PROVE Knows(task[q])'
  <2>1. PICK u : u = task'[q]
    OBVIOUS
  <2>2. Knows(u)'
    <3>1. CASE q = p
      BY <1>1, <1>2, <2>1, <3>1
    <3>2. CASE q # p
      <4>1. u = task[q] /\ u # NoTask /\ u \in Requests
        BY <1>1, <1>2, <2>1, <3>2 DEF Tasks
      <4>2. Knows(u)
        BY <4>1 DEF TasksKnow
      <4> QED
        BY <4>1, <4>2, KnowsStays
    <3> QED
      BY <3>1, <3>2
  <2> QED
    BY <2>1, <2>2 DEF Knows
<1> QED
  BY <1>2 DEF TasksKnow

\* And when no request moved.
LEMMA TasksStand ==
    ASSUME FTyped, FTyped', TasksKnow, ChalsKeep, FactorsKeep, UNCHANGED task
    PROVE  TasksKnow'
<1>1. task \in [Hands -> Tasks]
  BY DEF FTyped
<1>2. ASSUME NEW q \in Hands, task'[q] # NoTask PROVE Knows(task[q])'
  <2>1. PICK u : u = task'[q]
    OBVIOUS
  <2>2. u = task[q] /\ u # NoTask /\ u \in Requests
    BY <1>1, <1>2, <2>1 DEF Tasks
  <2>3. Knows(u)
    BY <2>2 DEF TasksKnow
  <2>4. Knows(u)'
    BY <2>2, <2>3, KnowsStays
  <2> QED
    BY <2>1, <2>4 DEF Knows
<1> QED
  BY <1>2 DEF TasksKnow

\* No table changes.
LEMMA ChalsStand ==
    ASSUME ChallengesApart, UNCHANGED chals
    PROVE  ChalsKeep
BY DEF ChalsKeep, ChallengesApart

\* A step that leaves the account and its factors alone.
LEMMA FactorsStand ==
    ASSUME UNCHANGED <<acct, totp, mailf>>
    PROVE  FactorsKeep
BY DEF FactorsKeep

\* A step that leaves what proofs are checked against alone.
LEMMA ProofsStand ==
    ASSUME FTyped, UNCHANGED <<totp, recov, sets, otps, seeds>>
    PROVE  ProofsKeep
<1>1. Flat
  BY FlatTypes
<1> QED
  BY <1>1 DEF ProofsKeep, CodesKeep, Flat

\* A step of one request that only decides, and changes no table: what it learned must be true.
LEMMA HandOnly ==
    ASSUME FInv, NEW p \in Hands, NEW t \in Tasks,
           task' = [task EXCEPT ![p] = t], t # NoTask => Knows(t), UNCHANGED <<now, rows, hist>>
    PROVE  FInv'
<1>0. /\ FTyped /\ ChallengesApart /\ WindowMatches /\ CodesApart /\ ProofsBurn
      /\ NoOrphanRecovery /\ SessionBornInEpoch /\ MailboxNotTwice /\ TasksKnow
  BY DEF FInv
<1>1. /\ UNCHANGED <<now, acct, totp, mailf, recov, sets, otps, chals, signed, resets, seeds>>
      /\ UNCHANGED <<spent, window>>
  BY DEF rows, hist
<1>2. FTyped'
  <2>1. task' \in [Hands -> Tasks]
    BY <1>0 DEF FTyped
  <2> QED
    BY <1>0, <1>1, <2>1 DEF FTyped
<1>3. ChallengesApart' /\ WindowMatches'
  BY <1>0, <1>1 DEF ChallengesApart, WindowMatches, Unspent, Answerable, LoginBudget
<1>4. CodesApart' /\ ProofsBurn'
  BY <1>0, <1>1 DEF CodesApart, ProofsBurn, ProofsSpentOnce, Burnt
<1>5. NoOrphanRecovery' /\ SessionBornInEpoch' /\ MailboxNotTwice'
  BY <1>0, <1>1 DEF NoOrphanRecovery, SessionBornInEpoch, MailboxNotTwice, HasSecondFactor
<1>6. t # NoTask => Knows(t)'
  BY <1>1 DEF Knows, PolicyHolds, HasSecondFactor, Mandatory
<1>7. TasksKnow'
  BY <1>0, <1>1, <1>2, <1>6, ChalsStand, FactorsStand, TasksKeep
<1> QED
  BY <1>2, <1>3, <1>4, <1>5, <1>7 DEF FInv

\* A request that gives up.
LEMMA LeaveOnly ==
    ASSUME FInv, NEW p \in Hands, Leave(p), UNCHANGED <<now, rows, hist>>
    PROVE  FInv'
BY HandOnly DEF Leave, Tasks

\* What may be presented is a proof.
LEMMA PresentedIs ==
    ASSUME FTyped
    PROVE  /\ \A x \in Presented : x \in Proofs
           /\ NoProof \in Proofs
           /\ \A n \in Counters : n \in Nat
<1>1. Flat /\ otps \in Seq(Codes)
  BY FlatTypes DEF FTyped
<1>2. \A n \in Counters : n \in Nat
  BY <1>1 DEF Counters, Flat
<1>3. NoProof \in Proofs
  BY DEF NoProof, Proofs
<1>4. ASSUME NEW x \in [kind : {"totp"}, n : Counters, seed : {totp.seed} \ {0}] PROVE x \in Proofs
  BY <1>1, <1>2, <1>4 DEF Flat, Proofs
<1>5. ASSUME NEW x \in [kind : {"recovery"}, n : 1..sets, seed : {0}] PROVE x \in Proofs
  BY <1>1, <1>5 DEF Flat, Proofs
<1>6. ASSUME NEW x \in [kind : {"mail"}, n : DOMAIN otps, seed : {0}] PROVE x \in Proofs
  BY <1>1, <1>6 DEF Proofs
<1> QED
  BY <1>2, <1>3, <1>4, <1>5, <1>6 DEF Presented

\* The request of a busy hand, and what it knows.
LEMMA Busy ==
    ASSUME FInv, NEW p \in Hands, task[p] # NoTask
    PROVE  /\ task[p] \in Requests /\ Knows(task[p])
           /\ task[p].ver \in Nat /\ task[p].ch \in Nat /\ task[p].sid \in Nat
           /\ task[p].proof \in Proofs /\ task[p].flag \in BOOLEAN
<1>1. task \in [Hands -> Tasks] /\ TasksKnow
  BY DEF FInv, FTyped
<1>2. task[p] \in Requests /\ Knows(task[p])
  BY <1>1 DEF Tasks, TasksKnow
<1> QED
  BY <1>2 DEF Requests

\* A challenge that resolves may be named by a request.
LEMMA Resolved ==
    ASSUME FInv, NEW c, NEW purpose, ResolveChallenge(c, purpose)
    PROVE  /\ c \in DOMAIN chals /\ c \in Nat /\ c # 0
           /\ chals[c].ver \in Nat /\ chals[c].ver = acct.epoch /\ chals[c].purpose = purpose
           /\ chals \in Seq(Challenges) /\ acct.active
<1>1. chals \in Seq(Challenges)
  BY DEF FInv, FTyped
<1>2. c \in DOMAIN chals /\ chals[c].ver = acct.epoch /\ chals[c].purpose = purpose /\ acct.active
  BY DEF ResolveChallenge, Live, AtEpoch
<1>3. chals[c] \in Challenges /\ c \in Nat /\ c # 0
  BY <1>1, <1>2
<1> QED
  BY <1>1, <1>2, <1>3 DEF Challenges

-------------------------------------------------------------------------------
(***************************************************************************)
(* The steps that only read and decide.                                    *)
(***************************************************************************)

\* A sign-in reads the user with its factors.
LEMMA LoginBeginInv ==
    ASSUME FInv, NEW p \in Hands, LoginBegin(p)
    PROVE  FInv'
<1>1. Flat /\ NoProof \in Proofs
  BY FlatTypes, PresentedIs DEF FInv
<1>2. secondFactorPurpose \in SignInPcs
  BY DEF secondFactorPurpose, SignInPcs
<1> DEFINE t == Request("login", secondFactorPurpose, 0, 0, acct.epoch, NoProof, FALSE)
<1>3. /\ t \in Tasks /\ t.op = "login" /\ t.pc \in SignInPcs /\ t.ch = 0 /\ t.ver = acct.epoch
  BY <1>1, <1>2 DEF Flat, AllOps, Request, Requests, Tasks
<1>5. task' = [task EXCEPT ![p] = t] /\ UNCHANGED <<now, rows, hist>>
  BY DEF LoginBegin
<1> HIDE DEF t
<1>4. Knows(t)
  BY <1>1, <1>3 DEF Knows, Flat, StepUpOps
<1> QED
  BY <1>3, <1>4, <1>5, HandOnly

\* A guess reads its challenge.
LEMMA VerifyBeginInv ==
    ASSUME FInv, NEW p \in Hands, NEW c \in DOMAIN chals, VerifyBegin(p, c)
    PROVE  FInv'
<1>1. Flat /\ NoProof \in Proofs
  BY FlatTypes, PresentedIs DEF FInv
<1>2. /\ c \in DOMAIN chals /\ c \in Nat /\ c # 0
      /\ chals[c].ver \in Nat /\ chals[c].ver = acct.epoch /\ chals[c].purpose = PurposeTOTP
  BY Resolved DEF VerifyBegin
<1> DEFINE t == Request("verify", "bump", c, 0, chals[c].ver, NoProof, FALSE)
<1>3. t \in Tasks /\ t.op = "verify" /\ t.pc = "bump" /\ t.ch = c /\ t.ver = chals[c].ver
  BY <1>1, <1>2 DEF AllOps, VerifyPcs, Request, Requests, Tasks
<1>5. task' = [task EXCEPT ![p] = t] /\ UNCHANGED <<now, rows, hist>>
  BY DEF VerifyBegin
<1> HIDE DEF t
<1>4. Knows(t)
  BY <1>1, <1>2, <1>3 DEF Knows, Flat, StepUpOps
<1> QED
  BY <1>3, <1>4, <1>5, HandOnly

\* So does the request for a mailed code, whose challenge the mailbox must not have opened.
LEMMA SendBeginInv ==
    ASSUME FInv, NEW p \in Hands, NEW c \in DOMAIN chals, SendBegin(p, c)
    PROVE  FInv'
<1>1. Flat /\ NoProof \in Proofs
  BY FlatTypes, PresentedIs DEF FInv
<1>2. /\ c \in DOMAIN chals /\ c \in Nat /\ c # 0 /\ ~chals[c].proven
      /\ chals[c].ver \in Nat /\ chals[c].ver = acct.epoch /\ chals[c].purpose = PurposeTOTP
  BY Resolved DEF SendBegin, emailFactorAvailable
<1> DEFINE t == Request("send", "mint", c, 0, chals[c].ver, NoProof, FALSE)
<1>3. t \in Tasks /\ t.op = "send" /\ t.pc = "mint" /\ t.ch = c /\ t.ver = chals[c].ver
  BY <1>1, <1>2 DEF AllOps, VerifyPcs, Request, Requests, Tasks
<1>5. task' = [task EXCEPT ![p] = t] /\ UNCHANGED <<now, rows, hist>>
  BY DEF SendBegin
<1> HIDE DEF t
<1>4. Knows(t)
  BY <1>1, <1>2, <1>3 DEF Knows, Flat, StepUpOps
<1> QED
  BY <1>3, <1>4, <1>5, HandOnly

\* A guess is looked at: the request keeps its challenge.
LEMMA VerifyProofInv ==
    ASSUME FInv, NEW p \in Hands, VerifyProof(p)
    PROVE  FInv'
<1>1. Flat /\ (\A x \in Presented : x \in Proofs) /\ NoProof \in Proofs
  BY FlatTypes, PresentedIs DEF FInv
<1>2. /\ task[p] \in Requests /\ Knows(task[p]) /\ task[p].op = "verify" /\ task[p].pc = "proof"
      /\ UNCHANGED <<now, rows, hist>> /\ task \in [Hands -> Tasks]
  BY Busy DEF VerifyProof, At, FInv, FTyped
<1>3. ASSUME NEW x \in Presented, acct.active,
             task' = [task EXCEPT ![p].pc = "complete", ![p].proof = challengeProof(x)]
      PROVE  FInv'
  <2>1. challengeProof(x) \in Proofs
    BY <1>1 DEF challengeProof
  <2> DEFINE t == [task[p] EXCEPT !.pc = "complete", !.proof = challengeProof(x)]
  <2>2. task' = [task EXCEPT ![p] = t]
    BY <1>2, <1>3
  <2>3. t \in Requests
    BY <1>2, <2>1 DEF Requests, VerifyPcs
  <2>4. Knows(t)
    BY <1>2 DEF Knows, Requests
  <2> HIDE DEF t
  <2> QED
    BY <1>2, <2>2, <2>3, <2>4, HandOnly DEF Tasks
<1>4. ASSUME ~acct.active, Goto(p, "drop") PROVE FInv'
  <2> DEFINE t == [task[p] EXCEPT !.pc = "drop"]
  <2>1. task' = [task EXCEPT ![p] = t]
    BY <1>2, <1>4 DEF Goto
  <2>2. t \in Requests
    BY <1>2 DEF Requests, VerifyPcs
  <2>3. task[p].ver < acct.epoch
    <3>1. chals[task[p].ch].ver = task[p].ver /\ task[p].ch \in DOMAIN chals
      BY <1>2 DEF Knows
    <3>2. chals[task[p].ch].ver # acct.epoch /\ task[p].ver <= acct.epoch /\ task[p].ver \in Nat
      BY <1>2, <1>4, <3>1 DEF FInv, ChallengesApart, Knows, Requests
    <3> QED
      BY <1>1, <3>1, <3>2 DEF Flat
  <2>4. Knows(t)
    BY <1>2, <2>3 DEF Knows, Requests
  <2> HIDE DEF t
  <2> QED
    BY <1>2, <2>1, <2>2, <2>4, HandOnly DEF Tasks
<1> QED
  BY <1>3, <1>4 DEF VerifyProof

\* Who may enroll, and what the request reads with it.
LEMMA PrincipalIs ==
    ASSUME FInv, NEW p \in Hands, NEW op \in {"start", "confirm"}, NEW pc \in FactorPcs, NEW s \in Nat,
           NEW c \in Nat, NEW x \in Proofs, NEW flag \in BOOLEAN, Principal(p, op, pc, s, c, x, flag),
           op = "confirm" => x.kind = pc /\ (pc = "totp" => x.seed # 0)
    PROVE  /\ c # 0 => s = 0 /\ ResolveChallenge(c, PurposeEnroll)
           /\ \E t \in Requests : task' = [task EXCEPT ![p] = t] /\ Knows(t)
<1>0. Flat
  BY FlatTypes DEF FInv
<1>1. CASE SignedIn(s) /\ c = 0 /\ task' = [task EXCEPT ![p] = Request(op, pc, 0, s, acct.epoch, x, flag)]
  <2> DEFINE t == Request(op, pc, 0, s, acct.epoch, x, flag)
  <2>1. /\ t \in Requests /\ t.op = op /\ t.pc = pc /\ t.ch = 0 /\ t.ver = acct.epoch
        /\ t.proof = x
    BY <1>0 DEF Flat, AllOps, Request, Requests
  <2>3. task' = [task EXCEPT ![p] = t]
    BY <1>1
  <2> HIDE DEF t
  <2>2. Knows(t)
    BY <1>0, <2>1 DEF Knows, Flat, StepUpOps
  <2> QED
    BY <1>1, <2>1, <2>2, <2>3
<1>2. CASE s = 0 /\ ResolveChallenge(c, PurposeEnroll)
           /\ task' = [task EXCEPT ![p] = Request(op, pc, c, 0, chals[c].ver, x, flag)]
  <2>0. /\ c \in DOMAIN chals /\ c # 0 /\ chals[c].ver \in Nat /\ chals[c].ver = acct.epoch
        /\ chals[c].purpose = PurposeEnroll
    BY <1>2, Resolved
  <2> DEFINE t == Request(op, pc, c, 0, chals[c].ver, x, flag)
  <2>1. /\ t \in Requests /\ t.op = op /\ t.pc = pc /\ t.ch = c /\ t.ver = chals[c].ver
        /\ t.proof = x
    BY <2>0 DEF AllOps, Request, Requests
  <2>3. task' = [task EXCEPT ![p] = t]
    BY <1>2
  <2> HIDE DEF t
  <2>2. Knows(t)
    BY <1>0, <2>0, <2>1 DEF Knows, Flat, StepUpOps
  <2> QED
    BY <1>2, <2>1, <2>2, <2>3
<1> QED
  BY <1>1, <1>2 DEF Principal

\* An enrollment is asked for, from a session or from a challenge.
LEMMA StartBeginInv ==
    ASSUME FInv, NEW p \in Hands, NEW kind \in FactorPcs, NEW s \in Nat, NEW c \in Nat, StartBegin(p, kind, s, c)
    PROVE  FInv'
<1>1. NoProof \in Proofs
  BY PresentedIs DEF FInv
<1>2. PICK t \in Requests : task' = [task EXCEPT ![p] = t] /\ Knows(t)
  BY <1>1, PrincipalIs DEF StartBegin
<1> QED
  BY <1>2, HandOnly DEF StartBegin, Tasks

\* The code of an authenticator is presented: of the secret that is pending.
LEMMA ConfirmTOTPBeginInv ==
    ASSUME FInv, NEW p \in Hands, NEW s \in Nat, NEW c \in Nat, ConfirmTOTPBegin(p, s, c)
    PROVE  FInv'
<1>1. Flat /\ \A n \in Counters : n \in Nat
  BY FlatTypes, PresentedIs DEF FInv
<1>2. PICK n \in Counters :
        Principal(p, "confirm", "totp", s, c, [kind |-> "totp", n |-> n, seed |-> totp.seed], FALSE)
  BY DEF ConfirmTOTPBegin
<1> DEFINE x == [kind |-> "totp", n |-> n, seed |-> totp.seed]
<1>3. x \in Proofs /\ x.kind = "totp" /\ x.seed # 0
  BY <1>1 DEF Flat, Proofs, ConfirmTOTPBegin, pendingTOTPEnrollment
<1>4. Principal(p, "confirm", "totp", s, c, x, FALSE)
  BY <1>2
<1> HIDE DEF x
<1>5. PICK t \in Requests : task' = [task EXCEPT ![p] = t] /\ Knows(t)
  BY <1>3, <1>4, PrincipalIs DEF FactorPcs
<1> QED
  BY <1>5, HandOnly DEF ConfirmTOTPBegin, Tasks

\* The mailed code of a step-up is asked for.
LEMMA StepUpSendBeginInv ==
    ASSUME FInv, NEW p \in Hands, NEW s \in DOMAIN signed, StepUpSendBegin(p, s)
    PROVE  FInv'
<1>1. Flat /\ NoProof \in Proofs /\ s \in Nat
  BY FlatTypes, PresentedIs DEF FInv, FTyped
<1> DEFINE t == Request("stepupMail", "mint", 0, s, acct.epoch, NoProof, FALSE)
<1>3. t \in Tasks /\ t.op = "stepupMail" /\ t.pc = "mint" /\ t.ch = 0 /\ t.ver = acct.epoch
  BY <1>1 DEF Flat, AllOps, Request, Requests, Tasks
<1>5. task' = [task EXCEPT ![p] = t] /\ UNCHANGED <<now, rows, hist>>
  BY DEF StepUpSendBegin
<1> HIDE DEF t
<1>4. Knows(t)
  BY <1>1, <1>3 DEF Knows, Flat, StepUpOps
<1> QED
  BY <1>3, <1>4, <1>5, HandOnly

\* The removal of the authenticator asks the policy about the user it has just read.
LEMMA StepUpBeginInv ==
    ASSUME FInv, NEW p \in Hands, NEW op \in StepUpOps, NEW s \in DOMAIN signed, StepUpBegin(p, op, s)
    PROVE  FInv'
<1>1. Flat /\ NoProof \in Proofs /\ s \in Nat
  BY FlatTypes, PresentedIs DEF FInv, FTyped
<1>2. HasSecondFactor \in BOOLEAN
  BY <1>1 DEF HasSecondFactor, Flat
<1> DEFINE pc == IF op = "removeMail" THEN "policy" ELSE "proof"
           t == Request(op, pc, 0, s, acct.epoch, NoProof, HasSecondFactor)
<1>3. /\ t \in Tasks /\ t.op = op /\ t.ch = 0 /\ t.ver = acct.epoch /\ t.proof = NoProof
      /\ op = "removeMail" => t.pc = "policy"
  BY <1>1, <1>2 DEF Flat, AllOps, StepUpPcs, Request, Requests, Tasks
<1>5. task' = [task EXCEPT ![p] = t] /\ UNCHANGED <<now, rows, hist>>
  BY DEF StepUpBegin
<1>6. op = "removeTOTP" => PolicyHolds("removeTOTP")
  BY DEF StepUpBegin, PolicyHolds, mayRemoveFactor
<1> HIDE DEF t, pc
<1>4. Knows(t)
  BY <1>1, <1>3, <1>6 DEF Knows, Flat, StepUpOps
<1> QED
  BY <1>3, <1>4, <1>5, HandOnly

\* The removal of the e-mail factor asks it later, about a user read again.
LEMMA RemoveMailPolicyInv ==
    ASSUME FInv, NEW p \in Hands, RemoveMailPolicy(p)
    PROVE  FInv'
<1>1. /\ task[p] \in Requests /\ Knows(task[p]) /\ task[p].op = "removeMail"
      /\ UNCHANGED <<now, rows, hist>> /\ task \in [Hands -> Tasks]
  BY Busy DEF RemoveMailPolicy, At, FInv, FTyped
<1>2. ASSUME mayRemoveFactor("mail"), Goto(p, "proof") PROVE FInv'
  <2> DEFINE t == [task[p] EXCEPT !.pc = "proof"]
  <2>1. task' = [task EXCEPT ![p] = t]
    BY <1>1, <1>2 DEF Goto
  <2>2. t \in Requests /\ t.op = "removeMail"
    BY <1>1 DEF Requests, StepUpPcs
  <2>3. PolicyHolds("removeMail")
    BY <1>2 DEF PolicyHolds, mayRemoveFactor
  <2>4. Knows(t)
    BY <1>1, <2>2, <2>3 DEF Knows, Requests
  <2> HIDE DEF t
  <2> QED
    BY <1>1, <2>1, <2>2, <2>4, HandOnly DEF Tasks
<1> QED
  BY <1>1, <1>2, LeaveOnly DEF RemoveMailPolicy

\* Whoever shows a second factor has one.
LEMMA ShownIsHad ==
    ASSUME NoOrphanRecovery, NEW x, tryStepUpProof(x)
    PROVE  HasSecondFactor
BY DEF NoOrphanRecovery, tryStepUpProof, tryNumericStepUp, tryRecoveryStepUp, verifyTOTPProof, HasSecondFactor

\* A proof is looked up, to be spent later; a first password may come without one.
LEMMA StepUpProofInv ==
    ASSUME FInv, NEW p \in Hands, StepUpProof(p)
    PROVE  FInv'
<1>0. Flat /\ (\A x \in Presented : x \in Proofs)
  BY FlatTypes, PresentedIs DEF FInv
<1>1. /\ task[p] \in Requests /\ Knows(task[p]) /\ task[p].op \in StepUpOps /\ task[p].pc = "proof"
      /\ UNCHANGED <<now, rows, hist>> /\ task \in [Hands -> Tasks]
  BY Busy DEF StepUpProof, At, FInv, FTyped
<1>2. ASSUME NEW x \in Presented, tryStepUpProof(x) \/ x = NoProof,
             task' = [task EXCEPT ![p].pc = "commit", ![p].proof = x]
      PROVE  FInv'
  <2> DEFINE t == [task[p] EXCEPT !.pc = "commit", !.proof = x]
  <2>1. task' = [task EXCEPT ![p] = t]
    BY <1>1, <1>2
  <2>2. t \in Requests /\ t.op \in StepUpOps /\ t.proof = x
    BY <1>0, <1>1, <1>2 DEF Requests, StepUpPcs
  <2>3. x # NoProof => HasSecondFactor
    BY <1>2, ShownIsHad DEF FInv
  <2>4. Knows(t)
    BY <1>1, <2>2, <2>3 DEF Knows, Requests, StepUpOps
  <2> HIDE DEF t
  <2> QED
    BY <1>1, <2>1, <2>2, <2>4, HandOnly DEF Tasks
<1>3. CASE Leave(p)
  BY <1>1, <1>3, LeaveOnly
<1> QED
  BY <1>2, <1>3 DEF StepUpProof

\* The account was disabled when the request read it: its challenge is of an epoch that is over.
LEMMA ConsumeChallengeInv ==
    ASSUME FInv, NEW p \in Hands, ConsumeChallenge(p)
    PROVE  FInv'
<1>1. Knows(task[p]) /\ task[p].op = "verify" /\ task[p].pc = "drop" /\ task[p].ver \in Nat
  BY Busy DEF ConsumeChallenge, At
<1>2. acct.epoch \in Nat
  BY FlatTypes DEF FInv, Flat
<1>3. ~Live(task[p].ch)
  BY <1>1, <1>2 DEF Knows, Live, AtEpoch
<1> QED
  BY <1>3, LeaveOnly DEF ConsumeChallenge, rows

\* The requests that find that something has changed meanwhile.
LEMMA RefusedInv ==
    ASSUME FInv, NEW p \in Hands,
           \/ LoginRefused(p) \/ VerifyRefused(p) \/ SendRefused(p) \/ StartRefused(p)
           \/ ConfirmRefused(p) \/ StepUpRefused(p)
    PROVE  FInv'
BY LeaveOnly DEF LoginRefused, VerifyRefused, SendRefused, StartRefused, ConfirmRefused, StepUpRefused

-------------------------------------------------------------------------------
(***************************************************************************)
(* What the parts of the invariant need of a step that changes tables.     *)
(***************************************************************************)

\* The tables, one by one.
LEMMA RowTypes ==
    ASSUME FTyped
    PROVE  /\ chals \in Seq(Challenges) /\ otps \in Seq(Codes) /\ signed \in Seq(Opened)
           /\ \A c \in DOMAIN chals : /\ chals[c] \in Challenges /\ chals[c].ver \in Nat
                                      /\ chals[c].exp \in Nat /\ chals[c].att \in Nat
                                      /\ chals[c].sends \in Nat /\ chals[c].proven \in BOOLEAN
           /\ \A i \in DOMAIN otps : otps[i] \in Codes
           /\ \A s \in DOMAIN signed : signed[s] \in Opened
<1>1. chals \in Seq(Challenges) /\ otps \in Seq(Codes) /\ signed \in Seq(Opened)
  BY DEF FTyped
<1>2. /\ \A c \in DOMAIN chals : chals[c] \in Challenges
      /\ \A i \in DOMAIN otps : otps[i] \in Codes
      /\ \A s \in DOMAIN signed : signed[s] \in Opened
  BY <1>1
<1> QED
  BY <1>1, <1>2 DEF Challenges

\* Challenges that are only spent, swept or outlived stay apart.
LEMMA ApartStays ==
    ASSUME FTyped, FTyped', ChallengesApart, ChalsKeep, DOMAIN chals' = DOMAIN chals, now <= now',
           \/ acct'.epoch = acct.epoch /\ (acct.active => acct'.active)
           \/ acct.epoch < acct'.epoch
    PROVE  ChallengesApart'
<1>1. Flat /\ Flat'
  BY FlatTypes, FlatTypesNext
<1>2. \A c \in DOMAIN chals : chals[c].ver \in Nat /\ chals[c].exp \in Nat
  BY RowTypes
<1>3. \A c \in DOMAIN chals : Unspent(c)' => Unspent(c) /\ chals'[c].purpose = chals[c].purpose
  BY <1>1, <1>2 DEF Unspent, ChalsKeep, Flat
<1>4. ASSUME NEW c \in DOMAIN chals', NEW d \in DOMAIN chals', Unspent(c)', Unspent(d)',
             chals'[c].purpose = chals'[d].purpose, chals'[c].ver = chals'[d].ver
      PROVE  c = d
  BY <1>3, <1>4 DEF ChallengesApart, ChalsKeep
<1>5. ASSUME NEW c \in DOMAIN chals'
      PROVE  /\ chals'[c].ver <= acct'.epoch
             /\ chals'[c].ver = acct'.epoch => acct'.active
             /\ chals'[c].purpose = "gone" => chals'[c].used
  <2>1. /\ c \in DOMAIN chals /\ chals'[c].ver = chals[c].ver
        /\ chals'[c].purpose = "gone" => chals'[c].used
    BY <1>5 DEF ChalsKeep
  <2>2. chals[c].ver <= acct.epoch /\ (chals[c].ver = acct.epoch => acct.active)
    BY <2>1 DEF ChallengesApart
  <2> QED
    BY <1>1, <1>2, <2>1, <2>2 DEF Flat
<1> QED
  BY <1>4, <1>5 DEF ChallengesApart

\* The step leaves the challenge that can be answered alone.
LEMMA WindowStays ==
    ASSUME FTyped, FTyped', WindowMatches, ChalsKeep, DOMAIN chals' = DOMAIN chals,
           window' = window, now' = now, acct'.epoch = acct.epoch,
           \A c \in DOMAIN chals : Answerable(c) =>
               /\ chals'[c].att = chals[c].att /\ chals'[c].sends = chals[c].sends
               /\ ~chals'[c].used
    PROVE  WindowMatches'
<1>1. ASSUME NEW c \in DOMAIN chals PROVE Answerable(c)' <=> Answerable(c)
  BY <1>1 DEF Answerable, Unspent, ChalsKeep, PurposeTOTP
<1>2. ASSUME NEW c \in DOMAIN chals', Answerable(c)'
      PROVE  /\ chals'[c].att = window'.guesses /\ chals'[c].sends = window'.sends
             /\ chals'[c].proven = window'.proven /\ chals'[c].exp = window'.until
  <2>1. Answerable(c)
    BY <1>1, <1>2
  <2> QED
    BY <2>1 DEF WindowMatches, ChalsKeep
<1>3. now' < window'.until => \E c \in DOMAIN chals' : Answerable(c)'
  BY <1>1 DEF WindowMatches
<1>4. LoginBudget'
  BY DEF WindowMatches, LoginBudget
<1> QED
  BY <1>2, <1>3, <1>4 DEF WindowMatches

\* The window shuts when no challenge can be answered any more.
LEMMA WindowCloses ==
    ASSUME FTyped', window' = WindowShut, \A c \in DOMAIN chals' : ~Answerable(c)'
    PROVE  WindowMatches'
<1>1. now' \in Nat /\ ~(now' < window'.until)
  BY FlatTypesNext DEF Flat, WindowShut
<1>2. LoginBudget'
  BY FactorsAssumption DEF LoginBudget, WindowShut
<1> QED
  BY <1>1, <1>2 DEF WindowMatches

\* The epoch moves and nothing else happens to the challenges.
LEMMA EpochMoves ==
    ASSUME FInv, FTyped', acct'.epoch = acct.epoch + 1, acct'.mandatory = acct.mandatory,
           window' = WindowShut, UNCHANGED <<now, chals>>
    PROVE  ChallengesApart' /\ WindowMatches' /\ ChalsKeep /\ FactorsKeep
<1>1. Flat /\ Flat' /\ chals \in Seq(Challenges) /\ FTyped
  BY FlatTypes, FlatTypesNext DEF FInv, FTyped
<1>2. ChalsKeep
  BY ChalsStand DEF FInv
<1>3. FactorsKeep
  BY <1>1 DEF FactorsKeep, Flat
<1>4. ChallengesApart'
  BY <1>1, <1>2, ApartStays DEF FInv, Flat
<1>5. ASSUME NEW c \in DOMAIN chals' PROVE ~Answerable(c)'
  <2>1. chals[c].ver <= acct.epoch /\ chals[c].ver \in Nat
    BY <1>1, RowTypes DEF FInv, ChallengesApart
  <2> QED
    BY <1>1, <2>1 DEF Answerable, Flat
<1>6. WindowMatches'
  BY <1>5, WindowCloses
<1> QED
  BY <1>2, <1>3, <1>4, <1>6

\* Nothing happens to the challenges.
LEMMA ChalsQuiet ==
    ASSUME FInv, FTyped', acct'.epoch = acct.epoch, acct.active => acct'.active,
           UNCHANGED <<now, chals, window>>
    PROVE  ChallengesApart' /\ WindowMatches' /\ ChalsKeep
<1>1. Flat /\ Flat' /\ chals \in Seq(Challenges) /\ FTyped
  BY FlatTypes, FlatTypesNext DEF FInv, FTyped
<1>2. ChalsKeep
  BY ChalsStand DEF FInv
<1>3. ChallengesApart'
  BY <1>1, <1>2, ApartStays DEF FInv, Flat
<1>4. WindowMatches'
  BY <1>1, <1>2, WindowStays DEF FInv, Answerable, Unspent
<1> QED
  BY <1>2, <1>3, <1>4

\* A session opens in the present epoch, and never by two proofs of one mailbox.
LEMMA SessionOpens ==
    ASSUME FInv, NEW second \in {"none", "enrolled", "totp", "mail", "recovery"},
           OpenSession(acct.epoch, second), second = "mail" => ~window.proven
    PROVE  signed' \in Seq(Opened) /\ SessionBornInEpoch' /\ MailboxNotTwice'
<1>1. Flat /\ signed \in Seq(Opened)
  BY FlatTypes DEF FInv, FTyped
<1> DEFINE e == [live |-> TRUE, born |-> acct.epoch, at |-> acct.epoch, second |-> second,
                 proven |-> window.proven]
<1>2. e \in Opened /\ e.born = e.at /\ ~(e.second = "mail" /\ e.proven)
  BY <1>1 DEF Opened, Flat
<1>3. signed' = Append(signed, e)
  BY DEF OpenSession
<1> HIDE DEF e
<1>4. /\ signed' \in Seq(Opened) /\ Len(signed) \in Nat /\ DOMAIN signed = 1..Len(signed)
      /\ DOMAIN signed' = 1..(Len(signed) + 1)
      /\ \A i \in DOMAIN signed : signed'[i] = signed[i]
      /\ signed'[Len(signed) + 1] = e
  BY <1>1, <1>2, <1>3, AppendAt
<1>5. \A i \in DOMAIN signed' : i \in DOMAIN signed \/ i = Len(signed) + 1
  BY <1>4
<1>6. SessionBornInEpoch' /\ MailboxNotTwice'
  BY <1>2, <1>4, <1>5 DEF FInv, SessionBornInEpoch, MailboxNotTwice
<1> QED
  BY <1>4, <1>6

\* Revoking sessions changes neither how they opened nor when.
LEMMA SessionsRevoked ==
    ASSUME FInv, NEW s, signed' = RevokeOthers(s)
    PROVE  signed' \in Seq(Opened) /\ SessionBornInEpoch' /\ MailboxNotTwice'
<1>1. signed \in Seq(Opened) /\ \A i \in DOMAIN signed : signed[i] \in Opened
  BY RowTypes DEF FInv
<1>2. /\ DOMAIN signed' = DOMAIN signed /\ signed' = [i \in DOMAIN signed' |-> signed'[i]]
      /\ \A i \in DOMAIN signed : /\ signed'[i] \in Opened /\ signed'[i].born = signed[i].born
                                  /\ signed'[i].at = signed[i].at
                                  /\ signed'[i].second = signed[i].second
                                  /\ signed'[i].proven = signed[i].proven
  BY <1>1 DEF RevokeOthers, Opened
<1>3. signed' \in Seq(Opened)
  BY <1>1, <1>2, SeqMap
<1>4. SessionBornInEpoch' /\ MailboxNotTwice'
  BY <1>2 DEF FInv, SessionBornInEpoch, MailboxNotTwice
<1> QED
  BY <1>3, <1>4

\* A step that leaves the sessions alone.
LEMMA SessionsStand ==
    ASSUME FInv, UNCHANGED signed
    PROVE  signed' \in Seq(Opened) /\ SessionBornInEpoch' /\ MailboxNotTwice'
BY DEF FInv, FTyped, SessionBornInEpoch, MailboxNotTwice

\* Codes that are only used, swept or superseded stay with their challenge and their factor; a
\* new one has to start there.
LEMMA CodesStay ==
    ASSUME CodesApart, CodesKeep, ChalsKeep,
           (mailf.conf => mailf'.conf) \/ \A i \in DOMAIN otps : otps'[i].kind # "stepup",
           \A i \in DOMAIN otps' : i \notin DOMAIN otps =>
              /\ otps'[i].kind = "login" => otps'[i].ch \in DOMAIN chals /\ ~chals[otps'[i].ch].proven
              /\ otps'[i].kind = "stepup" => mailf'.conf
    PROVE  CodesApart'
<1>1. ASSUME NEW i \in DOMAIN otps', ~otps'[i].used, otps'[i].kind = "login"
      PROVE  otps'[i].ch \in DOMAIN chals' /\ ~chals'[otps'[i].ch].proven
  <2>1. otps'[i].ch \in DOMAIN chals /\ ~chals[otps'[i].ch].proven
    <3>1. CASE i \in DOMAIN otps
      <4>1. otps[i].kind = "login" /\ ~otps[i].used /\ otps'[i].ch = otps[i].ch
        BY <1>1, <3>1 DEF CodesKeep
      <4> QED
        BY <3>1, <4>1 DEF CodesApart
    <3>2. CASE i \notin DOMAIN otps
      BY <1>1, <3>2
    <3> QED
      BY <3>1, <3>2
  <2> QED
    BY <2>1 DEF ChalsKeep
<1>2. ASSUME NEW i \in DOMAIN otps', ~otps'[i].used, otps'[i].kind = "stepup" PROVE mailf'.conf
  <2>1. CASE i \in DOMAIN otps
    <3>1. otps[i].kind = "stepup" /\ ~otps[i].used
      BY <1>2, <2>1 DEF CodesKeep
    <3> QED
      BY <1>2, <2>1, <3>1 DEF CodesApart
  <2>2. CASE i \notin DOMAIN otps
    BY <1>2, <2>2
  <2> QED
    BY <2>1, <2>2
<1> QED
  BY <1>1, <1>2 DEF CodesApart

\* The constants.
LEMMA Bounds ==
    /\ MaxAttempts \in Nat /\ MaxSends \in Nat /\ TTL \in Nat /\ CodeTTL \in Nat
    /\ MaxAttempts > 0 /\ TTL > 0 /\ TOTPOnly \in BOOLEAN
BY FactorsAssumption

\* A new code: the older ones of its purpose are superseded.
LEMMA Minted ==
    ASSUME FTyped, NEW kind \in {"login", "enroll", "stepup", "address"}, NEW c \in Nat, MintCode(kind, c)
    PROVE  /\ otps' \in Seq(Codes) /\ CodesKeep
           /\ \A i \in DOMAIN otps' : i \notin DOMAIN otps => otps'[i].kind = kind /\ otps'[i].ch = c
<1>1. Flat /\ otps \in Seq(Codes) /\ \A i \in DOMAIN otps : otps[i] \in Codes
  BY FlatTypes, RowTypes
<1> DEFINE old == [i \in DOMAIN otps |-> IF otps[i].kind = kind
                                         THEN [otps[i] EXCEPT !.used = TRUE] ELSE otps[i]]
           e == [kind |-> kind, ch |-> c, at |-> now, exp |-> now + CodeTTL, used |-> FALSE]
<1>2. e \in Codes /\ e.kind = kind /\ e.ch = c
  BY <1>1, Bounds DEF Codes, Flat
<1>3. /\ DOMAIN old = DOMAIN otps /\ old = [i \in DOMAIN old |-> old[i]]
      /\ \A i \in DOMAIN otps : /\ old[i] \in Codes /\ old[i].kind = otps[i].kind
                                /\ old[i].ch = otps[i].ch /\ (otps[i].used => old[i].used)
  BY <1>1 DEF Codes
<1>4. otps' = Append(old, e)
  BY DEF MintCode
<1> HIDE DEF old, e
<1>5. old \in Seq(Codes)
  BY <1>1, <1>3, SeqMap
<1>6. /\ otps' \in Seq(Codes) /\ Len(old) \in Nat /\ DOMAIN old = 1..Len(old)
      /\ DOMAIN otps' = 1..(Len(old) + 1)
      /\ \A i \in DOMAIN old : otps'[i] = old[i]
      /\ otps'[Len(old) + 1] = e
  BY <1>2, <1>4, <1>5, AppendAt
<1>7. DOMAIN otps \subseteq DOMAIN otps'
      /\ \A i \in DOMAIN otps' : i \notin DOMAIN otps => i = Len(old) + 1
  BY <1>3, <1>6
<1>8. CodesKeep
  BY <1>3, <1>6, <1>7 DEF CodesKeep
<1> QED
  BY <1>2, <1>6, <1>7, <1>8

\* An UPDATE of the codes.
LEMMA CodesUpdated ==
    ASSUME FTyped, DOMAIN otps' = DOMAIN otps, otps' = [i \in DOMAIN otps' |-> otps'[i]],
           \A i \in DOMAIN otps :
              /\ otps'[i] \in Codes
              /\ otps'[i].kind \in {otps[i].kind, "gone"}
              /\ otps[i].used => otps'[i].used
              /\ ~otps'[i].used /\ otps'[i].kind # "gone" => otps'[i].ch = otps[i].ch
    PROVE  otps' \in Seq(Codes) /\ CodesKeep
<1>1. otps \in Seq(Codes)
  BY RowTypes
<1>2. otps' \in Seq(Codes)
  BY <1>1, SeqMap
<1> QED
  BY <1>2 DEF CodesKeep

\* A code that pays is used.
LEMMA CodeUsed ==
    ASSUME FTyped, NEW x \in Proofs, x.kind = "mail" => x.n \in DOMAIN otps, otps' = UsedCode(x)
    PROVE  /\ otps' \in Seq(Codes) /\ CodesKeep /\ DOMAIN otps' = DOMAIN otps
           /\ x.kind = "mail" => otps'[x.n].used
           /\ \A i \in DOMAIN otps : otps'[i].kind = otps[i].kind
<1>1. otps \in Seq(Codes) /\ \A i \in DOMAIN otps : otps[i] \in Codes
  BY RowTypes
<1>2. CASE x.kind = "mail"
  <2>1. otps' = [otps EXCEPT ![x.n].used = TRUE] /\ x.n \in DOMAIN otps
    BY <1>2 DEF UsedCode
  <2>2. DOMAIN otps' = DOMAIN otps /\ otps' = [i \in DOMAIN otps' |-> otps'[i]]
    BY <1>1, <2>1
  <2>3. ASSUME NEW i \in DOMAIN otps
        PROVE  /\ otps'[i] \in Codes /\ otps'[i].kind = otps[i].kind /\ otps'[i].ch = otps[i].ch
               /\ otps[i].used => otps'[i].used
               /\ i = x.n => otps'[i].used
    <3>1. otps'[i] = IF i = x.n THEN [otps[i] EXCEPT !.used = TRUE] ELSE otps[i]
      BY <1>1, <2>1
    <3> QED
      BY <1>1, <3>1 DEF Codes
  <2> QED
    BY <2>1, <2>2, <2>3, CodesUpdated
<1>3. CASE x.kind # "mail"
  <2>1. otps' = otps
    BY <1>3 DEF UsedCode
  <2> QED
    BY <1>1, <1>3, <2>1 DEF CodesKeep
<1> QED
  BY <1>2, <1>3

\* What a transaction found when it let a proof pay.
Payable(x) ==
    \/ x.kind = "totp" /\ TOTPCurrent(x)
    \/ x.kind = "mail" /\ x.n \in DOMAIN otps /\ ~otps[x.n].used /\ otps[x.n].kind # "gone"
    \/ x.kind = "recovery" /\ x.n \in recov

\* What pays for a sign-in: also, a mailed code is one of its own challenge.
LEMMA LoginIsPayable ==
    ASSUME NEW x, NEW c, SpendableAtLogin(x, c)
    PROVE  Payable(x) /\ (x.kind = "mail" => CodeLive(x.n, "login") /\ otps[x.n].ch = c)
BY DEF SpendableAtLogin, Payable, CodeLive

\* What pays for a step-up: also, a mailed code was mailed for one.
LEMMA StepUpIsPayable ==
    ASSUME NEW x, SpendableAtStepUp(x)
    PROVE  Payable(x) /\ (x.kind = "mail" => CodeLive(x.n, "stepup"))
BY DEF SpendableAtStepUp, Payable, CodeLive

\* A proof that pays was not burnt, and burns.
LEMMA Paid ==
    ASSUME FTyped, FTyped', ProofsBurn, ProofsKeep, NEW x \in Proofs, Payable(x), RecordProof(x),
           x.kind = "totp" /\ totp'.seed = x.seed => x.n <= totp'.last,
           x.kind = "mail" => otps'[x.n].used \/ otps'[x.n].kind = "gone",
           x.kind = "recovery" => x.n \notin recov'
    PROVE  ProofsSpentOnce' /\ (\A i \in DOMAIN spent : Burnt(spent[i]))'
<1>1. Flat /\ Flat' /\ x.n \in Nat /\ x.seed \in Nat
  BY FlatTypes, FlatTypesNext DEF Proofs
<1>2. CASE x.kind = "totp"
  <2>1. totp.conf /\ totp.seed = x.seed /\ totp.last < x.n
    BY <1>2 DEF Payable, TOTPCurrent
  <2>2. x.seed \in 1..seeds
    BY <1>1, <2>1 DEF ProofsBurn, Flat
  <2>3. ~Burnt(x)
    BY <1>1, <1>2, <2>1 DEF Burnt, Flat
  <2>4. x.seed \in 1..seeds'
    BY <1>1, <2>2 DEF ProofsKeep, Flat
  <2>5. Burnt(x)'
    BY <1>2, <2>4 DEF Burnt
  <2> QED
    BY <2>3, <2>5, SpentGrows DEF RecordProof
<1>3. CASE x.kind = "mail"
  <2>1. x.n \in DOMAIN otps /\ ~Burnt(x)
    BY <1>3 DEF Burnt, Payable
  <2>2. Burnt(x)'
    BY <1>3, <2>1 DEF Burnt, ProofsKeep, CodesKeep
  <2> QED
    BY <2>1, <2>2, SpentGrows DEF RecordProof
<1>4. CASE x.kind = "recovery"
  <2>1. x.n \in recov /\ ~Burnt(x)
    BY <1>4 DEF Burnt, Payable
  <2>2. x.n \in 1..sets'
    BY <1>1, <2>1 DEF ProofsBurn, ProofsKeep, Flat
  <2>3. Burnt(x)'
    BY <1>4, <2>2 DEF Burnt
  <2> QED
    BY <2>1, <2>3, SpentGrows DEF RecordProof
<1> QED
  BY <1>2, <1>3, <1>4 DEF Payable

\* The counter that pays is the last one used.
LEMMA TOTPUsed ==
    ASSUME FTyped, ProofsBurn, NEW x \in Proofs, Payable(x), totp' = UsedTOTP(x)
    PROVE  /\ totp' \in TOTPRows /\ totp'.seed = totp.seed /\ totp'.conf = totp.conf
           /\ totp.last <= totp'.last
           /\ x.kind = "totp" => totp'.last = x.n
           /\ ~totp.conf => totp'.last = NoVer
<1>1. Flat /\ totp \in TOTPRows /\ x.n \in Nat
  BY FlatTypes DEF FTyped, Proofs
<1>2. CASE x.kind = "totp"
  <2>1. totp.conf /\ totp.last < x.n /\ totp' = [totp EXCEPT !.last = x.n]
    BY <1>2 DEF Payable, TOTPCurrent, UsedTOTP
  <2>2. x.n \in Vers /\ x.n \in Int /\ totp.last \in Int
    BY <1>1 DEF Flat, Vers
  <2>3. /\ totp' \in TOTPRows /\ totp'.seed = totp.seed /\ totp'.conf = totp.conf
        /\ totp'.last = x.n
    BY <1>1, <2>1, <2>2 DEF TOTPRows
  <2>4. totp.last <= totp'.last
    BY <2>1, <2>2, <2>3
  <2> QED
    BY <1>2, <2>1, <2>3, <2>4
<1>3. CASE x.kind # "totp"
  <2>1. totp' = totp
    BY <1>3 DEF UsedTOTP
  <2> QED
    BY <1>1, <1>3, <2>1 DEF Flat, ProofsBurn
<1> QED
  BY <1>2, <1>3

\* No proof is accepted and no factor row changes.
LEMMA ProofsQuiet ==
    ASSUME FTyped, FTyped', ProofsBurn, CodesKeep, UNCHANGED <<totp, recov, sets, seeds, spent>>
    PROVE  ProofsBurn'
<1>1. Flat
  BY FlatTypes
<1>2. ProofsKeep
  BY <1>1 DEF ProofsKeep, Flat
<1>3. ProofsSpentOnce' /\ (\A i \in DOMAIN spent : Burnt(spent[i]))'
  BY <1>2, SpentStays
<1> QED
  BY <1>3 DEF ProofsBurn

\* No code changes.
LEMMA CodesStand ==
    ASSUME UNCHANGED otps
    PROVE  CodesKeep
BY DEF CodesKeep

\* A step that leaves the codes and the e-mail factor alone.
LEMMA CodesQuiet ==
    ASSUME CodesApart, UNCHANGED <<otps, mailf>>, ChalsKeep
    PROVE  CodesApart' /\ CodesKeep
BY CodesStand, CodesStay

\* The parts of the invariant, of a state.
LEMMA Parts ==
    ASSUME FInv
    PROVE  /\ FTyped /\ ChallengesApart /\ WindowMatches /\ CodesApart /\ ProofsBurn
           /\ NoOrphanRecovery /\ SessionBornInEpoch /\ MailboxNotTwice /\ TasksKnow
           /\ Flat /\ WindowShut \in Windows
BY FlatTypes DEF FInv, WindowShut, Windows

\* A new epoch of the account.
LEMMA BumpedIs ==
    ASSUME FTyped
    PROVE  /\ Bumped(acct) \in Accts /\ Bumped(acct).epoch = acct.epoch + 1
           /\ Bumped(acct).mandatory = acct.mandatory
           /\ \A b \in BOOLEAN : [Bumped(acct) EXCEPT !.active = b] \in Accts
           /\ [Bumped(acct) EXCEPT !.pw = TRUE] \in Accts
           /\ [Bumped(acct) EXCEPT !.pw = TRUE, !.verified = TRUE] \in Accts
<1>1. acct \in Accts
  BY DEF FTyped
<1>2. PICK b : b = Bumped(acct)
  OBVIOUS
<1>3. b \in Accts /\ b.epoch = acct.epoch + 1 /\ b.mandatory = acct.mandatory
  BY <1>1, <1>2 DEF Accts, Bumped
<1>4. \A x \in BOOLEAN : [b EXCEPT !.active = x] \in Accts
  BY <1>3 DEF Accts
<1>5. [b EXCEPT !.pw = TRUE] \in Accts
  BY <1>3 DEF Accts
<1>6. [b EXCEPT !.pw = TRUE, !.verified = TRUE] \in Accts
  BY <1>3 DEF Accts
<1> QED
  BY <1>2, <1>3, <1>4, <1>5, <1>6

\* A hand that leaves.
LEMMA LeaveIs ==
    ASSUME FTyped, NEW p \in Hands, Leave(p)
    PROVE  task' \in [Hands -> Tasks] /\ task' = [task EXCEPT ![p] = NoTask] /\ NoTask \in Tasks
<1>1. task \in [Hands -> Tasks] /\ NoTask \in Tasks
  BY DEF FTyped, Tasks
<1> QED
  BY <1>1 DEF Leave

\* The requests that stay know what they knew, when one leaves.
LEMMA TasksLeave ==
    ASSUME FTyped, FTyped', TasksKnow, ChalsKeep, FactorsKeep, NEW p \in Hands, Leave(p)
    PROVE  TasksKnow'
BY TasksKeep, LeaveIs

-------------------------------------------------------------------------------
(***************************************************************************)
(* The account, the links and the clock.                                   *)
(***************************************************************************)

\* A session without a second factor, in the epoch the password was checked in.
LEMMA LoginIssueInv ==
    ASSUME FInv, NEW p \in Hands, LoginIssue(p)
    PROVE  FInv'
<1>0. /\ FTyped /\ ProofsBurn /\ CodesApart /\ NoOrphanRecovery /\ TasksKnow
      /\ task[p].ver = acct.epoch /\ OpenSession(task[p].ver, "none") /\ Leave(p)
      /\ UNCHANGED <<now, acct, totp, mailf, recov, sets, otps, chals, resets, seeds, spent, window>>
  BY Parts DEF LoginIssue, AtEpoch, hist
<1>1. signed' \in Seq(Opened) /\ SessionBornInEpoch' /\ MailboxNotTwice'
  BY <1>0, SessionOpens
<1>2. FTyped'
  BY <1>0, <1>1, LeaveIs DEF FTyped
<1>3. ChallengesApart' /\ WindowMatches' /\ ChalsKeep
  BY <1>0, <1>2, ChalsQuiet
<1>4. CodesApart' /\ ProofsBurn'
  BY <1>0, <1>2, <1>3, CodesQuiet, ProofsQuiet
<1>5. TasksKnow'
  BY <1>0, <1>2, <1>3, FactorsStand, TasksLeave
<1>6. NoOrphanRecovery'
  BY <1>0 DEF NoOrphanRecovery, HasSecondFactor
<1> QED
  BY <1>1, <1>2, <1>3, <1>4, <1>5, <1>6 DEF FInv

\* A new link supersedes the older ones.
LEMMA CreatePasswordResetInv ==
    ASSUME FInv, NEW byAdmin \in BOOLEAN, CreatePasswordReset(byAdmin)
    PROVE  FInv'
<1>0. /\ FTyped /\ ProofsBurn /\ CodesApart /\ NoOrphanRecovery /\ TasksKnow /\ Flat
      /\ UNCHANGED <<now, acct, totp, mailf, recov, sets, otps, chals, signed, seeds, task, spent, window>>
  BY Parts DEF CreatePasswordReset, hist
<1>1. resets' \in Seq(Links)
  <2>1. resets \in Seq(Links)
    BY <1>0 DEF FTyped
  <2>2. \A i \in DOMAIN resets : resets[i] \in Links
    BY <2>1
  <2> DEFINE old == [i \in DOMAIN resets |-> [resets[i] EXCEPT !.used = TRUE]]
             e == [ver |-> acct.epoch, exp |-> now + CodeTTL, used |-> FALSE]
  <2>3. e \in Links
    BY <1>0, Bounds DEF Links, Flat
  <2>4. old \in Seq(Links)
    <3>1. DOMAIN old = DOMAIN resets /\ (old = [i \in DOMAIN old |-> old[i]])
          /\ \A i \in DOMAIN resets : old[i] \in Links
      BY <2>2 DEF Links
    <3> HIDE DEF old
    <3> QED
      BY <2>1, <3>1, SeqMap
  <2>5. resets' = Append(old, e)
    BY DEF CreatePasswordReset
  <2> HIDE DEF old, e
  <2> QED
    BY <2>3, <2>4, <2>5, AppendAt
<1>2. FTyped'
  BY <1>0, <1>1 DEF FTyped
<1>3. ChallengesApart' /\ WindowMatches' /\ ChalsKeep
  BY <1>0, <1>2, ChalsQuiet
<1>4. CodesApart' /\ ProofsBurn'
  BY <1>0, <1>2, <1>3, CodesQuiet, ProofsQuiet
<1>5. TasksKnow'
  BY <1>0, <1>2, <1>3, FactorsStand, TasksStand
<1>6. NoOrphanRecovery' /\ SessionBornInEpoch' /\ MailboxNotTwice'
  BY <1>0, SessionsStand DEF NoOrphanRecovery, HasSecondFactor
<1> QED
  BY <1>2, <1>3, <1>4, <1>5, <1>6 DEF FInv

\* A link is used: a new password and a new epoch, and a sign-in of that epoch.
LEMMA ConsumePasswordResetInv ==
    ASSUME FInv, NEW p \in Hands, NEW l \in DOMAIN resets, ConsumePasswordReset(p, l)
    PROVE  FInv'
<1>0. /\ FTyped /\ ProofsBurn /\ CodesApart /\ NoOrphanRecovery /\ TasksKnow /\ Flat
      /\ WindowShut \in Windows
      /\ resets' = [resets EXCEPT ![l].used = TRUE]
      /\ acct' = [Bumped(acct) EXCEPT !.pw = TRUE, !.verified = TRUE]
      /\ signed' = RevokeOthers(0) /\ window' = WindowShut
      /\ UNCHANGED <<now, totp, mailf, recov, sets, otps, chals, seeds, spent>>
  BY Parts DEF ConsumePasswordReset
<1>1. resets' \in Seq(Links)
  <2>1. resets \in Seq(Links) /\ resets[l] \in Links
    BY <1>0 DEF FTyped
  <2>2. [resets[l] EXCEPT !.used = TRUE] \in Links
    BY <2>1 DEF Links
  <2> QED
    BY <1>0, <2>1, <2>2
<1>2. acct' \in Accts /\ acct'.epoch = acct.epoch + 1 /\ acct'.mandatory = acct.mandatory
  <2>1. acct' \in Accts
    BY <1>0, BumpedIs
  <2> QED
    BY <1>0, <2>1 DEF Accts, Bumped
<1>13. PICK t : t = Request("login", secondFactorPurpose, 0, 0, acct.epoch + 1, NoProof, TRUE)
  OBVIOUS
<1>3. /\ t \in Requests /\ t \in Tasks /\ t.op = "login" /\ t.pc \in SignInPcs /\ t.ch = 0
      /\ t.ver = acct.epoch + 1
  <2>1. secondFactorPurpose \in SignInPcs /\ acct.epoch + 1 \in Nat
    BY <1>0 DEF secondFactorPurpose, SignInPcs, Flat
  <2> QED
    BY <1>0, <1>13, <2>1, PresentedIs DEF AllOps, Request, Requests, Tasks
<1>4. task' = [task EXCEPT ![p] = t]
  BY <1>13 DEF ConsumePasswordReset
<1>5. Knows(t)'
  BY <1>0, <1>2, <1>3 DEF Knows, StepUpOps, Flat
<1>6. task' \in [Hands -> Tasks]
  BY <1>0, <1>3, <1>4 DEF FTyped
<1>7. signed' \in Seq(Opened) /\ SessionBornInEpoch' /\ MailboxNotTwice'
  BY <1>0, SessionsRevoked
<1>8. FTyped'
  BY <1>0, <1>1, <1>2, <1>6, <1>7 DEF FTyped
<1>9. ChallengesApart' /\ WindowMatches' /\ ChalsKeep /\ FactorsKeep
  BY <1>0, <1>2, <1>8, EpochMoves
<1>10. CodesApart' /\ ProofsBurn'
  BY <1>0, <1>8, <1>9, CodesQuiet, ProofsQuiet
<1>11. TasksKnow'
  BY <1>0, <1>3, <1>4, <1>5, <1>8, <1>9, TasksKeep
<1>12. NoOrphanRecovery'
  BY <1>0 DEF NoOrphanRecovery, HasSecondFactor
<1> QED
  BY <1>7, <1>8, <1>9, <1>10, <1>11, <1>12 DEF FInv

\* Disabling the account ends the epoch, enabling it does not begin one.
LEMMA SetStatusInv ==
    ASSUME FInv, SetStatus
    PROVE  FInv'
<1>0. /\ FTyped /\ ProofsBurn /\ CodesApart /\ NoOrphanRecovery /\ TasksKnow /\ Flat
      /\ WindowShut \in Windows
      /\ UNCHANGED <<now, totp, mailf, recov, sets, otps, chals, resets, seeds, task, spent>>
  BY Parts DEF SetStatus
<1>1. CASE acct.active
  <2>1. acct' = [Bumped(acct) EXCEPT !.active = FALSE] /\ signed' = RevokeOthers(0) /\ window' = WindowShut
    BY <1>1 DEF SetStatus
  <2>2. acct' \in Accts /\ acct'.epoch = acct.epoch + 1 /\ acct'.mandatory = acct.mandatory
    <3>1. acct' \in Accts
      BY <1>0, <2>1, BumpedIs
    <3> QED
      BY <1>0, <2>1, <3>1 DEF Accts, Bumped
  <2>3. signed' \in Seq(Opened) /\ SessionBornInEpoch' /\ MailboxNotTwice'
    BY <2>1, SessionsRevoked
  <2>4. FTyped'
    BY <1>0, <2>1, <2>2, <2>3 DEF FTyped
  <2>5. ChallengesApart' /\ WindowMatches' /\ ChalsKeep /\ FactorsKeep
    BY <1>0, <2>1, <2>2, <2>4, EpochMoves
  <2>6. CodesApart' /\ ProofsBurn' /\ TasksKnow'
    BY <1>0, <2>4, <2>5, CodesQuiet, ProofsQuiet, TasksStand
  <2>7. NoOrphanRecovery'
    BY <1>0 DEF NoOrphanRecovery, HasSecondFactor
  <2> QED
    BY <2>3, <2>4, <2>5, <2>6, <2>7 DEF FInv
<1>2. CASE ~acct.active
  <2>1. acct' = [acct EXCEPT !.active = TRUE] /\ signed' = signed /\ window' = window
    BY <1>2 DEF SetStatus
  <2>2. /\ acct' \in Accts /\ acct'.epoch = acct.epoch /\ acct'.mandatory = acct.mandatory
    BY <1>0, <2>1 DEF FTyped, Accts
  <2>4. FTyped'
    BY <1>0, <2>1, <2>2 DEF FTyped
  <2>5. ChallengesApart' /\ WindowMatches' /\ ChalsKeep
    BY <1>0, <1>2, <2>1, <2>2, <2>4, ChalsQuiet
  <2>6. FactorsKeep
    BY <1>0, <2>2 DEF FactorsKeep
  <2>7. CodesApart' /\ ProofsBurn' /\ TasksKnow'
    BY <1>0, <2>4, <2>5, <2>6, CodesQuiet, ProofsQuiet, TasksStand
  <2>8. NoOrphanRecovery' /\ SessionBornInEpoch' /\ MailboxNotTwice'
    BY <1>0, <2>1, SessionsStand DEF NoOrphanRecovery, HasSecondFactor
  <2> QED
    BY <2>4, <2>5, <2>7, <2>8 DEF FInv
<1> QED
  BY <1>1, <1>2

\* Time passes: the window ends with its challenge.
LEMMA TickInv ==
    ASSUME FInv, Tick
    PROVE  FInv'
<1>0. /\ FTyped /\ ProofsBurn /\ CodesApart /\ NoOrphanRecovery /\ TasksKnow /\ Flat
      /\ now' = now + 1
      /\ UNCHANGED <<acct, totp, mailf, recov, sets, otps, chals, signed, resets, seeds, task, spent, window>>
  BY Parts DEF Tick, rows, hist
<1>1. FTyped'
  BY <1>0 DEF FTyped, Flat
<1>2. ChalsKeep /\ FactorsKeep
  BY <1>0, ChalsStand, FactorsStand DEF FInv
<1>3. ChallengesApart'
  BY <1>0, <1>1, <1>2, ApartStays DEF FInv, Flat
<1>4. WindowMatches'
  <2>1. \A c \in DOMAIN chals : chals[c].exp \in Nat
    BY <1>0, RowTypes
  <2>2. \A c \in DOMAIN chals : Answerable(c)' => Answerable(c)
    BY <1>0, <2>1 DEF Answerable, Unspent, Flat
  <2>3. ASSUME now' < window'.until PROVE \E c \in DOMAIN chals' : Answerable(c)'
    <3>1. now < window.until
      BY <1>0, <2>3 DEF Flat
    <3>2. PICK c \in DOMAIN chals : Answerable(c)
      BY <3>1 DEF FInv, WindowMatches
    <3>3. chals[c].exp = window.until
      BY <3>2 DEF FInv, WindowMatches
    <3>4. Answerable(c)'
      BY <1>0, <2>1, <2>3, <3>2, <3>3 DEF Answerable, Unspent, Flat
    <3> QED
      BY <1>0, <3>2, <3>4
  <2> QED
    BY <1>0, <2>2, <2>3 DEF FInv, WindowMatches, LoginBudget
<1>5. CodesApart' /\ ProofsBurn' /\ TasksKnow'
  BY <1>0, <1>1, <1>2, CodesQuiet, ProofsQuiet, TasksStand
<1>6. NoOrphanRecovery' /\ SessionBornInEpoch' /\ MailboxNotTwice'
  BY <1>0, SessionsStand DEF NoOrphanRecovery, HasSecondFactor
<1> QED
  BY <1>1, <1>3, <1>4, <1>5, <1>6 DEF FInv

-------------------------------------------------------------------------------
(***************************************************************************)
(* Guesses, mailed codes and the sweeper.                                  *)
(***************************************************************************)

\* An UPDATE of the challenges.
LEMMA ChalsUpdated ==
    ASSUME FTyped, DOMAIN chals' = DOMAIN chals, chals' = [c \in DOMAIN chals' |-> chals'[c]],
           \A c \in DOMAIN chals :
              /\ chals'[c] \in Challenges
              /\ chals'[c].ver = chals[c].ver /\ chals'[c].exp = chals[c].exp
              /\ chals'[c].proven = chals[c].proven
              /\ chals'[c].purpose \in {chals[c].purpose, "gone"}
              /\ chals[c].used => chals'[c].used
              /\ chals'[c].purpose = "gone" => chals'[c].used
    PROVE  chals' \in Seq(Challenges) /\ ChalsKeep
<1>1. chals \in Seq(Challenges)
  BY RowTypes
<1>2. chals' \in Seq(Challenges)
  BY <1>1, SeqMap
<1> QED
  BY <1>2 DEF ChalsKeep

\* One challenge at most can be answered.
LEMMA OneAnswerable ==
    ASSUME ChallengesApart, NEW c \in DOMAIN chals, NEW d \in DOMAIN chals, Answerable(c), Answerable(d)
    PROVE  c = d
BY DEF ChallengesApart, Answerable

\* The live challenge of a sign-in request is the one that can be answered.
LEMMA LiveIsAnswerable ==
    ASSUME FInv, NEW t, Knows(t), t.op \in {"verify", "send"}, Live(t.ch)
    PROVE  /\ t.ch \in DOMAIN chals /\ Answerable(t.ch) /\ chals[t.ch].purpose = PurposeTOTP
           /\ chals[t.ch].att = window.guesses /\ chals[t.ch].sends = window.sends
           /\ chals[t.ch].proven = window.proven /\ chals[t.ch].exp = window.until
<1>1. t.ch \in DOMAIN chals /\ chals[t.ch].purpose \in {PurposeTOTP, "gone"}
  BY DEF Knows
<1>2. Unspent(t.ch) /\ chals[t.ch].ver = acct.epoch
  BY DEF Live, AtEpoch
<1>3. chals[t.ch].purpose = PurposeTOTP
  BY <1>1, <1>2 DEF FInv, ChallengesApart, Unspent
<1>4. Answerable(t.ch)
  BY <1>2, <1>3 DEF Answerable
<1> QED
  BY <1>1, <1>3, <1>4 DEF FInv, WindowMatches

\* A challenge with one guess, or one mail, more.
LEMMA CountedRow ==
    ASSUME NEW r \in Challenges, NEW q,
           q = [r EXCEPT !.att = @ + 1] \/ q = [r EXCEPT !.sends = @ + 1]
    PROVE  /\ q \in Challenges /\ q.ver = r.ver /\ q.exp = r.exp
           /\ q.proven = r.proven /\ q.used = r.used /\ q.purpose = r.purpose
           /\ q = [r EXCEPT !.att = @ + 1] => q.att = r.att + 1 /\ q.sends = r.sends
           /\ q = [r EXCEPT !.sends = @ + 1] => q.att = r.att /\ q.sends = r.sends + 1
<1>1. r.att \in Nat /\ r.sends \in Nat /\ r.att + 1 \in Nat /\ r.sends + 1 \in Nat
  BY DEF Challenges
<1>2. CASE q = [r EXCEPT !.att = @ + 1]
  BY <1>1, <1>2 DEF Challenges
<1>3. CASE q = [r EXCEPT !.sends = @ + 1]
  BY <1>1, <1>3 DEF Challenges
<1> QED
  BY <1>2, <1>3

\* Counting a guess, or a mail, on one challenge.
LEMMA Counted ==
    ASSUME FInv, NEW c \in DOMAIN chals,
           \/ chals' = [chals EXCEPT ![c].att = @ + 1]
           \/ chals' = [chals EXCEPT ![c].sends = @ + 1]
    PROVE  /\ chals' \in Seq(Challenges) /\ ChalsKeep /\ DOMAIN chals' = DOMAIN chals
           /\ \A d \in DOMAIN chals : /\ chals'[d].used = chals[d].used
                                      /\ chals'[d].purpose = chals[d].purpose
                                      /\ d # c => chals'[d] = chals[d]
           /\ chals' = [chals EXCEPT ![c].att = @ + 1] =>
                 chals'[c].att = chals[c].att + 1 /\ chals'[c].sends = chals[c].sends
           /\ chals' = [chals EXCEPT ![c].sends = @ + 1] =>
                 chals'[c].att = chals[c].att /\ chals'[c].sends = chals[c].sends + 1
<1>1. /\ FTyped /\ chals \in Seq(Challenges) /\ \A d \in DOMAIN chals : chals[d] \in Challenges
      /\ \A d \in DOMAIN chals : chals[d].purpose = "gone" => chals[d].used
  BY RowTypes DEF FInv, ChallengesApart
<1>2. DOMAIN chals' = DOMAIN chals /\ chals' = [d \in DOMAIN chals' |-> chals'[d]]
  BY <1>1
<1>3. chals[c].att \in Nat /\ chals[c].sends \in Nat
  BY <1>1 DEF Challenges
<1>4. CASE chals' = [chals EXCEPT ![c].att = @ + 1]
  <2>1. chals'[c] = [chals[c] EXCEPT !.att = @ + 1] /\ \A d \in DOMAIN chals : d # c => chals'[d] = chals[d]
    BY <1>1, <1>4
  <2>2. /\ chals'[c] \in Challenges /\ chals'[c].ver = chals[c].ver /\ chals'[c].exp = chals[c].exp
        /\ chals'[c].proven = chals[c].proven /\ chals'[c].used = chals[c].used
        /\ chals'[c].purpose = chals[c].purpose /\ chals'[c].att = chals[c].att + 1
        /\ chals'[c].sends = chals[c].sends
    BY <1>1, <2>1, CountedRow
  <2>3. chals' \in Seq(Challenges) /\ ChalsKeep
    <3>1. ASSUME NEW d \in DOMAIN chals
          PROVE  /\ chals'[d] \in Challenges
                 /\ chals'[d].ver = chals[d].ver /\ chals'[d].exp = chals[d].exp
                 /\ chals'[d].proven = chals[d].proven
                 /\ chals'[d].purpose \in {chals[d].purpose, "gone"}
                 /\ chals[d].used => chals'[d].used
                 /\ chals'[d].purpose = "gone" => chals'[d].used
      BY <1>1, <2>1, <2>2
    <3> QED
      BY <1>1, <1>2, <3>1, ChalsUpdated
  <2>4. chals' # [chals EXCEPT ![c].sends = @ + 1]
    <3>1. ASSUME chals' = [chals EXCEPT ![c].sends = @ + 1] PROVE FALSE
      <4>1. chals'[c] = [chals[c] EXCEPT !.sends = @ + 1]
        BY <1>1, <3>1
      <4>2. chals'[c].sends = chals[c].sends + 1
        BY <1>1, <4>1 DEF Challenges
      <4> QED
        BY <1>3, <2>2, <4>2
    <3> QED
      BY <3>1
  <2> QED
    BY <1>2, <2>1, <2>2, <2>3, <2>4
<1>5. CASE chals' = [chals EXCEPT ![c].sends = @ + 1]
  <2>1. chals'[c] = [chals[c] EXCEPT !.sends = @ + 1] /\ \A d \in DOMAIN chals : d # c => chals'[d] = chals[d]
    BY <1>1, <1>5
  <2>2. /\ chals'[c] \in Challenges /\ chals'[c].ver = chals[c].ver /\ chals'[c].exp = chals[c].exp
        /\ chals'[c].proven = chals[c].proven /\ chals'[c].used = chals[c].used
        /\ chals'[c].purpose = chals[c].purpose /\ chals'[c].att = chals[c].att
        /\ chals'[c].sends = chals[c].sends + 1
    BY <1>1, <2>1, CountedRow
  <2>3. chals' \in Seq(Challenges) /\ ChalsKeep
    <3>1. ASSUME NEW d \in DOMAIN chals
          PROVE  /\ chals'[d] \in Challenges
                 /\ chals'[d].ver = chals[d].ver /\ chals'[d].exp = chals[d].exp
                 /\ chals'[d].proven = chals[d].proven
                 /\ chals'[d].purpose \in {chals[d].purpose, "gone"}
                 /\ chals[d].used => chals'[d].used
                 /\ chals'[d].purpose = "gone" => chals'[d].used
      BY <1>1, <2>1, <2>2
    <3> QED
      BY <1>1, <1>2, <3>1, ChalsUpdated
  <2>4. chals' # [chals EXCEPT ![c].att = @ + 1]
    <3>1. ASSUME chals' = [chals EXCEPT ![c].att = @ + 1] PROVE FALSE
      <4>1. chals'[c] = [chals[c] EXCEPT !.att = @ + 1]
        BY <1>1, <3>1
      <4>2. chals'[c].att = chals[c].att + 1
        BY <1>1, <4>1 DEF Challenges
      <4> QED
        BY <1>3, <2>2, <4>2
    <3> QED
      BY <3>1
  <2> QED
    BY <1>2, <2>1, <2>2, <2>3, <2>4
<1> QED
  BY <1>4, <1>5

\* The window with one guess, or one mail, more.
LEMMA CountedWindow ==
    ASSUME FTyped, \/ window' = [window EXCEPT !.guesses = @ + 1]
                   \/ window' = [window EXCEPT !.sends = @ + 1]
    PROVE  window' \in Windows
<1>1. PICK w \in Windows : w = window
  BY DEF FTyped
<1>2. w.guesses + 1 \in Nat /\ w.sends + 1 \in Nat
  BY DEF Windows
<1>3. [w EXCEPT !.guesses = @ + 1] \in Windows
  BY <1>2 DEF Windows
<1>4. [w EXCEPT !.sends = @ + 1] \in Windows
  BY <1>2 DEF Windows
<1> QED
  BY <1>1, <1>3, <1>4

\* The window counts what the challenge that can be answered counts.
LEMMA CountMatches ==
    ASSUME FInv, FTyped', NEW c \in DOMAIN chals, Answerable(c), UNCHANGED <<now, acct>>,
           \/ /\ chals' = [chals EXCEPT ![c].att = @ + 1] /\ chals[c].att < MaxAttempts
              /\ window' = [window EXCEPT !.guesses = @ + 1]
           \/ /\ chals' = [chals EXCEPT ![c].sends = @ + 1] /\ chals[c].sends < MaxSends
              /\ window' = [window EXCEPT !.sends = @ + 1]
    PROVE  ChallengesApart' /\ WindowMatches'
<1>0. Flat /\ FTyped /\ ChallengesApart /\ WindowMatches
  BY Parts
<1>1. /\ ChalsKeep /\ DOMAIN chals' = DOMAIN chals
      /\ \A d \in DOMAIN chals : /\ chals'[d].used = chals[d].used
                                 /\ chals'[d].purpose = chals[d].purpose
                                 /\ d # c => chals'[d] = chals[d]
  BY Counted
<1>2. ChallengesApart'
  BY <1>0, <1>1, ApartStays DEF Flat
<1>3. \A d \in DOMAIN chals : Answerable(d)' <=> Answerable(d)
  BY <1>1 DEF Answerable, Unspent, ChalsKeep
<1>4. \A d \in DOMAIN chals : Answerable(d) => d = c
  BY <1>0, OneAnswerable
<1>5. /\ chals'[c].att = window'.guesses /\ chals'[c].sends = window'.sends
      /\ window'.until = window.until /\ window'.proven = window.proven /\ LoginBudget'
  <2>1. /\ chals[c].att = window.guesses /\ chals[c].sends = window.sends
        /\ window.guesses <= MaxAttempts /\ window.sends <= MaxSends /\ window \in Windows
        /\ window.guesses \in Nat /\ window.sends \in Nat
    BY <1>0 DEF WindowMatches, FTyped, Flat, LoginBudget
  <2>2. CASE /\ chals' = [chals EXCEPT ![c].att = @ + 1] /\ chals[c].att < MaxAttempts
             /\ window' = [window EXCEPT !.guesses = @ + 1]
    <3>1. chals'[c].att = chals[c].att + 1 /\ chals'[c].sends = chals[c].sends
      BY <2>2, Counted
    <3>2. /\ window'.guesses = window.guesses + 1 /\ window'.sends = window.sends
          /\ window'.until = window.until /\ window'.proven = window.proven
      BY <2>1, <2>2 DEF Windows
    <3> QED
      BY <2>1, <2>2, <3>1, <3>2, Bounds DEF LoginBudget
  <2>3. CASE /\ chals' = [chals EXCEPT ![c].sends = @ + 1] /\ chals[c].sends < MaxSends
             /\ window' = [window EXCEPT !.sends = @ + 1]
    <3>1. chals'[c].att = chals[c].att /\ chals'[c].sends = chals[c].sends + 1
      BY <2>3, Counted
    <3>2. /\ window'.guesses = window.guesses /\ window'.sends = window.sends + 1
          /\ window'.until = window.until /\ window'.proven = window.proven
      BY <2>1, <2>3 DEF Windows
    <3> QED
      BY <2>1, <2>3, <3>1, <3>2, Bounds DEF LoginBudget
  <2> QED
    BY <2>2, <2>3
<1>6. ASSUME NEW d \in DOMAIN chals', Answerable(d)'
      PROVE  /\ chals'[d].att = window'.guesses /\ chals'[d].sends = window'.sends
             /\ chals'[d].proven = window'.proven /\ chals'[d].exp = window'.until
  <2>1. d = c
    BY <1>1, <1>3, <1>4, <1>6
  <2> QED
    BY <1>0, <1>1, <1>5, <2>1 DEF WindowMatches, ChalsKeep
<1>7. now' < window'.until => \E d \in DOMAIN chals' : Answerable(d)'
  BY <1>1, <1>3
<1> QED
  BY <1>2, <1>5, <1>6, <1>7 DEF WindowMatches

\* A guess is reserved: the window counts what the challenge counts.
LEMMA VerifyBumpInv ==
    ASSUME FInv, NEW p \in Hands, VerifyBump(p)
    PROVE  FInv'
<1>0. /\ FTyped /\ ProofsBurn /\ CodesApart /\ NoOrphanRecovery /\ TasksKnow /\ Flat
      /\ task[p] \in Requests /\ Knows(task[p]) /\ task[p].op = "verify" /\ task[p].pc = "bump"
      /\ UNCHANGED <<now, acct, totp, mailf, recov, sets, otps, signed, resets, seeds, spent>>
  BY Parts, Busy DEF VerifyBump, At
<1>1. CASE Leave(p) /\ UNCHANGED <<chals, window>>
  BY <1>0, <1>1, LeaveOnly DEF rows, hist
<1>2. CASE Bumpable(task[p].ch) /\ BumpChallengeAttempt(task[p].ch) /\ Goto(p, "proof")
  <2>1. PICK c : c = task[p].ch
    OBVIOUS
  <2>2. /\ c \in DOMAIN chals /\ Answerable(c) /\ chals[c].purpose = PurposeTOTP
        /\ chals[c].att < MaxAttempts
    BY <1>0, <1>2, <2>1, LiveIsAnswerable DEF Bumpable
  <2>3. /\ chals' = [chals EXCEPT ![c].att = @ + 1]
        /\ window' = [window EXCEPT !.guesses = @ + 1]
    BY <1>2, <2>1, <2>2 DEF BumpChallengeAttempt
  <2>4. chals' \in Seq(Challenges) /\ ChalsKeep
    BY <2>2, <2>3, Counted
  <2>5. window' \in Windows
    BY <1>0, <2>3, CountedWindow
  <2>6. task \in [Hands -> Tasks]
    BY <1>0 DEF FTyped
  <2>7. PICK t : t = [task[p] EXCEPT !.pc = "proof"]
    OBVIOUS
  <2>8. t \in Requests /\ task' = [task EXCEPT ![p] = t]
    BY <1>0, <1>2, <2>6, <2>7 DEF Goto, Requests, VerifyPcs
  <2>9. FTyped'
    BY <1>0, <2>4, <2>5, <2>6, <2>8 DEF FTyped, Tasks
  <2>10. Knows(t)
    BY <1>0, <2>7 DEF Knows, Requests
  <2>11. FactorsKeep
    BY <1>0, FactorsStand
  <2>12. Knows(t)'
    BY <1>0, <2>4, <2>8, <2>9, <2>10, <2>11, KnowsStays
  <2>13. TasksKnow'
    BY <1>0, <2>4, <2>8, <2>9, <2>11, <2>12, TasksKeep DEF Tasks
  <2>14. ChallengesApart' /\ WindowMatches'
    BY <1>0, <2>2, <2>3, <2>9, CountMatches
  <2>15. CodesApart' /\ ProofsBurn'
    BY <1>0, <2>4, <2>9, CodesQuiet, ProofsQuiet
  <2>16. NoOrphanRecovery' /\ SessionBornInEpoch' /\ MailboxNotTwice'
    BY <1>0, SessionsStand DEF NoOrphanRecovery, HasSecondFactor
  <2> QED
    BY <2>9, <2>13, <2>14, <2>15, <2>16 DEF FInv
<1> QED
  BY <1>1, <1>2 DEF VerifyBump

\* A guess at an enrollment is counted by its own challenge, not by the window.
LEMMA ConfirmEmailBeginInv ==
    ASSUME FInv, NEW p \in Hands, NEW s \in Nat, NEW c \in Nat, ConfirmEmailBegin(p, s, c)
    PROVE  FInv'
<1>0. /\ FTyped /\ ProofsBurn /\ CodesApart /\ NoOrphanRecovery /\ TasksKnow /\ Flat
      /\ UNCHANGED <<now, acct, totp, mailf, recov, sets, otps, signed, resets, seeds, spent>>
  BY Parts DEF ConfirmEmailBegin
<1>1. PICK i \in OfPurpose("enroll") \cup {0} :
         Principal(p, "confirm", "mail", s, c, [kind |-> "mail", n |-> i, seed |-> 0], FALSE)
  BY DEF ConfirmEmailBegin
<1>2. PICK x : x = [kind |-> "mail", n |-> i, seed |-> 0]
  OBVIOUS
<1>3. x \in Proofs /\ x.kind = "mail"
  <2>1. otps \in Seq(Codes)
    BY <1>0 DEF FTyped
  <2>2. i \in Nat
    BY <2>1 DEF OfPurpose
  <2> QED
    BY <1>2, <2>2 DEF Proofs
<1>4. /\ c # 0 => s = 0 /\ ResolveChallenge(c, PurposeEnroll)
      /\ \E t \in Requests : task' = [task EXCEPT ![p] = t] /\ Knows(t)
  BY <1>1, <1>2, <1>3, PrincipalIs DEF FactorPcs
<1>5. PICK t \in Requests : task' = [task EXCEPT ![p] = t] /\ Knows(t)
  BY <1>4
<1>6. CASE c = 0
  <2>1. UNCHANGED <<chals, window>>
    BY <1>6 DEF ConfirmEmailBegin
  <2> QED
    BY <1>0, <1>5, <2>1, HandOnly DEF rows, hist, Tasks
<1>7. CASE c # 0
  <2>1. /\ c \in DOMAIN chals /\ chals[c].purpose = PurposeEnroll
        /\ BumpChallengeAttempt(c)
    BY <1>4, <1>7, Resolved DEF ConfirmEmailBegin
  <2>2. chals' = [chals EXCEPT ![c].att = @ + 1] /\ window' = window
    BY <2>1 DEF BumpChallengeAttempt, PurposeEnroll, PurposeTOTP
  <2>3. /\ chals' \in Seq(Challenges) /\ ChalsKeep /\ DOMAIN chals' = DOMAIN chals
        /\ \A d \in DOMAIN chals : chals'[d].used = chals[d].used /\ (d # c => chals'[d] = chals[d])
    BY <2>1, <2>2, Counted
  <2>4. FTyped'
    BY <1>0, <1>5, <2>2, <2>3 DEF FTyped, Tasks
  <2>5. FactorsKeep
    BY <1>0, FactorsStand
  <2>6. Knows(t)'
    BY <1>0, <1>5, <2>3, <2>4, <2>5, KnowsStays
  <2>7. TasksKnow'
    BY <1>0, <1>5, <2>3, <2>4, <2>5, <2>6, TasksKeep DEF Tasks
  <2>8. ChallengesApart'
    BY <1>0, <2>3, <2>4, ApartStays DEF FInv, Flat
  <2>9. ASSUME NEW d \in DOMAIN chals, Answerable(d)
        PROVE  /\ chals'[d].att = chals[d].att /\ chals'[d].sends = chals[d].sends
               /\ ~chals'[d].used
    <3>1. d # c /\ ~chals[d].used
      BY <2>1, <2>9 DEF Answerable, Unspent, PurposeEnroll, PurposeTOTP
    <3> QED
      BY <2>3, <3>1
  <2>10. WindowMatches'
    BY <1>0, <2>2, <2>3, <2>4, <2>9, WindowStays DEF FInv
  <2>11. CodesApart' /\ ProofsBurn'
    BY <1>0, <2>3, <2>4, CodesQuiet, ProofsQuiet
  <2>12. NoOrphanRecovery' /\ SessionBornInEpoch' /\ MailboxNotTwice'
    BY <1>0, SessionsStand DEF NoOrphanRecovery, HasSecondFactor
  <2> QED
    BY <2>4, <2>7, <2>8, <2>10, <2>11, <2>12 DEF FInv
<1> QED
  BY <1>6, <1>7

\* A sign-in code is mailed: within the budget, and for a challenge the mailbox did not open.
LEMMA CreateChallengeEmailOTPInv ==
    ASSUME FInv, NEW p \in Hands, CreateChallengeEmailOTP(p)
    PROVE  FInv'
<1>0. /\ FTyped /\ ProofsBurn /\ CodesApart /\ NoOrphanRecovery /\ TasksKnow /\ Flat
      /\ task[p] \in Requests /\ Knows(task[p]) /\ task[p].op = "send" /\ Leave(p)
      /\ UNCHANGED <<now, acct, totp, mailf, recov, sets, signed, resets, seeds, spent>>
  BY Parts, Busy DEF CreateChallengeEmailOTP, At
<1>1. PICK c : c = task[p].ch
  OBVIOUS
<1>2. /\ c \in DOMAIN chals /\ Answerable(c) /\ chals[c].sends < MaxSends /\ ~chals[c].proven
      /\ c \in Nat
  BY <1>0, <1>1, LiveIsAnswerable DEF CreateChallengeEmailOTP, MaySend, Knows, Requests
<1>3. /\ chals' = [chals EXCEPT ![c].sends = @ + 1] /\ MintCode("login", c)
      /\ window' = [window EXCEPT !.sends = @ + 1]
  BY <1>1 DEF CreateChallengeEmailOTP
<1>4. chals' \in Seq(Challenges) /\ ChalsKeep
  BY <1>2, <1>3, Counted
<1>5. /\ otps' \in Seq(Codes) /\ CodesKeep
      /\ \A i \in DOMAIN otps' : i \notin DOMAIN otps => otps'[i].kind = "login" /\ otps'[i].ch = c
  BY <1>0, <1>2, <1>3, Minted
<1>6. window' \in Windows
  BY <1>0, <1>3, CountedWindow
<1>7. FTyped'
  BY <1>0, <1>4, <1>5, <1>6, LeaveIs DEF FTyped
<1>8. ChallengesApart' /\ WindowMatches'
  BY <1>0, <1>2, <1>3, <1>7, CountMatches
<1>9. CodesApart'
  BY <1>0, <1>2, <1>4, <1>5, CodesStay
<1>10. ProofsBurn' /\ TasksKnow'
  BY <1>0, <1>4, <1>5, <1>7, ProofsQuiet, FactorsStand, TasksLeave
<1>11. NoOrphanRecovery' /\ SessionBornInEpoch' /\ MailboxNotTwice'
  BY <1>0, SessionsStand DEF NoOrphanRecovery, HasSecondFactor
<1> QED
  BY <1>7, <1>8, <1>9, <1>10, <1>11 DEF FInv

\* A step-up code is mailed to an account with the e-mail factor.
LEMMA CreateStepUpEmailOTPInv ==
    ASSUME FInv, NEW p \in Hands, CreateStepUpEmailOTP(p)
    PROVE  FInv'
<1>0. /\ FTyped /\ ProofsBurn /\ CodesApart /\ NoOrphanRecovery /\ TasksKnow /\ Leave(p)
      /\ UNCHANGED <<now, acct, totp, mailf, recov, sets, chals, signed, resets, seeds, spent, window>>
  BY Parts DEF CreateStepUpEmailOTP, hist
<1>1. CASE ~MayMintStepUp(p)
  <2>1. UNCHANGED otps
    BY <1>1 DEF CreateStepUpEmailOTP
  <2> QED
    BY <1>0, <2>1, LeaveOnly DEF rows, hist
<1>2. CASE MayMintStepUp(p)
  <2>1. MintCode("stepup", 0) /\ mailf.conf
    BY <1>2 DEF CreateStepUpEmailOTP, MayMintStepUp
  <2>2. /\ otps' \in Seq(Codes) /\ CodesKeep
        /\ \A i \in DOMAIN otps' : i \notin DOMAIN otps => otps'[i].kind = "stepup" /\ otps'[i].ch = 0
    BY <1>0, <2>1, Minted
  <2>3. FTyped'
    BY <1>0, <2>2, LeaveIs DEF FTyped
  <2>4. ChallengesApart' /\ WindowMatches' /\ ChalsKeep
    BY <1>0, <2>3, ChalsQuiet
  <2>5. CodesApart'
    BY <1>0, <2>1, <2>2, <2>4, CodesStay
  <2>6. ProofsBurn' /\ TasksKnow'
    BY <1>0, <2>2, <2>3, <2>4, ProofsQuiet, FactorsStand, TasksLeave
  <2>7. NoOrphanRecovery' /\ SessionBornInEpoch' /\ MailboxNotTwice'
    BY <1>0, SessionsStand DEF NoOrphanRecovery, HasSecondFactor
  <2> QED
    BY <2>3, <2>4, <2>5, <2>6, <2>7 DEF FInv
<1> QED
  BY <1>1, <1>2

\* The code of an address is mailed.
LEMMA CreateEmailVerificationInv ==
    ASSUME FInv, CreateEmailVerification
    PROVE  FInv'
<1>0. /\ FTyped /\ ProofsBurn /\ CodesApart /\ NoOrphanRecovery /\ TasksKnow /\ MintCode("address", 0)
      /\ UNCHANGED <<now, acct, totp, mailf, recov, sets, chals, signed, resets, seeds, task, spent, window>>
  BY Parts DEF CreateEmailVerification, hist
<1>2. /\ otps' \in Seq(Codes) /\ CodesKeep
      /\ \A i \in DOMAIN otps' : i \notin DOMAIN otps => otps'[i].kind = "address" /\ otps'[i].ch = 0
  BY <1>0, Minted
<1>3. FTyped'
  BY <1>0, <1>2 DEF FTyped
<1>4. ChallengesApart' /\ WindowMatches' /\ ChalsKeep
  BY <1>0, <1>3, ChalsQuiet
<1>5. CodesApart'
  BY <1>0, <1>2, <1>4, CodesStay
<1>6. ProofsBurn' /\ TasksKnow'
  BY <1>0, <1>2, <1>3, <1>4, ProofsQuiet, FactorsStand, TasksStand
<1>7. NoOrphanRecovery' /\ SessionBornInEpoch' /\ MailboxNotTwice'
  BY <1>0, SessionsStand DEF NoOrphanRecovery, HasSecondFactor
<1> QED
  BY <1>3, <1>4, <1>5, <1>6, <1>7 DEF FInv

\* The code of an address is used: the address is verified.
LEMMA ConsumeEmailVerificationInv ==
    ASSUME FInv, NEW i \in DOMAIN otps, ConsumeEmailVerification(i)
    PROVE  FInv'
<1>0. /\ FTyped /\ ProofsBurn /\ CodesApart /\ NoOrphanRecovery /\ TasksKnow
      /\ otps' = [otps EXCEPT ![i].used = TRUE] /\ acct' = [acct EXCEPT !.verified = TRUE]
      /\ UNCHANGED <<now, totp, mailf, recov, sets, chals, signed, resets, seeds, task, spent, window>>
  BY Parts DEF ConsumeEmailVerification, hist
<1>1. /\ acct' \in Accts /\ acct'.epoch = acct.epoch /\ acct'.mandatory = acct.mandatory
      /\ acct'.active = acct.active
  BY <1>0 DEF FTyped, Accts
<1>2. otps' \in Seq(Codes) /\ CodesKeep /\ DOMAIN otps' = DOMAIN otps
  <2>1. PICK x : x = [kind |-> "mail", n |-> i, seed |-> 0]
    OBVIOUS
  <2>2. otps \in Seq(Codes)
    BY <1>0 DEF FTyped
  <2>3. x \in Proofs /\ x.kind = "mail" /\ x.n \in DOMAIN otps /\ otps' = UsedCode(x)
    BY <1>0, <2>1, <2>2 DEF Proofs, UsedCode
  <2> QED
    BY <1>0, <2>3, CodeUsed
<1>3. FTyped'
  BY <1>0, <1>1, <1>2 DEF FTyped
<1>4. ChallengesApart' /\ WindowMatches' /\ ChalsKeep
  BY <1>0, <1>1, <1>3, ChalsQuiet
<1>5. FactorsKeep
  BY <1>0, <1>1 DEF FactorsKeep
<1>6. CodesApart'
  BY <1>0, <1>2, <1>4, CodesStay
<1>7. ProofsBurn' /\ TasksKnow'
  BY <1>0, <1>2, <1>3, <1>4, <1>5, ProofsQuiet, TasksStand
<1>8. NoOrphanRecovery' /\ SessionBornInEpoch' /\ MailboxNotTwice'
  BY <1>0, SessionsStand DEF NoOrphanRecovery, HasSecondFactor
<1> QED
  BY <1>3, <1>4, <1>6, <1>7, <1>8 DEF FInv

\* A swept challenge was over, and a swept code too.
LEMMA SweepTwoFactorInv ==
    ASSUME FInv, SweepTwoFactor
    PROVE  FInv'
<1>0. /\ FTyped /\ ProofsBurn /\ CodesApart /\ NoOrphanRecovery /\ TasksKnow /\ Flat
      /\ UNCHANGED <<now, acct, totp, mailf, recov, sets, signed, seeds, task, spent, window>>
  BY Parts DEF SweepTwoFactor, hist
<1>1. /\ \A c \in DOMAIN chals : chals[c] \in Challenges /\ chals[c].exp \in Nat
      /\ \A c \in DOMAIN chals : chals[c].purpose = "gone" => chals[c].used
      /\ \A i \in DOMAIN otps : otps[i] \in Codes
  BY RowTypes DEF FInv, ChallengesApart
<1>2. Retain \in Nat
  BY FactorsAssumption
<1>3. /\ DOMAIN chals' = DOMAIN chals /\ chals' = [c \in DOMAIN chals' |-> chals'[c]]
      /\ DOMAIN otps' = DOMAIN otps /\ otps' = [i \in DOMAIN otps' |-> otps'[i]]
      /\ DOMAIN resets' = DOMAIN resets /\ resets' = [i \in DOMAIN resets' |-> resets'[i]]
  BY DEF SweepTwoFactor
<1>4. ASSUME NEW c \in DOMAIN chals
      PROVE  /\ chals'[c] \in Challenges
             /\ chals'[c].ver = chals[c].ver /\ chals'[c].exp = chals[c].exp
             /\ chals'[c].proven = chals[c].proven
             /\ chals'[c].purpose \in {chals[c].purpose, "gone"}
             /\ chals[c].used => chals'[c].used
             /\ chals'[c].purpose = "gone" => chals'[c].used
  <2>1. chals'[c] = IF Old(chals[c]) THEN [chals[c] EXCEPT !.purpose = "gone", !.used = TRUE] ELSE chals[c]
    BY DEF SweepTwoFactor
  <2> QED
    BY <1>1, <2>1 DEF Challenges
<1>5. ASSUME NEW i \in DOMAIN otps
      PROVE  /\ otps'[i] \in Codes
             /\ otps'[i].kind \in {otps[i].kind, "gone"}
             /\ otps[i].used => otps'[i].used
             /\ ~otps'[i].used /\ otps'[i].kind # "gone" => otps'[i].ch = otps[i].ch
  <2>1. otps'[i] = IF Old(otps[i]) THEN [otps[i] EXCEPT !.kind = "gone", !.ch = 0] ELSE otps[i]
    BY DEF SweepTwoFactor
  <2>2. PICK r \in Codes : r = otps[i]
    BY <1>1
  <2>3. [r EXCEPT !.kind = "gone", !.ch = 0] \in Codes
    BY DEF Codes
  <2>4. r.kind \in {"login", "enroll", "stepup", "address", "gone"} /\ r.used \in BOOLEAN
    BY DEF Codes
  <2>5. [r EXCEPT !.kind = "gone", !.ch = 0].kind = "gone"
        /\ [r EXCEPT !.kind = "gone", !.ch = 0].used = r.used
    BY DEF Codes
  <2> QED
    BY <2>1, <2>2, <2>3, <2>4, <2>5
<1>6. chals' \in Seq(Challenges) /\ ChalsKeep
  BY <1>0, <1>3, <1>4, ChalsUpdated
<1>7. otps' \in Seq(Codes) /\ CodesKeep
  BY <1>0, <1>3, <1>5, CodesUpdated
<1>8. resets' \in Seq(Links)
  <2>1. resets \in Seq(Links)
    BY <1>0 DEF FTyped
  <2>2. \A i \in DOMAIN resets : resets[i] \in Links
    BY <2>1
  <2>3. \A i \in DOMAIN resets : resets'[i] \in Links
    BY <2>2 DEF SweepTwoFactor, Links
  <2> QED
    BY <1>3, <2>1, <2>3, SeqMap
<1>9. FTyped'
  BY <1>0, <1>6, <1>7, <1>8 DEF FTyped
<1>10. ChallengesApart'
  BY <1>0, <1>3, <1>6, <1>9, ApartStays DEF FInv, Flat
<1>11. ASSUME NEW c \in DOMAIN chals, Answerable(c)
       PROVE  /\ chals'[c].att = chals[c].att /\ chals'[c].sends = chals[c].sends
              /\ ~chals'[c].used
  <2>1. ~Old(chals[c]) /\ ~chals[c].used
    BY <1>0, <1>1, <1>2, <1>11 DEF Answerable, Unspent, Old, Flat
  <2> QED
    BY <2>1 DEF SweepTwoFactor
<1>12. WindowMatches'
  BY <1>0, <1>3, <1>6, <1>9, <1>11, WindowStays DEF FInv
<1>13. CodesApart'
  BY <1>0, <1>3, <1>6, <1>7, CodesStay
<1>14. ProofsBurn' /\ TasksKnow'
  BY <1>0, <1>6, <1>7, <1>9, ProofsQuiet, FactorsStand, TasksStand
<1>15. NoOrphanRecovery' /\ SessionBornInEpoch' /\ MailboxNotTwice'
  BY <1>0, SessionsStand DEF NoOrphanRecovery, HasSecondFactor
<1> QED
  BY <1>9, <1>10, <1>12, <1>13, <1>14, <1>15 DEF FInv

-------------------------------------------------------------------------------
(***************************************************************************)
(* Signing in.                                                             *)
(***************************************************************************)

\* A challenge that is spent.
LEMMA ChalSpent ==
    ASSUME FInv, NEW c \in DOMAIN chals, chals' = Spend(c)
    PROVE  /\ chals' \in Seq(Challenges) /\ ChalsKeep /\ DOMAIN chals' = DOMAIN chals
           /\ chals'[c].used
           /\ \A d \in DOMAIN chals : d # c => chals'[d] = chals[d]
<1>1. /\ FTyped /\ chals \in Seq(Challenges) /\ \A d \in DOMAIN chals : chals[d] \in Challenges
      /\ \A d \in DOMAIN chals : chals[d].purpose = "gone" => chals[d].used
  BY RowTypes DEF FInv, ChallengesApart
<1>2. DOMAIN chals' = DOMAIN chals /\ chals' = [d \in DOMAIN chals' |-> chals'[d]]
  BY <1>1 DEF Spend
<1>3. chals'[c] = [chals[c] EXCEPT !.used = TRUE] /\ \A d \in DOMAIN chals : d # c => chals'[d] = chals[d]
  BY <1>1 DEF Spend
<1>4. PICK r \in Challenges : r = chals[c]
  BY <1>1
<1>5. PICK q : q = [r EXCEPT !.used = TRUE]
  OBVIOUS
<1>6. q \in Challenges /\ q.ver = r.ver /\ q.exp = r.exp /\ q.proven = r.proven
      /\ q.purpose = r.purpose /\ q.used
  BY <1>5 DEF Challenges
<1>7. ASSUME NEW d \in DOMAIN chals
      PROVE  /\ chals'[d] \in Challenges
             /\ chals'[d].ver = chals[d].ver /\ chals'[d].exp = chals[d].exp
             /\ chals'[d].proven = chals[d].proven
             /\ chals'[d].purpose \in {chals[d].purpose, "gone"}
             /\ chals[d].used => chals'[d].used
             /\ chals'[d].purpose = "gone" => chals'[d].used
  BY <1>1, <1>3, <1>4, <1>5, <1>6
<1>8. chals'[c].used
  BY <1>3, <1>4, <1>5, <1>6
<1> QED
  BY <1>1, <1>2, <1>3, <1>7, <1>8, ChalsUpdated

\* A proof pays, and nothing else changes the rows it is looked up in.
LEMMA ProofPays ==
    ASSUME FInv, NEW x \in Proofs, Payable(x), totp' = UsedTOTP(x), otps' = UsedCode(x),
           recov' = UsedRecov(x), RecordProof(x), UNCHANGED <<sets, seeds>>
    PROVE  /\ totp' \in TOTPRows /\ otps' \in Seq(Codes) /\ recov' \subseteq Nat
           /\ spent' \in Seq(Proofs) /\ sets' \in Nat /\ seeds' \in Nat
           /\ CodesKeep /\ DOMAIN otps' = DOMAIN otps
           /\ totp'.conf = totp.conf /\ recov' \subseteq recov
           /\ FTyped' => ProofsBurn'
<1>0. FTyped /\ ProofsBurn /\ Flat
  BY Parts
<1>1. /\ totp' \in TOTPRows /\ totp'.seed = totp.seed /\ totp'.conf = totp.conf
      /\ totp.last <= totp'.last
      /\ x.kind = "totp" => totp'.last = x.n
      /\ ~totp.conf => totp'.last = NoVer
  BY <1>0, TOTPUsed
<1>2. /\ otps' \in Seq(Codes) /\ CodesKeep /\ DOMAIN otps' = DOMAIN otps
      /\ x.kind = "mail" => otps'[x.n].used
  BY <1>0, CodeUsed DEF Payable
<1>3. recov' \subseteq recov /\ (x.kind = "recovery" => x.n \notin recov')
  BY DEF UsedRecov
<1>4. spent' \in Seq(Proofs)
  BY <1>0 DEF RecordProof, FTyped
<1>5. ASSUME FTyped' PROVE ProofsBurn'
  <2>1. ProofsKeep
    BY <1>0, <1>1, <1>2, <1>3 DEF ProofsKeep, Flat
  <2>2. x.n \in Nat
    BY DEF Proofs
  <2>3. ProofsSpentOnce' /\ (\A i \in DOMAIN spent : Burnt(spent[i]))'
    <3>1. x.kind = "totp" /\ totp'.seed = x.seed => x.n <= totp'.last
      BY <1>1, <2>2
    <3> QED
      BY <1>0, <1>2, <1>3, <1>5, <2>1, <3>1, Paid
  <2> QED
    BY <1>0, <1>1, <1>3, <2>3 DEF ProofsBurn
<1> QED
  BY <1>0, <1>1, <1>2, <1>3, <1>4, <1>5 DEF Flat

\* The second factor pays for the session, and the window shuts with its challenge.
LEMMA Complete2FAInv ==
    ASSUME FInv, NEW p \in Hands, Complete2FA(p)
    PROVE  FInv'
<1>0. /\ FTyped /\ ChallengesApart /\ ProofsBurn /\ CodesApart /\ NoOrphanRecovery /\ TasksKnow /\ Flat
      /\ WindowShut \in Windows
      /\ task[p].proof \in Proofs /\ Knows(task[p]) /\ task[p].op = "verify" /\ Leave(p)
      /\ window' = WindowShut
      /\ UNCHANGED <<now, acct, mailf, sets, resets, seeds>>
  BY Parts, Busy DEF Complete2FA, At
<1>1. PICK x \in Proofs : x = task[p].proof
  BY <1>0
<1>2. PICK c : c = task[p].ch
  OBVIOUS
<1>3. /\ AtEpoch(task[p].ver) /\ Unspent(c) /\ SpendableAtLogin(x, c)
      /\ totp' = UsedTOTP(x) /\ otps' = UsedCode(x) /\ recov' = UsedRecov(x) /\ RecordProof(x)
      /\ chals' = Spend(c) /\ OpenSession(acct.epoch, x.kind)
  BY <1>1, <1>2 DEF Complete2FA, LoginPays, AtEpoch
<1>4. /\ c \in DOMAIN chals /\ Answerable(c) /\ chals[c].proven = window.proven
  <2>1. Live(c)
    BY <1>0, <1>2, <1>3 DEF Live, AtEpoch, Knows
  <2> QED
    BY <1>0, <1>2, <2>1, LiveIsAnswerable
<1>5. Payable(x) /\ (x.kind = "mail" => CodeLive(x.n, "login") /\ otps[x.n].ch = c)
  BY <1>3, LoginIsPayable
<1>6. /\ totp' \in TOTPRows /\ otps' \in Seq(Codes) /\ recov' \subseteq Nat
      /\ spent' \in Seq(Proofs) /\ CodesKeep /\ DOMAIN otps' = DOMAIN otps
      /\ totp'.conf = totp.conf /\ recov' \subseteq recov
      /\ FTyped' => ProofsBurn'
  BY <1>0, <1>3, <1>5, ProofPays
<1>7. /\ chals' \in Seq(Challenges) /\ ChalsKeep /\ DOMAIN chals' = DOMAIN chals
      /\ chals'[c].used /\ \A d \in DOMAIN chals : d # c => chals'[d] = chals[d]
  BY <1>3, <1>4, ChalSpent
<1>8. signed' \in Seq(Opened) /\ SessionBornInEpoch' /\ MailboxNotTwice'
  <2>1. x.kind = "mail" => ~window.proven
    BY <1>4, <1>5, <1>0 DEF CodesApart, CodeLive
  <2>2. x.kind \in {"none", "enrolled", "totp", "mail", "recovery"}
    BY DEF Proofs
  <2> QED
    BY <1>3, <2>1, <2>2, SessionOpens
<1>9. FTyped'
  BY <1>0, <1>6, <1>7, <1>8, LeaveIs DEF FTyped
<1>10. ChallengesApart'
  BY <1>0, <1>7, <1>9, ApartStays DEF Flat
<1>11. WindowMatches'
  <2>1. ASSUME NEW d \in DOMAIN chals', Answerable(d)' PROVE FALSE
    <3>1. d \in DOMAIN chals /\ d # c /\ chals'[d] = chals[d]
      BY <1>7, <2>1 DEF Answerable, Unspent
    <3>2. Answerable(d)
      BY <1>0, <2>1, <3>1 DEF Answerable, Unspent
    <3> QED
      BY <1>0, <1>4, <3>1, <3>2, OneAnswerable
  <2> QED
    BY <1>0, <1>9, <2>1, WindowCloses
<1>12. CodesApart'
  BY <1>0, <1>6, <1>7, CodesStay
<1>13. TasksKnow'
  <2>1. FactorsKeep
    BY <1>0, <1>6 DEF FactorsKeep
  <2> QED
    BY <1>0, <1>7, <1>9, <2>1, TasksLeave
<1>14. NoOrphanRecovery'
  BY <1>0, <1>6 DEF NoOrphanRecovery, HasSecondFactor
<1> QED
  BY <1>6, <1>8, <1>9, <1>10, <1>11, <1>12, <1>13, <1>14 DEF FInv

\* The proof of a link, and nothing else.
LEMMA ConsumeSecondFactorInv ==
    ASSUME FInv, NEW p \in Hands, ConsumeSecondFactor(p)
    PROVE  FInv'
<1>0. /\ FTyped /\ CodesApart /\ NoOrphanRecovery /\ TasksKnow /\ task[p].proof \in Proofs /\ Leave(p)
      /\ UNCHANGED <<now, acct, mailf, sets, chals, signed, resets, seeds, window>>
  BY Parts, Busy DEF ConsumeSecondFactor, At
<1>1. PICK x \in Proofs : x = task[p].proof
  BY <1>0
<1>2. /\ SpendableAtStepUp(x) /\ totp' = UsedTOTP(x) /\ otps' = UsedCode(x) /\ recov' = UsedRecov(x)
      /\ RecordProof(x)
  BY <1>1 DEF ConsumeSecondFactor, SpendProof
<1>3. /\ totp' \in TOTPRows /\ otps' \in Seq(Codes) /\ recov' \subseteq Nat
      /\ spent' \in Seq(Proofs) /\ CodesKeep /\ DOMAIN otps' = DOMAIN otps
      /\ totp'.conf = totp.conf /\ recov' \subseteq recov
      /\ FTyped' => ProofsBurn'
  BY <1>0, <1>2, StepUpIsPayable, ProofPays
<1>4. FTyped'
  BY <1>0, <1>3, LeaveIs DEF FTyped
<1>5. ChallengesApart' /\ WindowMatches' /\ ChalsKeep
  BY <1>0, <1>4, ChalsQuiet
<1>6. CodesApart'
  BY <1>0, <1>3, <1>5, CodesStay
<1>7. TasksKnow'
  <2>1. FactorsKeep
    BY <1>0, <1>3 DEF FactorsKeep
  <2> QED
    BY <1>0, <1>4, <1>5, <2>1, TasksLeave
<1>8. NoOrphanRecovery' /\ SessionBornInEpoch' /\ MailboxNotTwice'
  BY <1>0, <1>3, SessionsStand DEF NoOrphanRecovery, HasSecondFactor
<1> QED
  BY <1>3, <1>4, <1>5, <1>6, <1>7, <1>8 DEF FInv

\* What a new challenge continues: the only unspent one of its purpose and epoch.
LEMMA Previous ==
    ASSUME FInv, NEW purpose, NEW ver
    PROVE  \/ /\ loadPreviousChallenge(purpose, ver) = 0
              /\ \A c \in DOMAIN chals : ~(chals[c].purpose = purpose /\ chals[c].ver = ver /\ Unspent(c))
           \/ /\ loadPreviousChallenge(purpose, ver) \in DOMAIN chals
              /\ loadPreviousChallenge(purpose, ver) # 0
              /\ chals[loadPreviousChallenge(purpose, ver)].purpose = purpose
              /\ chals[loadPreviousChallenge(purpose, ver)].ver = ver
              /\ Unspent(loadPreviousChallenge(purpose, ver))
<1> DEFINE prev == {c \in DOMAIN chals : /\ chals[c].purpose = purpose
                                         /\ chals[c].ver = ver /\ Unspent(c)}
<1>1. loadPreviousChallenge(purpose, ver) =
         IF prev = {} THEN 0 ELSE CHOOSE c \in prev : \A d \in prev : d <= c
  BY DEF loadPreviousChallenge
<1>2. DOMAIN chals \subseteq Nat \ {0}
  <2>1. chals \in Seq(Challenges)
    BY DEF FInv, FTyped
  <2> QED
    BY <2>1
<1>3. \A c, d \in prev : c = d
  BY DEF FInv, ChallengesApart
<1>4. CASE prev = {}
  BY <1>1, <1>4
<1>5. CASE prev # {}
  <2>1. PICK c : c \in prev
    BY <1>5
  <2>2. \A d \in prev : d <= c
    BY <1>2, <1>3, <2>1
  <2>3. (CHOOSE e \in prev : \A d \in prev : d <= e) \in prev
    BY <2>1, <2>2
  <2>4. loadPreviousChallenge(purpose, ver) \in prev
    BY <1>1, <1>5, <2>3
  <2> QED
    BY <1>2, <2>4
<1> QED
  BY <1>4, <1>5

\* A challenge is created: it takes over the budget, the deadline and the mark of the one it
\* replaces, and so does the window.
LEMMA LoginChallengeInv ==
    ASSUME FInv, NEW p \in Hands, LoginChallenge(p)
    PROVE  FInv'
<1>0. /\ FTyped /\ ChallengesApart /\ WindowMatches /\ ProofsBurn /\ CodesApart /\ NoOrphanRecovery
      /\ TasksKnow /\ Flat /\ WindowShut \in Windows
      /\ task[p] \in Requests /\ task[p].ver = acct.epoch /\ acct.active /\ acct.epoch \in Nat
      /\ task[p].pc \in {PurposeTOTP, PurposeEnroll} /\ task[p].flag \in BOOLEAN /\ Leave(p)
      /\ CreateChallenge(task[p].pc, acct.epoch, task[p].flag)
      /\ UNCHANGED <<now, acct, totp, mailf, recov, sets, signed, resets, seeds, spent>>
  BY Parts, Busy DEF LoginChallenge, At, AtEpoch, Flat
<1>1. PICK purpose \in {PurposeTOTP, PurposeEnroll}, proven \in BOOLEAN :
        purpose = task[p].pc /\ proven = task[p].flag
  BY <1>0
<1>2. PICK prev : prev = loadPreviousChallenge(purpose, acct.epoch)
  OBVIOUS
<1>3. PICK new : new = Continued(prev, proven)
  OBVIOUS
<1>4. PICK kept : kept = [c \in DOMAIN chals |-> IF chals[c].purpose = purpose
                                                THEN [chals[c] EXCEPT !.used = TRUE] ELSE chals[c]]
  OBVIOUS
<1>5. PICK e : e = [purpose |-> purpose, ver |-> acct.epoch, att |-> new.att, sends |-> new.sends,
                    proven |-> new.proven, exp |-> new.exp, used |-> FALSE]
  OBVIOUS
<1>6. PICK id : id = Len(chals) + 1
  OBVIOUS
<1>7. /\ chals' = Append(kept, e)
      /\ otps' = inheritChallengeCodes(prev, id)
      /\ window' = IF purpose # PurposeTOTP THEN window
                   ELSE IF now < window.until
                        THEN [window EXCEPT !.proven = @ \/ proven]
                        ELSE [WindowShut EXCEPT !.until = now + TTL, !.proven = proven]
  BY <1>0, <1>1, <1>2, <1>3, <1>4, <1>5, <1>6 DEF CreateChallenge
<1>8. /\ chals \in Seq(Challenges) /\ otps \in Seq(Codes) /\ Len(chals) \in Nat
      /\ DOMAIN chals = 1..Len(chals) /\ id \in Nat /\ id \notin DOMAIN chals
      /\ \A c \in DOMAIN chals : /\ chals[c] \in Challenges /\ chals[c].ver \in Nat
                                 /\ chals[c].exp \in Nat /\ chals[c].att \in Nat
                                 /\ chals[c].sends \in Nat /\ chals[c].proven \in BOOLEAN
      /\ \A i \in DOMAIN otps : otps[i] \in Codes
  BY <1>0, <1>6, RowTypes
<1>9. \/ /\ prev = 0
         /\ \A c \in DOMAIN chals : ~(chals[c].purpose = purpose /\ chals[c].ver = acct.epoch /\ Unspent(c))
         /\ new.att = 0 /\ new.sends = 0 /\ new.proven = proven /\ new.exp = now + TTL
      \/ /\ prev \in DOMAIN chals /\ prev # 0 /\ chals[prev].purpose = purpose
         /\ chals[prev].ver = acct.epoch /\ Unspent(prev)
         /\ new.att = chals[prev].att /\ new.sends = chals[prev].sends
         /\ new.proven = (chals[prev].proven \/ proven) /\ new.exp = chals[prev].exp
  <2>1. \/ /\ prev = 0
           /\ \A c \in DOMAIN chals : ~(chals[c].purpose = purpose /\ chals[c].ver = acct.epoch /\ Unspent(c))
        \/ /\ prev \in DOMAIN chals /\ prev # 0 /\ chals[prev].purpose = purpose
           /\ chals[prev].ver = acct.epoch /\ Unspent(prev)
    BY <1>2, Previous
  <2> QED
    BY <1>3, <2>1 DEF Continued
<1>10. /\ new.att \in Nat /\ new.sends \in Nat /\ new.proven \in BOOLEAN /\ new.exp \in Nat
       /\ now < new.exp
  <2>1. now + TTL \in Nat /\ now < now + TTL
    BY <1>0, Bounds DEF Flat
  <2> QED
    BY <1>8, <1>9, <2>1 DEF Unspent
<1>11. /\ e \in Challenges /\ e.purpose = purpose /\ e.ver = acct.epoch /\ e.att = new.att
       /\ e.sends = new.sends /\ e.proven = new.proven /\ e.exp = new.exp /\ ~e.used
  BY <1>0, <1>5, <1>10 DEF Challenges
<1>12. /\ DOMAIN kept = DOMAIN chals /\ kept = [c \in DOMAIN kept |-> kept[c]]
  BY <1>4
<1>13. ASSUME NEW c \in DOMAIN chals
       PROVE  /\ kept[c] \in Challenges /\ kept[c].ver = chals[c].ver /\ kept[c].exp = chals[c].exp
              /\ kept[c].proven = chals[c].proven /\ kept[c].purpose = chals[c].purpose
              /\ chals[c].used => kept[c].used
              /\ chals[c].purpose = purpose => kept[c].used
              /\ chals[c].purpose # purpose => kept[c] = chals[c]
  <2>1. PICK r \in Challenges : r = chals[c]
    BY <1>8
  <2>2. kept[c] = IF r.purpose = purpose THEN [r EXCEPT !.used = TRUE] ELSE r
    BY <1>4, <2>1
  <2>3. PICK q : q = [r EXCEPT !.used = TRUE]
    OBVIOUS
  <2>4. q \in Challenges /\ q.ver = r.ver /\ q.exp = r.exp /\ q.proven = r.proven
        /\ q.purpose = r.purpose /\ q.used
    BY <2>3 DEF Challenges
  <2> QED
    BY <2>1, <2>2, <2>3, <2>4
<1>14. kept \in Seq(Challenges) /\ Len(kept) = Len(chals)
  BY <1>8, <1>12, <1>13, SeqMap
<1>15. /\ chals' \in Seq(Challenges) /\ DOMAIN chals' = 1..id
       /\ \A c \in DOMAIN chals : chals'[c] = kept[c]
       /\ chals'[id] = e
  BY <1>6, <1>7, <1>11, <1>12, <1>14, AppendAt
<1>16. \A c \in DOMAIN chals' : c \in DOMAIN chals \/ c = id
  BY <1>6, <1>8, <1>15
<1>17. ChalsKeep
  <2>1. DOMAIN chals \subseteq DOMAIN chals'
    BY <1>6, <1>8, <1>15
  <2> QED
    BY <1>0, <1>13, <1>15, <2>1 DEF ChalsKeep, ChallengesApart
<1>18. otps' \in Seq(Codes) /\ CodesKeep /\ DOMAIN otps' = DOMAIN otps
  <2>1. DOMAIN otps' = DOMAIN otps /\ otps' = [i \in DOMAIN otps' |-> otps'[i]]
    BY <1>7 DEF inheritChallengeCodes
  <2>2. ASSUME NEW i \in DOMAIN otps
        PROVE  /\ otps'[i] \in Codes /\ otps'[i].kind \in {otps[i].kind, "gone"}
               /\ otps[i].used => otps'[i].used
               /\ ~otps'[i].used /\ otps'[i].kind # "gone" => otps'[i].ch = otps[i].ch
    <3>1. PICK r \in Codes : r = otps[i]
      BY <1>8
    <3>2. otps'[i] = IF prev # 0 /\ r.ch = prev THEN [r EXCEPT !.ch = id, !.used = TRUE] ELSE r
      BY <1>7, <3>1 DEF inheritChallengeCodes
    <3>3. PICK q : q = [r EXCEPT !.ch = id, !.used = TRUE]
      OBVIOUS
    <3>4. q \in Codes /\ q.kind = r.kind /\ q.used
      BY <1>8, <3>3 DEF Codes
    <3> QED
      BY <3>1, <3>2, <3>3, <3>4
  <2> QED
    BY <1>0, <2>1, <2>2, CodesUpdated
<1>19. window' \in Windows
  <2>1. PICK w \in Windows : w = window
    BY <1>0 DEF FTyped
  <2>2. [w EXCEPT !.proven = @ \/ proven] \in Windows
    BY DEF Windows
  <2>3. now + TTL \in Nat
    BY <1>0, Bounds DEF Flat
  <2>4. [WindowShut EXCEPT !.until = now + TTL, !.proven = proven] \in Windows
    BY <2>3 DEF Windows, WindowShut
  <2> QED
    BY <1>7, <2>1, <2>2, <2>4
<1>20. FTyped'
  BY <1>0, <1>15, <1>18, <1>19, LeaveIs DEF FTyped
<1>21. ChallengesApart'
  <2>1. ASSUME NEW c \in DOMAIN chals', NEW d \in DOMAIN chals', Unspent(c)', Unspent(d)',
               chals'[c].purpose = chals'[d].purpose, chals'[c].ver = chals'[d].ver
        PROVE  c = d
    <3>1. CASE c \in DOMAIN chals /\ d \in DOMAIN chals
      <4>1. chals'[c] = chals[c] /\ chals'[d] = chals[d]
        BY <1>13, <1>15, <2>1, <3>1 DEF Unspent
      <4> QED
        BY <1>0, <2>1, <3>1, <4>1 DEF ChallengesApart, Unspent
    <3>2. CASE c \in DOMAIN chals /\ d = id
      BY <1>11, <1>13, <1>15, <2>1, <3>2 DEF Unspent
    <3>3. CASE c = id /\ d \in DOMAIN chals
      BY <1>11, <1>13, <1>15, <2>1, <3>3 DEF Unspent
    <3> QED
      BY <1>16, <3>1, <3>2, <3>3
  <2>2. ASSUME NEW c \in DOMAIN chals'
        PROVE  /\ chals'[c].ver <= acct'.epoch
               /\ chals'[c].ver = acct'.epoch => acct'.active
               /\ chals'[c].purpose = "gone" => chals'[c].used
    <3>1. CASE c \in DOMAIN chals
      BY <1>0, <1>13, <1>15, <3>1 DEF ChallengesApart
    <3>2. CASE c = id
      BY <1>0, <1>11, <1>15, <3>2 DEF PurposeTOTP, PurposeEnroll
    <3> QED
      BY <1>16, <3>1, <3>2
  <2> QED
    BY <2>1, <2>2 DEF ChallengesApart
<1>22. WindowMatches'
  <2>1. CASE purpose = PurposeEnroll
    <3>1. window' = window
      BY <1>7, <2>1 DEF PurposeEnroll, PurposeTOTP
    <3>2. \A c \in DOMAIN chals : Answerable(c)' <=> Answerable(c)
      BY <1>0, <1>13, <1>15, <2>1 DEF Answerable, Unspent, PurposeEnroll, PurposeTOTP
    <3>3. ~Answerable(id)'
      BY <1>11, <1>15, <2>1 DEF Answerable, PurposeEnroll, PurposeTOTP
    <3>4. ASSUME NEW c \in DOMAIN chals', Answerable(c)'
          PROVE  /\ chals'[c].att = window'.guesses /\ chals'[c].sends = window'.sends
                 /\ chals'[c].proven = window'.proven /\ chals'[c].exp = window'.until
      <4>1. c \in DOMAIN chals /\ Answerable(c) /\ chals'[c] = chals[c]
        BY <1>13, <1>15, <1>16, <2>1, <3>2, <3>3, <3>4 DEF Answerable, PurposeEnroll, PurposeTOTP
      <4> QED
        BY <1>0, <3>1, <4>1 DEF WindowMatches
    <3>5. now' < window'.until => \E c \in DOMAIN chals' : Answerable(c)'
      <4>1. DOMAIN chals \subseteq DOMAIN chals'
        BY <1>17 DEF ChalsKeep
      <4> QED
        BY <1>0, <3>1, <3>2, <4>1 DEF WindowMatches
    <3>6. LoginBudget'
      BY <1>0, <3>1 DEF WindowMatches, LoginBudget
    <3> QED
      BY <3>4, <3>5, <3>6 DEF WindowMatches
  <2>2. CASE purpose = PurposeTOTP
    <3>1. \A c \in DOMAIN chals : ~Answerable(c)'
      BY <1>13, <1>15, <2>2 DEF Answerable, Unspent
    <3>2. Answerable(id)' /\ id \in DOMAIN chals'
      BY <1>0, <1>6, <1>8, <1>10, <1>11, <1>15, <2>2 DEF Answerable, Unspent
    <3>3. /\ new.att = window'.guesses /\ new.sends = window'.sends
          /\ new.proven = window'.proven /\ new.exp = window'.until /\ LoginBudget'
      <4>1. CASE now < window.until
        <5>1. PICK w \in Windows : w = window
          BY <1>0 DEF FTyped
        <5>2. window' = [w EXCEPT !.proven = @ \/ proven]
          BY <1>7, <2>2, <4>1, <5>1
        <5>3. /\ window'.until = w.until /\ window'.guesses = w.guesses /\ window'.sends = w.sends
              /\ window'.proven = (w.proven \/ proven)
          BY <5>2 DEF Windows
        <5>4. PICK c \in DOMAIN chals : Answerable(c)
          BY <1>0, <4>1 DEF WindowMatches
        <5>5. prev \in DOMAIN chals /\ Answerable(prev) /\ new.att = chals[prev].att
              /\ new.sends = chals[prev].sends /\ new.exp = chals[prev].exp
              /\ new.proven = (chals[prev].proven \/ proven)
          BY <1>9, <2>2, <5>4 DEF Answerable
        <5> QED
          BY <1>0, <5>1, <5>3, <5>5 DEF WindowMatches, LoginBudget
      <4>2. CASE ~(now < window.until)
        <5>1. window' = [WindowShut EXCEPT !.until = now + TTL, !.proven = proven]
          BY <1>7, <2>2, <4>2
        <5>2. /\ window'.until = now + TTL /\ window'.guesses = 0 /\ window'.sends = 0
              /\ window'.proven = proven
          BY <5>1 DEF WindowShut
        <5>3. prev = 0 /\ new.att = 0 /\ new.sends = 0 /\ new.proven = proven /\ new.exp = now + TTL
          <6>1. ASSUME prev \in DOMAIN chals, chals[prev].purpose = purpose,
                       chals[prev].ver = acct.epoch, Unspent(prev)
                PROVE  FALSE
            <7>1. Answerable(prev)
              BY <2>2, <6>1 DEF Answerable
            <7> QED
              BY <1>0, <4>2, <6>1, <7>1 DEF WindowMatches, Unspent
          <6> QED
            BY <1>9, <6>1
        <5> QED
          BY <5>2, <5>3, Bounds DEF LoginBudget
      <4> QED
        BY <4>1, <4>2
    <3>4. ASSUME NEW c \in DOMAIN chals', Answerable(c)'
          PROVE  /\ chals'[c].att = window'.guesses /\ chals'[c].sends = window'.sends
                 /\ chals'[c].proven = window'.proven /\ chals'[c].exp = window'.until
      <4>1. c = id
        BY <1>16, <3>1, <3>4
      <4> QED
        BY <1>11, <1>15, <3>3, <4>1
    <3> QED
      BY <3>2, <3>3, <3>4 DEF WindowMatches
  <2> QED
    BY <2>1, <2>2
<1>23. CodesApart'
  BY <1>0, <1>17, <1>18, CodesStay
<1>24. ProofsBurn' /\ TasksKnow'
  BY <1>0, <1>17, <1>18, <1>20, ProofsQuiet, FactorsStand, TasksLeave
<1>25. NoOrphanRecovery' /\ SessionBornInEpoch' /\ MailboxNotTwice'
  BY <1>0, SessionsStand DEF NoOrphanRecovery, HasSecondFactor
<1> QED
  BY <1>20, <1>21, <1>22, <1>23, <1>24, <1>25 DEF FInv

-------------------------------------------------------------------------------
(***************************************************************************)
(* Enrolling a factor.                                                     *)
(***************************************************************************)

\* A new secret is drawn for an account without a confirmed authenticator.
LEMMA StartTOTPInv ==
    ASSUME FInv, NEW p \in Hands, StartTOTPEnrollment(p)
    PROVE  FInv'
<1>0. /\ FTyped /\ CodesApart /\ ProofsBurn /\ NoOrphanRecovery /\ TasksKnow /\ Flat
      /\ task[p].ver \in Nat /\ task[p].sid \in Nat /\ ~totp.conf /\ Leave(p)
      /\ seeds' = seeds + 1
      /\ totp' = [NoTOTP EXCEPT !.seed = seeds + 1, !.ver = task[p].ver, !.sid = task[p].sid]
      /\ UNCHANGED <<now, acct, mailf, recov, sets, otps, chals, signed, resets, spent, window>>
  BY Parts, Busy DEF StartTOTPEnrollment, At, hist
<1>1. totp' \in TOTPRows /\ totp'.seed = seeds + 1 /\ ~totp'.conf /\ totp'.last = NoVer /\ seeds' \in Nat
  <2>1. /\ seeds + 1 \in Nat /\ task[p].ver \in Vers /\ task[p].sid \in Nat /\ NoVer \in Vers
    BY <1>0 DEF Flat, Vers
  <2>2. totp' = [seed |-> seeds + 1, conf |-> FALSE, ver |-> task[p].ver, sid |-> task[p].sid,
                 last |-> NoVer]
    BY <1>0 DEF NoTOTP
  <2>3. PICK v \in Vers : v = task[p].ver
    BY <2>1
  <2>4. PICK s \in Nat : s = task[p].sid
    BY <2>1
  <2>5. PICK n \in Nat : n = seeds + 1
    BY <2>1
  <2>6. PICK q : q = [seed |-> n, conf |-> FALSE, ver |-> v, sid |-> s, last |-> NoVer]
    OBVIOUS
  <2>7. q \in TOTPRows
    BY <2>1, <2>6 DEF TOTPRows
  <2>8. q.seed = n /\ ~q.conf /\ q.last = NoVer
    BY <2>6
  <2>9. totp' = q
    BY <2>2, <2>3, <2>4, <2>5, <2>6
  <2>10. totp' \in TOTPRows
    BY <2>7, <2>9
  <2>11. totp'.seed = seeds + 1 /\ ~totp'.conf /\ totp'.last = NoVer
    BY <2>5, <2>8, <2>9
  <2> QED
    BY <1>0, <2>1, <2>5, <2>10, <2>11
<1>2. FTyped'
  BY <1>0, <1>1, LeaveIs DEF FTyped
<1>3. ChallengesApart' /\ WindowMatches' /\ ChalsKeep
  BY <1>0, <1>2, ChalsQuiet
<1>4. CodesApart' /\ CodesKeep
  BY <1>0, <1>3, CodesQuiet
<1>5. ProofsBurn'
  <2>1. ProofsKeep
    BY <1>0, <1>1, <1>4 DEF ProofsKeep, Flat
  <2>2. ProofsSpentOnce' /\ (\A i \in DOMAIN spent : Burnt(spent[i]))'
    BY <1>0, <1>2, <2>1, SpentStays
  <2> QED
    BY <1>0, <1>1, <2>2 DEF ProofsBurn, Flat
<1>6. TasksKnow'
  <2>1. FactorsKeep
    BY <1>0 DEF FactorsKeep
  <2> QED
    BY <1>0, <1>2, <1>3, <2>1, TasksLeave
<1>7. NoOrphanRecovery' /\ SessionBornInEpoch' /\ MailboxNotTwice'
  BY <1>0, SessionsStand DEF NoOrphanRecovery, HasSecondFactor
<1> QED
  BY <1>2, <1>3, <1>4, <1>5, <1>6, <1>7 DEF FInv

\* The e-mail factor is asked for, with its code.
LEMMA StartEmailInv ==
    ASSUME FInv, NEW p \in Hands, StartEmailFactorEnrollment(p)
    PROVE  FInv'
<1>0. /\ FTyped /\ CodesApart /\ ProofsBurn /\ NoOrphanRecovery /\ TasksKnow
      /\ task[p].ver \in Nat /\ task[p].sid \in Nat /\ ~mailf.conf /\ Leave(p)
      /\ mailf' = [NoMailf EXCEPT !.ver = task[p].ver, !.sid = task[p].sid]
      /\ MintCode("enroll", 0)
      /\ UNCHANGED <<now, acct, totp, recov, sets, chals, signed, resets, seeds, spent, window>>
  BY Parts, Busy DEF StartEmailFactorEnrollment, At, hist
<1>1. mailf' \in MailRows /\ ~mailf'.conf
  BY <1>0 DEF MailRows, NoMailf, Vers
<1>2. /\ otps' \in Seq(Codes) /\ CodesKeep
      /\ \A i \in DOMAIN otps' : i \notin DOMAIN otps => otps'[i].kind = "enroll" /\ otps'[i].ch = 0
  BY <1>0, Minted
<1>3. FTyped'
  BY <1>0, <1>1, <1>2, LeaveIs DEF FTyped
<1>4. ChallengesApart' /\ WindowMatches' /\ ChalsKeep
  BY <1>0, <1>3, ChalsQuiet
<1>5. CodesApart'
  BY <1>0, <1>2, <1>4, CodesStay
<1>6. ProofsBurn'
  BY <1>0, <1>2, <1>3, ProofsQuiet
<1>7. TasksKnow'
  <2>1. FactorsKeep
    BY <1>0 DEF FactorsKeep
  <2> QED
    BY <1>0, <1>3, <1>4, <2>1, TasksLeave
<1>8. NoOrphanRecovery' /\ SessionBornInEpoch' /\ MailboxNotTwice'
  BY <1>0, <1>1, SessionsStand DEF NoOrphanRecovery, HasSecondFactor
<1> QED
  BY <1>3, <1>4, <1>5, <1>6, <1>7, <1>8 DEF FInv

\* The challenge that carried an enrollment pays for the session, and no window is its.
LEMMA PreAuthFinished ==
    ASSUME FInv, NEW p \in Hands, task[p] # NoTask, task[p].op = "confirm", lockEnrollmentUser(p),
           PreAuthHolds(p), finishPreAuthEnrollment(p), UNCHANGED <<now, acct, window>>
    PROVE  /\ chals' \in Seq(Challenges) /\ ChalsKeep
           /\ signed' \in Seq(Opened) /\ SessionBornInEpoch' /\ MailboxNotTwice'
           /\ FTyped' => ChallengesApart' /\ WindowMatches'
<1>0. /\ FTyped /\ ChallengesApart /\ WindowMatches /\ Flat /\ Knows(task[p])
      /\ task[p].ver = acct.epoch
  BY Parts, Busy DEF lockEnrollmentUser, AtEpoch
<1>1. PICK c : c = task[p].ch
  OBVIOUS
<1>2. CASE c = 0
  <2>1. UNCHANGED <<chals, signed>>
    BY <1>1, <1>2 DEF finishPreAuthEnrollment
  <2>2. chals' \in Seq(Challenges) /\ ChalsKeep
    BY <1>0, <2>1, ChalsStand DEF FTyped
  <2>3. FTyped' => ChallengesApart' /\ WindowMatches'
    BY <2>1, ChalsQuiet
  <2> QED
    BY <2>1, <2>2, <2>3, SessionsStand
<1>3. CASE c # 0
  <2>1. /\ c \in DOMAIN chals /\ chals[c].purpose \in {PurposeEnroll, "gone"}
        /\ chals' = Spend(c) /\ OpenSession(acct.epoch, "enrolled")
    BY <1>0, <1>1, <1>3 DEF finishPreAuthEnrollment, Knows
  <2>2. /\ chals' \in Seq(Challenges) /\ ChalsKeep /\ DOMAIN chals' = DOMAIN chals
        /\ \A d \in DOMAIN chals : d # c => chals'[d] = chals[d]
    BY <2>1, ChalSpent
  <2>3. signed' \in Seq(Opened) /\ SessionBornInEpoch' /\ MailboxNotTwice'
    BY <2>1, SessionOpens
  <2>4. ASSUME FTyped' PROVE ChallengesApart' /\ WindowMatches'
    <3>1. ChallengesApart'
      BY <1>0, <2>2, <2>4, ApartStays DEF Flat
    <3>2. ASSUME NEW d \in DOMAIN chals, Answerable(d)
          PROVE  /\ chals'[d].att = chals[d].att /\ chals'[d].sends = chals[d].sends
                 /\ ~chals'[d].used
      <4>1. d # c /\ ~chals[d].used
        BY <2>1, <3>2 DEF Answerable, Unspent, PurposeEnroll, PurposeTOTP
      <4> QED
        BY <2>2, <4>1
    <3>3. WindowMatches'
      BY <1>0, <2>2, <2>4, <3>2, WindowStays
    <3> QED
      BY <3>1, <3>3
  <2> QED
    BY <2>2, <2>3, <2>4
<1> QED
  BY <1>2, <1>3

\* A code of the secret that is being enrolled is accepted: the first of that secret.
LEMMA CompleteTOTPInv ==
    ASSUME FInv, NEW p \in Hands, CompleteTOTPEnrollment(p)
    PROVE  FInv'
<1>0. /\ FTyped /\ CodesApart /\ ProofsBurn /\ NoOrphanRecovery /\ TasksKnow /\ Flat
      /\ task[p] # NoTask /\ task[p].op = "confirm" /\ task[p].pc = "totp"
      /\ task[p].proof \in Proofs /\ Knows(task[p]) /\ Leave(p)
      /\ UNCHANGED <<now, acct, mailf, otps, resets, seeds, window>>
  BY Parts, Busy DEF CompleteTOTPEnrollment, At
<1>1. PICK x \in Proofs : x = task[p].proof
  BY <1>0
<1>2. /\ x.kind = "totp" /\ x.seed # 0 /\ x.n \in Nat /\ x.seed \in Nat
      /\ ~totp.conf /\ totp.seed = x.seed /\ totp' = [totp EXCEPT !.conf = TRUE, !.last = x.n, !.sid = 0]
      /\ RecordProof(x) /\ sets' = sets + 1 /\ recov' = {sets + 1}
  BY <1>0, <1>1 DEF CompleteTOTPEnrollment, confirmTOTPRow, replaceRecoveryCodes, Knows, Proofs
<1>3. totp' \in TOTPRows /\ totp'.seed = x.seed /\ totp'.conf /\ totp'.last = x.n
  <2>1. totp \in TOTPRows /\ x.n \in Vers
    BY <1>0, <1>2 DEF FTyped, Vers
  <2> QED
    BY <1>2, <2>1 DEF TOTPRows
<1>4. /\ chals' \in Seq(Challenges) /\ ChalsKeep
      /\ signed' \in Seq(Opened) /\ SessionBornInEpoch' /\ MailboxNotTwice'
      /\ FTyped' => ChallengesApart' /\ WindowMatches'
  BY <1>0, PreAuthFinished DEF CompleteTOTPEnrollment
<1>5. spent' \in Seq(Proofs) /\ sets' \in Nat /\ recov' \subseteq Nat
  BY <1>0, <1>2 DEF RecordProof, FTyped
<1>6. FTyped'
  BY <1>0, <1>3, <1>4, <1>5, LeaveIs DEF FTyped
<1>7. CodesApart' /\ CodesKeep
  BY <1>0, <1>4, CodesQuiet
<1>8. ProofsBurn'
  <2>1. totp.last = NoVer /\ totp.seed <= seeds /\ x.seed \in 1..seeds
    BY <1>0, <1>2 DEF ProofsBurn, Flat
  <2>2. ProofsKeep
    BY <1>0, <1>2, <1>3, <1>7, <2>1 DEF ProofsKeep, Flat, NoVer
  <2>3. ~Burnt(x)
    BY <1>2, <2>1 DEF Burnt, NoVer
  <2>4. Burnt(x)'
    BY <1>0, <1>2, <1>3, <2>1 DEF Burnt
  <2>5. ProofsSpentOnce' /\ (\A i \in DOMAIN spent : Burnt(spent[i]))'
    BY <1>0, <1>2, <1>6, <2>2, <2>3, <2>4, SpentGrows DEF RecordProof
  <2>6. recov' \subseteq 1..sets'
    BY <1>0, <1>2 DEF Flat
  <2> QED
    BY <1>0, <1>2, <1>3, <2>1, <2>5, <2>6 DEF ProofsBurn
<1>9. TasksKnow'
  <2>1. FactorsKeep
    BY <1>0, <1>2 DEF FactorsKeep
  <2> QED
    BY <1>0, <1>4, <1>6, <2>1, TasksLeave
<1>10. NoOrphanRecovery'
  BY <1>3 DEF NoOrphanRecovery, HasSecondFactor
<1> QED
  BY <1>4, <1>6, <1>7, <1>8, <1>9, <1>10 DEF FInv

\* The code of the address that is being enrolled is accepted.
LEMMA CompleteEmailInv ==
    ASSUME FInv, NEW p \in Hands, CompleteEmailFactorEnrollment(p)
    PROVE  FInv'
<1>0. /\ FTyped /\ CodesApart /\ ProofsBurn /\ NoOrphanRecovery /\ TasksKnow /\ Flat
      /\ task[p] # NoTask /\ task[p].op = "confirm" /\ task[p].pc = "mail"
      /\ task[p].proof \in Proofs /\ Knows(task[p]) /\ Leave(p)
      /\ UNCHANGED <<now, acct, totp, resets, seeds, window>>
  BY Parts, Busy DEF CompleteEmailFactorEnrollment, At
<1>1. PICK x \in Proofs : x = task[p].proof
  BY <1>0
<1>2. /\ x.kind = "mail" /\ CodeLive(x.n, "enroll") /\ ~mailf.conf
      /\ mailf' = [NoMailf EXCEPT !.conf = TRUE] /\ otps' = UsedCode(x)
      /\ RecordProof(x) /\ sets' = sets + 1 /\ recov' = {sets + 1}
  BY <1>0, <1>1 DEF CompleteEmailFactorEnrollment, spendEmailFactorEnrollment, replaceRecoveryCodes, Knows
<1>3. mailf' \in MailRows /\ mailf'.conf
  BY <1>2 DEF MailRows, NoMailf, Vers
<1>4. /\ chals' \in Seq(Challenges) /\ ChalsKeep
      /\ signed' \in Seq(Opened) /\ SessionBornInEpoch' /\ MailboxNotTwice'
      /\ FTyped' => ChallengesApart' /\ WindowMatches'
  BY <1>0, PreAuthFinished DEF CompleteEmailFactorEnrollment
<1>5. spent' \in Seq(Proofs) /\ sets' \in Nat /\ recov' \subseteq Nat
  BY <1>0, <1>2 DEF RecordProof, FTyped
<1>6. /\ otps' \in Seq(Codes) /\ CodesKeep /\ DOMAIN otps' = DOMAIN otps
      /\ otps'[x.n].used
  BY <1>0, <1>2, CodeUsed DEF CodeLive
<1>7. FTyped'
  BY <1>0, <1>3, <1>4, <1>5, <1>6, LeaveIs DEF FTyped
<1>8. CodesApart'
  BY <1>0, <1>2, <1>4, <1>6, CodesStay
<1>9. ProofsBurn'
  <2>1. ProofsKeep
    BY <1>0, <1>2, <1>6 DEF ProofsKeep, Flat
  <2>2. Payable(x)
    BY <1>2 DEF Payable, CodeLive
  <2>3. ProofsSpentOnce' /\ (\A i \in DOMAIN spent : Burnt(spent[i]))'
    BY <1>0, <1>2, <1>6, <1>7, <2>1, <2>2, Paid
  <2>4. recov' \subseteq 1..sets'
    BY <1>0, <1>2 DEF Flat
  <2> QED
    BY <1>0, <2>3, <2>4 DEF ProofsBurn
<1>10. TasksKnow'
  <2>1. FactorsKeep
    BY <1>0, <1>2 DEF FactorsKeep
  <2> QED
    BY <1>0, <1>4, <1>7, <2>1, TasksLeave
<1>11. NoOrphanRecovery'
  BY <1>3 DEF NoOrphanRecovery, HasSecondFactor
<1> QED
  BY <1>4, <1>7, <1>8, <1>9, <1>10, <1>11 DEF FInv

-------------------------------------------------------------------------------
(***************************************************************************)
(* What a step-up may change.                                              *)
(***************************************************************************)

\* Whoever pays a step-up has a second factor.
LEMMA PayerHasFactor ==
    ASSUME FInv, NEW x, SpendableAtStepUp(x)
    PROVE  HasSecondFactor
<1>1. CASE x.kind = "totp"
  BY <1>1, StepUpIsPayable DEF Payable, TOTPCurrent, HasSecondFactor
<1>2. CASE x.kind = "mail"
  BY <1>2, StepUpIsPayable DEF CodeLive, FInv, CodesApart, HasSecondFactor
<1>3. CASE x.kind = "recovery"
  BY <1>3, StepUpIsPayable DEF Payable, FInv, NoOrphanRecovery
<1> QED
  BY <1>1, <1>2, <1>3, StepUpIsPayable DEF Payable

\* The authenticator goes, with the proof that paid for it.
LEMMA DisableTOTPInv ==
    ASSUME FInv, NEW p \in Hands, DisableTOTP(p)
    PROVE  FInv'
<1>0. /\ FTyped /\ CodesApart /\ ProofsBurn /\ NoOrphanRecovery /\ TasksKnow /\ Flat
      /\ WindowShut \in Windows /\ task[p].proof \in Proofs /\ Leave(p)
      /\ totp' = NoTOTP /\ acct' = Bumped(acct) /\ signed' = RevokeOthers(task[p].sid)
      /\ window' = WindowShut
      /\ UNCHANGED <<now, mailf, sets, chals, resets, seeds>>
  BY Parts, Busy DEF DisableTOTP, At
<1>1. PICK x \in Proofs : x = task[p].proof
  BY <1>0
<1>2. /\ SpendableAtStepUp(x) /\ otps' = UsedCode(x) /\ RecordProof(x)
      /\ recov' = RecovAfter("totp", x)
  BY <1>1 DEF DisableTOTP, StepUpPays, SpendProof
<1>3. Payable(x)
  BY <1>2, StepUpIsPayable
<1>4. /\ otps' \in Seq(Codes) /\ CodesKeep /\ DOMAIN otps' = DOMAIN otps
      /\ x.kind = "mail" => otps'[x.n].used
  BY <1>0, <1>2, <1>3, CodeUsed DEF Payable
<1>5. /\ recov' \subseteq recov /\ (x.kind = "recovery" => x.n \notin recov')
      /\ (recov' # {} => mailf.conf)
  BY <1>2 DEF RecovAfter, UsedRecov, LastFactor
<1>6. totp' \in TOTPRows /\ totp'.seed = 0 /\ totp'.last = NoVer /\ ~totp'.conf
  <2>1. NoVer \in Vers
    BY DEF Vers
  <2> QED
    BY <1>0, <2>1 DEF TOTPRows, NoTOTP
<1>7. acct' \in Accts /\ acct'.epoch = acct.epoch + 1 /\ acct'.mandatory = acct.mandatory
  BY <1>0, BumpedIs
<1>8. signed' \in Seq(Opened) /\ SessionBornInEpoch' /\ MailboxNotTwice'
  BY <1>0, SessionsRevoked
<1>9. FTyped'
  <2>1. spent' \in Seq(Proofs)
    BY <1>0, <1>2 DEF RecordProof, FTyped
  <2>2. recov' \subseteq Nat
    BY <1>0, <1>5 DEF Flat
  <2> QED
    BY <1>0, <1>4, <1>6, <1>7, <1>8, <2>1, <2>2, LeaveIs DEF FTyped
<1>10. ChallengesApart' /\ WindowMatches' /\ ChalsKeep /\ FactorsKeep
  BY <1>0, <1>7, <1>9, EpochMoves
<1>11. CodesApart'
  BY <1>0, <1>4, <1>10, CodesStay
<1>12. ProofsBurn'
  <2>1. ProofsKeep
    BY <1>0, <1>4, <1>5, <1>6 DEF ProofsKeep, Flat
  <2>2. x.kind = "totp" => totp'.seed # x.seed
    BY <1>0, <1>3, <1>6 DEF Payable, TOTPCurrent, ProofsBurn
  <2>3. ProofsSpentOnce' /\ (\A i \in DOMAIN spent : Burnt(spent[i]))'
    BY <1>0, <1>2, <1>3, <1>4, <1>5, <1>9, <2>1, <2>2, Paid
  <2> QED
    BY <1>0, <1>5, <1>6, <2>3 DEF ProofsBurn, Flat
<1>13. TasksKnow'
  BY <1>0, <1>9, <1>10, TasksLeave
<1>14. NoOrphanRecovery'
  BY <1>0, <1>5 DEF NoOrphanRecovery, HasSecondFactor
<1> QED
  BY <1>8, <1>9, <1>10, <1>11, <1>12, <1>13, <1>14 DEF FInv

\* The e-mail factor goes, with its codes.
LEMMA DisableEmailInv ==
    ASSUME FInv, NEW p \in Hands, DisableEmailFactor(p)
    PROVE  FInv'
<1>0. /\ FTyped /\ CodesApart /\ ProofsBurn /\ NoOrphanRecovery /\ TasksKnow /\ Flat
      /\ WindowShut \in Windows /\ task[p].proof \in Proofs /\ Leave(p)
      /\ mailf' = NoMailf /\ acct' = Bumped(acct) /\ signed' = RevokeOthers(task[p].sid)
      /\ window' = WindowShut
      /\ UNCHANGED <<now, sets, chals, resets, seeds>>
  BY Parts, Busy DEF DisableEmailFactor, At
<1>1. PICK x \in Proofs : x = task[p].proof
  BY <1>0
<1>2. /\ SpendableAtStepUp(x) /\ otps' = WithoutCodes({"enroll", "stepup"}, x)
      /\ totp' = UsedTOTP(x) /\ RecordProof(x) /\ recov' = RecovAfter("mail", x)
  BY <1>1 DEF DisableEmailFactor, StepUpPays
<1>3. Payable(x)
  BY <1>2, StepUpIsPayable
<1>4. /\ otps' \in Seq(Codes) /\ CodesKeep /\ DOMAIN otps' = DOMAIN otps
      /\ x.kind = "mail" => otps'[x.n].used \/ otps'[x.n].kind = "gone"
      /\ \A i \in DOMAIN otps : otps'[i].kind # "stepup"
  <2>1. DOMAIN otps' = DOMAIN otps /\ otps' = [i \in DOMAIN otps' |-> otps'[i]]
    BY <1>2 DEF WithoutCodes
  <2>2. otps \in Seq(Codes) /\ \A i \in DOMAIN otps : otps[i] \in Codes
    BY <1>0, RowTypes
  <2>3. ASSUME NEW i \in DOMAIN otps
        PROVE  /\ otps'[i] \in Codes /\ otps'[i].kind \in {otps[i].kind, "gone"}
               /\ otps[i].used => otps'[i].used
               /\ ~otps'[i].used /\ otps'[i].kind # "gone" => otps'[i].ch = otps[i].ch
               /\ otps'[i].kind # "stepup"
               /\ x.kind = "mail" /\ i = x.n => otps'[i].used \/ otps'[i].kind = "gone"
    <3>1. PICK r \in Codes : r = otps[i]
      BY <2>2
    <3>2. PICK u : u = UsedCode(x)[i]
      OBVIOUS
    <3>3. u = r \/ u = [r EXCEPT !.used = TRUE]
      BY <2>2, <3>1, <3>2 DEF UsedCode
    <3>4. x.kind = "mail" /\ i = x.n => u = [r EXCEPT !.used = TRUE]
      BY <2>2, <3>1, <3>2 DEF UsedCode
    <3>5. PICK q : q = [r EXCEPT !.used = TRUE]
      OBVIOUS
    <3>6. q \in Codes /\ q.used /\ q.kind = r.kind /\ q.ch = r.ch
      BY <3>5 DEF Codes
    <3>7. PICK g : g = [r EXCEPT !.kind = "gone"]
      OBVIOUS
    <3>8. g \in Codes /\ g.used = r.used /\ g.kind = "gone"
      BY <3>7 DEF Codes
    <3>9. otps'[i] = IF r.kind \in {"enroll", "stepup"} THEN g ELSE u
      BY <1>2, <3>1, <3>2, <3>7 DEF WithoutCodes
    <3> QED
      BY <3>1, <3>3, <3>4, <3>5, <3>6, <3>8, <3>9
  <2>4. otps' \in Seq(Codes) /\ CodesKeep
    BY <1>0, <2>1, <2>3, CodesUpdated
  <2>5. x.kind = "mail" => x.n \in DOMAIN otps
    BY <1>3 DEF Payable
  <2> QED
    BY <2>1, <2>3, <2>4, <2>5
<1>5. /\ recov' \subseteq recov /\ (x.kind = "recovery" => x.n \notin recov')
      /\ (recov' # {} => totp.conf)
  BY <1>2 DEF RecovAfter, UsedRecov, LastFactor
<1>6. /\ totp' \in TOTPRows /\ totp'.seed = totp.seed /\ totp'.conf = totp.conf
      /\ totp.last <= totp'.last
      /\ x.kind = "totp" => totp'.last = x.n
      /\ ~totp.conf => totp'.last = NoVer
  BY <1>0, <1>2, <1>3, TOTPUsed
<1>7. acct' \in Accts /\ acct'.epoch = acct.epoch + 1 /\ acct'.mandatory = acct.mandatory
  BY <1>0, BumpedIs
<1>8. signed' \in Seq(Opened) /\ SessionBornInEpoch' /\ MailboxNotTwice'
  BY <1>0, SessionsRevoked
<1>9. FTyped'
  <2>1. spent' \in Seq(Proofs)
    BY <1>0, <1>2 DEF RecordProof, FTyped
  <2>2. recov' \subseteq Nat
    BY <1>0, <1>5 DEF Flat
  <2>3. mailf' \in MailRows
    BY <1>0 DEF MailRows, NoMailf, Vers
  <2> QED
    BY <1>0, <1>4, <1>6, <1>7, <1>8, <2>1, <2>2, <2>3, LeaveIs DEF FTyped
<1>10. ChallengesApart' /\ WindowMatches' /\ ChalsKeep /\ FactorsKeep
  BY <1>0, <1>7, <1>9, EpochMoves
<1>11. CodesApart'
  BY <1>0, <1>4, <1>10, CodesStay
<1>12. ProofsBurn'
  <2>1. ProofsKeep
    BY <1>0, <1>4, <1>5, <1>6 DEF ProofsKeep, Flat
  <2>2. x.kind = "totp" => x.n <= totp'.last
    BY <1>6 DEF Proofs
  <2>3. ProofsSpentOnce' /\ (\A i \in DOMAIN spent : Burnt(spent[i]))'
    BY <1>0, <1>2, <1>3, <1>4, <1>5, <1>9, <2>1, <2>2, Paid
  <2> QED
    BY <1>0, <1>5, <1>6, <2>3 DEF ProofsBurn
<1>13. TasksKnow'
  BY <1>0, <1>9, <1>10, TasksLeave
<1>14. NoOrphanRecovery'
  BY <1>5, <1>6 DEF NoOrphanRecovery, HasSecondFactor
<1> QED
  BY <1>8, <1>9, <1>10, <1>11, <1>12, <1>13, <1>14 DEF FInv

\* The recovery codes are replaced.
LEMMA RegenerateInv ==
    ASSUME FInv, NEW p \in Hands, RegenerateRecoveryCodes(p)
    PROVE  FInv'
<1>0. /\ FTyped /\ CodesApart /\ ProofsBurn /\ NoOrphanRecovery /\ TasksKnow /\ Flat
      /\ task[p].proof \in Proofs /\ Leave(p)
      /\ sets' = sets + 1 /\ recov' = {sets + 1}
      /\ UNCHANGED <<now, acct, mailf, chals, signed, resets, seeds, window>>
  BY Parts, Busy DEF RegenerateRecoveryCodes, At, replaceRecoveryCodes
<1>1. PICK x \in Proofs : x = task[p].proof
  BY <1>0
<1>2. /\ SpendableAtStepUp(x) /\ otps' = UsedCode(x) /\ totp' = UsedTOTP(x) /\ RecordProof(x)
  BY <1>1 DEF RegenerateRecoveryCodes, StepUpPays, SpendProof
<1>3. Payable(x) /\ HasSecondFactor
  BY <1>2, StepUpIsPayable, PayerHasFactor
<1>4. /\ otps' \in Seq(Codes) /\ CodesKeep /\ DOMAIN otps' = DOMAIN otps
      /\ x.kind = "mail" => otps'[x.n].used
  BY <1>0, <1>2, <1>3, CodeUsed DEF Payable
<1>5. /\ totp' \in TOTPRows /\ totp'.seed = totp.seed /\ totp'.conf = totp.conf
      /\ totp.last <= totp'.last
      /\ x.kind = "totp" => totp'.last = x.n
      /\ ~totp.conf => totp'.last = NoVer
  BY <1>0, <1>2, <1>3, TOTPUsed
<1>6. FTyped'
  <2>1. spent' \in Seq(Proofs)
    BY <1>0, <1>2 DEF RecordProof, FTyped
  <2>2. recov' \subseteq Nat /\ sets' \in Nat
    BY <1>0 DEF Flat
  <2> QED
    BY <1>0, <1>4, <1>5, <2>1, <2>2, LeaveIs DEF FTyped
<1>7. ChallengesApart' /\ WindowMatches' /\ ChalsKeep
  BY <1>0, <1>6, ChalsQuiet
<1>8. CodesApart'
  BY <1>0, <1>4, <1>7, CodesStay
<1>9. ProofsBurn'
  <2>1. ProofsKeep
    BY <1>0, <1>4, <1>5 DEF ProofsKeep, Flat
  <2>2. x.kind = "totp" => x.n <= totp'.last
    BY <1>5 DEF Proofs
  <2>3. x.kind = "recovery" => x.n \notin recov'
    BY <1>0, <1>3 DEF Payable, ProofsBurn, Flat
  <2>4. ProofsSpentOnce' /\ (\A i \in DOMAIN spent : Burnt(spent[i]))'
    BY <1>0, <1>2, <1>3, <1>4, <1>6, <2>1, <2>2, <2>3, Paid
  <2>5. recov' \subseteq 1..sets'
    BY <1>0 DEF Flat
  <2> QED
    BY <1>0, <1>5, <2>4, <2>5 DEF ProofsBurn
<1>10. TasksKnow'
  <2>1. FactorsKeep
    BY <1>0, <1>5 DEF FactorsKeep
  <2> QED
    BY <1>0, <1>6, <1>7, <2>1, TasksLeave
<1>11. NoOrphanRecovery' /\ SessionBornInEpoch' /\ MailboxNotTwice'
  BY <1>0, <1>3, <1>5, SessionsStand DEF NoOrphanRecovery, HasSecondFactor
<1> QED
  BY <1>6, <1>7, <1>8, <1>9, <1>10, <1>11 DEF FInv

\* A first password is set, and paid for by whoever has a second factor.
LEMMA SetFirstPasswordInv ==
    ASSUME FInv, NEW p \in Hands, SetFirstPassword(p)
    PROVE  FInv'
<1>0. /\ FTyped /\ CodesApart /\ ProofsBurn /\ NoOrphanRecovery /\ TasksKnow /\ Flat
      /\ WindowShut \in Windows /\ Knows(task[p]) /\ task[p].op = "setPassword"
      /\ task[p].ver = acct.epoch /\ task[p].proof \in Proofs /\ Leave(p)
      /\ acct' = [Bumped(acct) EXCEPT !.pw = TRUE] /\ signed' = RevokeOthers(task[p].sid)
      /\ window' = WindowShut
      /\ UNCHANGED <<now, mailf, sets, chals, resets, seeds>>
  BY Parts, Busy DEF SetFirstPassword, At, PasswordSettable, StepUpEpoch, AtEpoch
<1>1. PICK x \in Proofs : x = task[p].proof
  BY <1>0
<1>2. /\ totp' \in TOTPRows /\ otps' \in Seq(Codes) /\ recov' \subseteq Nat
      /\ spent' \in Seq(Proofs) /\ CodesKeep /\ DOMAIN otps' = DOMAIN otps
      /\ totp'.conf = totp.conf /\ recov' \subseteq recov
      /\ FTyped' => ProofsBurn'
  <2>1. CASE x = NoProof
    <3>1. UNCHANGED <<totp, otps, recov, spent>>
      BY <1>1, <2>1 DEF SetFirstPassword
    <3> QED
      BY <1>0, <3>1, CodesStand, ProofsQuiet DEF FTyped
  <2>2. CASE x # NoProof
    <3>1. /\ otps' = UsedCode(x) /\ totp' = UsedTOTP(x) /\ recov' = UsedRecov(x) /\ RecordProof(x)
      BY <1>1, <2>2 DEF SetFirstPassword, SpendProof
    <3>2. HasSecondFactor
      BY <1>0, <1>1, <2>2 DEF Knows
    <3>3. Payable(x)
      BY <1>1, <3>2, StepUpIsPayable DEF SetFirstPassword, PasswordSettable
    <3> QED
      BY <1>0, <3>1, <3>3, ProofPays
  <2> QED
    BY <2>1, <2>2
<1>3. acct' \in Accts /\ acct'.epoch = acct.epoch + 1 /\ acct'.mandatory = acct.mandatory
  <2>1. acct' \in Accts
    BY <1>0, BumpedIs
  <2> QED
    BY <1>0, <2>1 DEF Accts, Bumped
<1>4. signed' \in Seq(Opened) /\ SessionBornInEpoch' /\ MailboxNotTwice'
  BY <1>0, SessionsRevoked
<1>5. FTyped'
  BY <1>0, <1>2, <1>3, <1>4, LeaveIs DEF FTyped
<1>6. ChallengesApart' /\ WindowMatches' /\ ChalsKeep /\ FactorsKeep
  BY <1>0, <1>3, <1>5, EpochMoves
<1>7. CodesApart'
  BY <1>0, <1>2, <1>6, CodesStay
<1>8. TasksKnow'
  BY <1>0, <1>5, <1>6, TasksLeave
<1>9. NoOrphanRecovery'
  BY <1>0, <1>2 DEF NoOrphanRecovery, HasSecondFactor
<1> QED
  BY <1>2, <1>4, <1>5, <1>6, <1>7, <1>8, <1>9 DEF FInv

-------------------------------------------------------------------------------
(***************************************************************************)
(* The invariant holds.                                                    *)
(***************************************************************************)

\* How an account starts: the factors its scenario names, confirmed, and their recovery codes.
LEMMA InitInv == FactorsInit => FInv
<1> SUFFICES ASSUME FactorsInit PROVE FInv
  OBVIOUS
<1>1. PICK x \in FactorScenarios :
          /\ acct = [active |-> TRUE, epoch |-> 0, pw |-> x.pw, verified |-> x.pw,
                     ops |-> x.ops, mandatory |-> x.mandatory, most |-> x.most]
          /\ totp = IF "totp" \in x.enrolled THEN [NoTOTP EXCEPT !.seed = 1, !.conf = TRUE] ELSE NoTOTP
          /\ mailf = IF "mail" \in x.enrolled THEN [NoMailf EXCEPT !.conf = TRUE] ELSE NoMailf
          /\ recov = IF x.enrolled = {} THEN {} ELSE {1}
          /\ sets = IF x.enrolled = {} THEN 0 ELSE 1
          /\ signed = IF ~x.session THEN <<>>
                    ELSE <<[live |-> TRUE, born |-> 0, at |-> 0, second |-> "none",
                            proven |-> FALSE]>>
  BY DEF FactorsInit
<1>2. /\ now = 0 /\ seeds = 1 /\ otps = <<>> /\ chals = <<>> /\ resets = <<>> /\ spent = <<>>
      /\ task = [p \in Hands |-> NoTask] /\ window = WindowShut
  BY DEF FactorsInit
<1>3. /\ x.enrolled \subseteq {"totp", "mail"} /\ x.ops \in SUBSET STRING
      /\ x.mandatory \in BOOLEAN /\ x.pw \in BOOLEAN /\ x.session \in BOOLEAN
      /\ x.most \in [time : Nat, challenges : Nat, codes : Nat, epoch : Nat, sets : Nat]
      /\ MaxAttempts \in Nat /\ MaxSends \in Nat
  BY FactorsAssumption
<1>4. acct \in Accts /\ acct.epoch = 0 /\ acct.active
  <2>1. PICK pw \in BOOLEAN, ops \in SUBSET STRING, mandatory \in BOOLEAN,
             most \in [time : Nat, challenges : Nat, codes : Nat, epoch : Nat, sets : Nat] :
            pw = x.pw /\ ops = x.ops /\ mandatory = x.mandatory /\ most = x.most
    BY <1>3
  <2>2. acct = [active |-> TRUE, epoch |-> 0, pw |-> pw, verified |-> pw, ops |-> ops,
                mandatory |-> mandatory, most |-> most]
    BY <1>1, <2>1
  <2> QED
    BY <2>1, <2>2 DEF Accts
<1>5. /\ totp \in TOTPRows /\ totp.last = NoVer /\ totp.seed \in {0, 1}
      /\ (totp.conf <=> "totp" \in x.enrolled) /\ (totp.conf => totp.seed = 1)
  <2>1. CASE "totp" \in x.enrolled
    <3>1. totp = [seed |-> 1, conf |-> TRUE, ver |-> NoVer, sid |-> 0, last |-> NoVer]
      BY <1>1, <2>1 DEF NoTOTP
    <3> QED
      BY <2>1, <3>1 DEF TOTPRows, Vers
  <2>2. CASE "totp" \notin x.enrolled
    <3>1. totp = [seed |-> 0, conf |-> FALSE, ver |-> NoVer, sid |-> 0, last |-> NoVer]
      BY <1>1, <2>2 DEF NoTOTP
    <3>2. totp \in TOTPRows
      BY <3>1 DEF TOTPRows, Vers
    <3>3. ~totp.conf /\ totp.last = NoVer /\ totp.seed = 0
      BY <3>1
    <3> QED
      BY <2>2, <3>2, <3>3
  <2> QED
    BY <2>1, <2>2
<1>6. mailf \in MailRows /\ (mailf.conf <=> "mail" \in x.enrolled)
  <2>1. CASE "mail" \in x.enrolled
    <3>1. mailf = [conf |-> TRUE, ver |-> NoVer, sid |-> 0]
      BY <1>1, <2>1 DEF NoMailf
    <3> QED
      BY <2>1, <3>1 DEF MailRows, Vers
  <2>2. CASE "mail" \notin x.enrolled
    <3>1. mailf = [conf |-> FALSE, ver |-> NoVer, sid |-> 0]
      BY <1>1, <2>2 DEF NoMailf
    <3>2. mailf \in MailRows
      BY <3>1 DEF MailRows, Vers
    <3>3. ~mailf.conf
      BY <3>1
    <3> QED
      BY <2>2, <3>2, <3>3
  <2> QED
    BY <2>1, <2>2
<1>7. recov \subseteq 1..sets /\ sets \in Nat /\ recov \subseteq Nat /\ (recov # {} => HasSecondFactor)
  BY <1>1, <1>3, <1>5, <1>6 DEF HasSecondFactor
<1>8. /\ signed \in Seq(Opened)
      /\ \A s \in DOMAIN signed : signed[s].born = signed[s].at /\ signed[s].second = "none"
  <2>1. CASE ~x.session
    BY <1>1, <2>1
  <2>2. CASE x.session
    <3>1. PICK o : o = [live |-> TRUE, born |-> 0, at |-> 0, second |-> "none", proven |-> FALSE]
      OBVIOUS
    <3>2. o \in Opened /\ o.born = o.at /\ o.second = "none"
      BY <3>1 DEF Opened
    <3>3. signed = <<o>>
      BY <1>1, <2>2, <3>1
    <3> QED
      BY <3>2, <3>3
  <2> QED
    BY <1>3, <2>1, <2>2
<1>9. /\ window \in Windows /\ window.until = 0 /\ window.guesses = 0 /\ window.sends = 0
  BY <1>2 DEF WindowShut, Windows
<1>10. FTyped
  <2>1. task \in [Hands -> Tasks]
    BY <1>2 DEF Tasks
  <2>2. /\ otps \in Seq(Codes) /\ chals \in Seq(Challenges) /\ resets \in Seq(Links)
        /\ spent \in Seq(Proofs)
    BY <1>2
  <2> QED
    BY <1>2, <1>4, <1>5, <1>6, <1>7, <1>8, <1>9, <2>1, <2>2 DEF FTyped
<1>11. ChallengesApart /\ CodesApart
  BY <1>2 DEF ChallengesApart, CodesApart
<1>12. WindowMatches
  BY <1>2, <1>3, <1>9 DEF WindowMatches, LoginBudget
<1>13. ProofsBurn
  BY <1>2, <1>5, <1>7 DEF ProofsBurn, ProofsSpentOnce
<1>14. NoOrphanRecovery /\ SessionBornInEpoch /\ MailboxNotTwice
  BY <1>7, <1>8 DEF NoOrphanRecovery, SessionBornInEpoch, MailboxNotTwice
<1>15. TasksKnow
  BY <1>2 DEF TasksKnow
<1> QED
  BY <1>10, <1>11, <1>12, <1>13, <1>14, <1>15 DEF FInv

\* Nothing happens.
LEMMA StutterInv == FInv /\ UNCHANGED factorVars => FInv'
<1> SUFFICES ASSUME FInv, UNCHANGED factorVars PROVE FInv'
  OBVIOUS
<1>1. /\ UNCHANGED <<now, acct, totp, mailf, recov, sets, otps, chals, signed, resets, seeds, task,
                     spent, window>>
  BY DEF factorVars
<1>2. FTyped'
  BY <1>1 DEF FInv, FTyped
<1>3. ChallengesApart' /\ CodesApart'
  BY <1>1 DEF FInv, ChallengesApart, CodesApart, Unspent
<1>4. WindowMatches'
  BY <1>1 DEF FInv, WindowMatches, LoginBudget, Answerable, Unspent
<1>5. ProofsBurn'
  BY <1>1 DEF FInv, ProofsBurn, ProofsSpentOnce, Burnt
<1>6. NoOrphanRecovery' /\ SessionBornInEpoch' /\ MailboxNotTwice'
  BY <1>1 DEF FInv, NoOrphanRecovery, HasSecondFactor, SessionBornInEpoch, MailboxNotTwice
<1>7. TasksKnow'
  BY <1>1 DEF FInv, TasksKnow, Knows, PolicyHolds, Mandatory, HasSecondFactor
<1> QED
  BY <1>2, <1>3, <1>4, <1>5, <1>6, <1>7 DEF FInv

\* Signing in.
LEMMA SignInInv ==
    ASSUME FInv, NEW p \in Hands, SignIn(p)
    PROVE  FInv'
<1>1. CASE LoginBegin(p)
  BY <1>1, LoginBeginInv
<1>2. CASE LoginIssue(p)
  BY <1>2, LoginIssueInv
<1>3. CASE LoginChallenge(p)
  BY <1>3, LoginChallengeInv
<1>4. CASE LoginRefused(p) \/ VerifyRefused(p) \/ SendRefused(p)
  BY <1>4, RefusedInv
<1>5. ASSUME NEW l \in DOMAIN resets, ConsumePasswordReset(p, l) PROVE FInv'
  BY <1>5, ConsumePasswordResetInv
<1>6. ASSUME NEW c \in DOMAIN chals, VerifyBegin(p, c) \/ SendBegin(p, c) PROVE FInv'
  BY <1>6, VerifyBeginInv, SendBeginInv
<1>7. CASE VerifyBump(p) \/ VerifyProof(p)
  BY <1>7, VerifyBumpInv, VerifyProofInv
<1>8. CASE Complete2FA(p) \/ ConsumeChallenge(p)
  BY <1>8, Complete2FAInv, ConsumeChallengeInv
<1>9. CASE CreateChallengeEmailOTP(p)
  BY <1>9, CreateChallengeEmailOTPInv
<1> QED
  BY <1>1, <1>2, <1>3, <1>4, <1>5, <1>6, <1>7, <1>8, <1>9 DEF SignIn

\* Enrolling a factor.
LEMMA EnrollInv ==
    ASSUME FInv, NEW p \in Hands, Enroll(p)
    PROVE  FInv'
<1>0. (\A s \in DOMAIN signed : s \in Nat) /\ (\A c \in DOMAIN chals : c \in Nat)
  BY DEF FInv, FTyped
<1>1. ASSUME NEW s \in DOMAIN signed, NEW kind \in {"totp", "mail"}, StartBegin(p, kind, s, 0) PROVE FInv'
  BY <1>0, <1>1, StartBeginInv DEF FactorPcs
<1>2. ASSUME NEW c \in DOMAIN chals, NEW kind \in {"totp", "mail"}, StartBegin(p, kind, 0, c) PROVE FInv'
  BY <1>0, <1>2, StartBeginInv DEF FactorPcs
<1>3. ASSUME NEW s \in DOMAIN signed, ConfirmTOTPBegin(p, s, 0) \/ ConfirmEmailBegin(p, s, 0) PROVE FInv'
  BY <1>0, <1>3, ConfirmTOTPBeginInv, ConfirmEmailBeginInv
<1>4. ASSUME NEW c \in DOMAIN chals, ConfirmTOTPBegin(p, 0, c) \/ ConfirmEmailBegin(p, 0, c) PROVE FInv'
  BY <1>0, <1>4, ConfirmTOTPBeginInv, ConfirmEmailBeginInv
<1>5. CASE StartTOTPEnrollment(p) \/ StartEmailFactorEnrollment(p)
  BY <1>5, StartTOTPInv, StartEmailInv
<1>6. CASE StartRefused(p) \/ ConfirmRefused(p)
  BY <1>6, RefusedInv
<1>7. CASE CompleteTOTPEnrollment(p) \/ CompleteEmailFactorEnrollment(p)
  BY <1>7, CompleteTOTPInv, CompleteEmailInv
<1> QED
  BY <1>1, <1>2, <1>3, <1>4, <1>5, <1>6, <1>7 DEF Enroll

\* What a session does with a fresh second factor.
LEMMA StepUpInv ==
    ASSUME FInv, NEW p \in Hands, StepUp(p)
    PROVE  FInv'
<1>1. ASSUME NEW s \in DOMAIN signed, StepUpSendBegin(p, s) PROVE FInv'
  BY <1>1, StepUpSendBeginInv
<1>2. ASSUME NEW s \in DOMAIN signed, NEW op \in StepUpOps, StepUpBegin(p, op, s) PROVE FInv'
  BY <1>2, StepUpBeginInv
<1>3. CASE RemoveMailPolicy(p) \/ StepUpProof(p) \/ StepUpRefused(p)
  BY <1>3, RemoveMailPolicyInv, StepUpProofInv, RefusedInv
<1>4. CASE DisableTOTP(p) \/ DisableEmailFactor(p)
  BY <1>4, DisableTOTPInv, DisableEmailInv
<1>5. CASE RegenerateRecoveryCodes(p) \/ SetFirstPassword(p)
  BY <1>5, RegenerateInv, SetFirstPasswordInv
<1>6. CASE ConsumeSecondFactor(p) \/ CreateStepUpEmailOTP(p)
  BY <1>6, ConsumeSecondFactorInv, CreateStepUpEmailOTPInv
<1> QED
  BY <1>1, <1>2, <1>3, <1>4, <1>5, <1>6 DEF StepUp

\* Every step keeps the invariant.
LEMMA NextInv == FInv /\ [FactorsNext]_factorVars => FInv'
<1> SUFFICES ASSUME FInv, [FactorsNext]_factorVars PROVE FInv'
  OBVIOUS
<1>1. ASSUME NEW p \in Hands, SignIn(p) \/ Enroll(p) \/ StepUp(p) PROVE FInv'
  BY <1>1, SignInInv, EnrollInv, StepUpInv
<1>2. ASSUME NEW byAdmin \in BOOLEAN, CreatePasswordReset(byAdmin) PROVE FInv'
  BY <1>2, CreatePasswordResetInv
<1>3. CASE CreateEmailVerification \/ SetStatus \/ SweepTwoFactor \/ Tick
  BY <1>3, CreateEmailVerificationInv, SetStatusInv, SweepTwoFactorInv, TickInv
<1>4. ASSUME NEW i \in DOMAIN otps, ConsumeEmailVerification(i) PROVE FInv'
  BY <1>4, ConsumeEmailVerificationInv
<1>5. CASE UNCHANGED factorVars
  BY <1>5, StutterInv
<1> QED
  BY <1>1, <1>2, <1>3, <1>4, <1>5 DEF FactorsNext

\* The invariant, of every behaviour.
LEMMA FactorsInv == FactorsSpec => []FInv
BY InitInv, NextInv, PTL DEF FactorsSpec

\* The guesses and the mails of a sign-in window, every proof once and no mailbox for both steps
\* (CreateChallenge, BumpChallengeAttempt, Complete2FA), for any number of requests.
THEOREM GuessesAreBounded == FactorsSpec => []GuessesBounded
<1>1. FInv => GuessesBounded
  BY DEF FInv, WindowMatches, ProofsBurn, GuessesBounded
<1> QED
  BY <1>1, FactorsInv, PTL

-------------------------------------------------------------------------------
(***************************************************************************)
(* The factors that the policy demands.                                    *)
(***************************************************************************)

\* No confirmed factor is lost.
ConfirmedStay == (totp.conf => totp'.conf) /\ (mailf.conf => mailf'.conf)

\* A used counter is no change of the factor.
LEMMA UsedStays ==
    ASSUME FInv, NEW x, totp' = UsedTOTP(x)
    PROVE  totp'.conf = totp.conf
<1>1. totp \in TOTPRows
  BY DEF FInv, FTyped
<1> QED
  BY <1>1 DEF UsedTOTP, TOTPRows

\* Signing in.
LEMMA SignInStays ==
    ASSUME FInv, NEW p \in Hands, SignIn(p)
    PROVE  ConfirmedStay
<1>1. CASE LoginBegin(p) \/ LoginIssue(p) \/ LoginChallenge(p) \/ LoginRefused(p)
  BY <1>1 DEF LoginBegin, LoginIssue, LoginChallenge, LoginRefused, rows, ConfirmedStay
<1>2. CASE \E t \in DOMAIN resets : ConsumePasswordReset(p, t)
  BY <1>2 DEF ConsumePasswordReset, ConfirmedStay
<1>3. CASE \E c \in DOMAIN chals : VerifyBegin(p, c) \/ SendBegin(p, c)
  BY <1>3 DEF VerifyBegin, SendBegin, rows, ConfirmedStay
<1>4. CASE VerifyBump(p) \/ VerifyProof(p) \/ VerifyRefused(p)
  BY <1>4 DEF VerifyBump, VerifyProof, VerifyRefused, rows, ConfirmedStay
<1>5. CASE Complete2FA(p)
  BY <1>5, UsedStays DEF Complete2FA, ConfirmedStay
<1>6. CASE ConsumeChallenge(p) \/ CreateChallengeEmailOTP(p) \/ SendRefused(p)
  BY <1>6 DEF ConsumeChallenge, CreateChallengeEmailOTP, SendRefused, rows, ConfirmedStay
<1> QED
  BY <1>1, <1>2, <1>3, <1>4, <1>5, <1>6 DEF SignIn

\* Enrolling: a pending factor is started over, a confirmed one never.
LEMMA EnrollStays ==
    ASSUME FInv, NEW p \in Hands, Enroll(p)
    PROVE  ConfirmedStay
<1>1. CASE \E s \in DOMAIN signed, kind \in {"totp", "mail"} : StartBegin(p, kind, s, 0)
  BY <1>1 DEF StartBegin, rows, ConfirmedStay
<1>2. CASE \E c \in DOMAIN chals, kind \in {"totp", "mail"} : StartBegin(p, kind, 0, c)
  BY <1>2 DEF StartBegin, rows, ConfirmedStay
<1>3. CASE \E s \in DOMAIN signed : ConfirmTOTPBegin(p, s, 0) \/ ConfirmEmailBegin(p, s, 0)
  BY <1>3 DEF ConfirmTOTPBegin, ConfirmEmailBegin, rows, ConfirmedStay
<1>4. CASE \E c \in DOMAIN chals : ConfirmTOTPBegin(p, 0, c) \/ ConfirmEmailBegin(p, 0, c)
  BY <1>4 DEF ConfirmTOTPBegin, ConfirmEmailBegin, rows, ConfirmedStay
<1>5. CASE StartTOTPEnrollment(p) \/ StartEmailFactorEnrollment(p)
  BY <1>5 DEF StartTOTPEnrollment, StartEmailFactorEnrollment, ConfirmedStay
<1>6. CASE StartRefused(p) \/ ConfirmRefused(p)
  BY <1>6 DEF StartRefused, ConfirmRefused, rows, ConfirmedStay
<1>7. CASE CompleteTOTPEnrollment(p)
  BY <1>7 DEF CompleteTOTPEnrollment, confirmTOTPRow, ConfirmedStay
<1>8. CASE CompleteEmailFactorEnrollment(p)
  BY <1>8 DEF CompleteEmailFactorEnrollment, spendEmailFactorEnrollment, ConfirmedStay
<1> QED
  BY <1>1, <1>2, <1>3, <1>4, <1>5, <1>6, <1>7, <1>8 DEF Enroll

\* The removal of the authenticator: the epoch it commits in is the one the policy was asked in.
LEMMA TOTPRemovable ==
    ASSUME FInv, NEW p \in Hands, DisableTOTP(p), Mandatory
    PROVE  HasConfirmedSecondFactor'
<1>1. /\ task[p] # NoTask /\ task[p].op = "removeTOTP" /\ task[p].pc = "commit"
      /\ task[p].ver = acct.epoch /\ UNCHANGED mailf
  BY DEF DisableTOTP, At, StepUpPays, StepUpEpoch, AtEpoch
<1>2. Knows(task[p])
  BY <1>1, Busy
<1>3. ~TOTPOnly /\ mailf.conf
  BY <1>1, <1>2 DEF Knows, PolicyHolds
<1> QED
  BY <1>1, <1>3 DEF HasConfirmedSecondFactor

\* The removal of the e-mail factor, which the policy is asked about later than the epoch was
\* read.
LEMMA MailRemovable ==
    ASSUME FInv, NEW p \in Hands, DisableEmailFactor(p), Mandatory, HasConfirmedSecondFactor
    PROVE  HasConfirmedSecondFactor'
<1>1. /\ task[p] # NoTask /\ task[p].op = "removeMail" /\ task[p].pc = "commit"
      /\ task[p].ver = acct.epoch /\ totp' = UsedTOTP(task[p].proof)
  BY DEF DisableEmailFactor, At, StepUpPays, StepUpEpoch, AtEpoch
<1>2. Knows(task[p])
  BY <1>1, Busy
<1>3. TOTPOnly \/ totp.conf
  BY <1>1, <1>2 DEF Knows, PolicyHolds
<1>4. totp.conf
  BY <1>3 DEF HasConfirmedSecondFactor
<1>5. totp'.conf
  BY <1>1, <1>4, UsedStays
<1> QED
  BY <1>5 DEF HasConfirmedSecondFactor

\* What a session does with a fresh second factor, other than removing one.
LEMMA StepUpStays ==
    ASSUME FInv, NEW p \in Hands, StepUp(p), ~DisableTOTP(p), ~DisableEmailFactor(p)
    PROVE  ConfirmedStay
<1>1. CASE \E s \in DOMAIN signed : StepUpSendBegin(p, s) \/ \E op \in StepUpOps : StepUpBegin(p, op, s)
  BY <1>1 DEF StepUpSendBegin, StepUpBegin, rows, ConfirmedStay
<1>2. CASE RemoveMailPolicy(p) \/ StepUpProof(p) \/ StepUpRefused(p)
  BY <1>2 DEF RemoveMailPolicy, StepUpProof, StepUpRefused, rows, ConfirmedStay
<1>3. CASE RegenerateRecoveryCodes(p) \/ ConsumeSecondFactor(p)
  BY <1>3, UsedStays DEF RegenerateRecoveryCodes, ConsumeSecondFactor, ConfirmedStay
<1>4. CASE SetFirstPassword(p)
  BY <1>4, UsedStays DEF SetFirstPassword, ConfirmedStay
<1>5. CASE CreateStepUpEmailOTP(p)
  BY <1>5 DEF CreateStepUpEmailOTP, ConfirmedStay
<1> QED
  BY <1>1, <1>2, <1>3, <1>4, <1>5 DEF StepUp

\* Every step leaves the account with a factor that counts, if the policy demands one.
LEMMA MandatoryStep ==
    ASSUME FInv, [FactorsNext]_factorVars, Mandatory, HasConfirmedSecondFactor
    PROVE  HasConfirmedSecondFactor'
<1>0. ConfirmedStay => HasConfirmedSecondFactor'
  BY DEF ConfirmedStay, HasConfirmedSecondFactor
<1>1. ASSUME NEW p \in Hands, SignIn(p) \/ Enroll(p) \/ StepUp(p) PROVE HasConfirmedSecondFactor'
  BY <1>0, <1>1, SignInStays, EnrollStays, StepUpStays, TOTPRemovable, MailRemovable
<1>2. CASE \E byAdmin \in BOOLEAN : CreatePasswordReset(byAdmin)
  BY <1>0, <1>2 DEF CreatePasswordReset, ConfirmedStay
<1>3. CASE CreateEmailVerification \/ SetStatus \/ SweepTwoFactor \/ Tick
  BY <1>0, <1>3 DEF CreateEmailVerification, SetStatus, SweepTwoFactor, Tick, rows, ConfirmedStay
<1>4. CASE \E i \in DOMAIN otps : ConsumeEmailVerification(i)
  BY <1>0, <1>4 DEF ConsumeEmailVerification, ConfirmedStay
<1>5. CASE UNCHANGED factorVars
  BY <1>0, <1>5 DEF factorVars, ConfirmedStay
<1> QED
  BY <1>1, <1>2, <1>3, <1>4, <1>5 DEF FactorsNext

\* No recovery codes without a factor, no session of an older epoch, and no administrator
\* without the factor the policy demands (disableFactorTx, issueSessionTx, mayRemoveFactor).
THEOREM FactorsAreSound == FactorsSpec => FactorsSound
<1>1. FInv => NoOrphanRecovery /\ SessionBornInEpoch
  BY DEF FInv
<1>2. FInv /\ [FactorsNext]_factorVars =>
        [Mandatory /\ HasConfirmedSecondFactor => HasConfirmedSecondFactor']_factorVars
  BY MandatoryStep
<1> QED
  BY <1>1, <1>2, FactorsInv, PTL DEF FactorsSpec, FactorsSound, MandatoryFactorStays

===============================================================================

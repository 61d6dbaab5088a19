---------------------------- MODULE MediaProofs ----------------------------
(***************************************************************************)
(* Proofs about NoteMedia, for any number of keys, notes and requests.     *)
(*                                                                         *)
(* No object is ever without an owner's row, unless a put that failed kept *)
(* it: that holds in every scenario.  No claim is ever without its object, *)
(* unless a deletion that failed took it: that holds where the notes that  *)
(* may share an image are saved one after the other, in one folder and not *)
(* by a create.  Elsewhere it does not hold (README, section 3).           *)
(*                                                                         *)
(* The argument of the second: a cleanup that has its locks deletes what   *)
(* had a lease when it got them; a claimed key has none, because whoever   *)
(* ends a lease or starts one sees every claim there is; and a key that is *)
(* locked for deletion cannot get a claim.                                 *)
(***************************************************************************)
EXTENDS NoteMedia, PreviewWorker, FiniteSetTheorems, SequenceTheorems, TLAPS

Leases  == {"none", "running", "expired"}
Over    == {"done", "failed"}
Uploads == {"new", "put", "forget"} \cup Over
Saving  == {"trigger", "insert", "claim", "scan", "expire", "commit"}
Wipes   == {"cleanup", "lock", "deleteObjects", "deleteRows"}
Ops     == {"none", "create", "update", "delete", "cascade"}
TxLeases == UNION {[S -> Leases] : S \in SUBSET Key}
TxRows  == [pc : {"idle"} \cup Saving \cup Wipes, op : Ops, ns : SUBSET Notes, body : SUBSET Key,
            own : SUBSET (Notes \X Key), rel : SUBSET Key, scan : SUBSET Key, lease : TxLeases,
            cand : SUBSET Key]

MediaTyped ==
    /\ plan \in MediaScenarios
    /\ notes \in [Notes -> {"new", "live", "gone"}]
    /\ lease \in TxLeases
    /\ refs \subseteq Notes \X Key
    /\ store \subseteq Key /\ spoiled \subseteq Key
    /\ upload \in [Key -> Uploads]
    /\ tx \in [Process -> TxRows]

\* A transaction touches only keys whose upload is over, and claims only those that succeeded.
Touched(t) == t.rel \cup t.scan \cup t.cand \cup DOMAIN t.lease
Clean(t) ==
    /\ \A k \in Touched(t) : upload[k] \in Over
    /\ \A k \in t.body : upload[k] = "done"
    /\ \A r \in t.own : upload[r[2]] = "done"

\* An upload has its row from before its put; a lease ends after it.
UploadsOwned ==
    /\ \A r \in refs : upload[r[2]] = "done"
    /\ \A k \in Rows : upload[k] # "new" /\ (lease[k] = "expired" => upload[k] \in Over)
    /\ \A k \in Key : upload[k] \in {"put", "forget"} => k \in Rows
    /\ \A k \in store : upload[k] \in Over \cup {"forget"}
    /\ \A k \in store : upload[k] = "forget" => k \in spoiled

\* Rows go after their objects.
RowsGoLast == \A p \in Process : At(p, "deleteRows") => tx[p].scan \cap store = {}

\* The inductive invariant behind StoredIsOwned.
OInv ==
    /\ MediaTyped /\ UploadsOwned /\ RowsGoLast /\ StoredIsOwned
    /\ \A p \in Process : Clean(tx[p])

\* Notes that may share an image are in one folder, whose lock orders what changes them; a create
\* does not take that lock.
BodyKeys(n) == UNION plan.bodies[n]
Share(m, n) == BodyKeys(m) \cap BodyKeys(n) # {}
SharingOrdered ==
    \A m, n \in Notes : m # n /\ Share(m, n) =>
        /\ plan.folder[m] = plan.folder[n] /\ plan.folder[m] # "root"
        /\ "create" \notin plan.ops

\* Transactions that are open at once change notes that share nothing.
Apart ==
    \A p, q \in Process : p # q =>
        \A m \in tx[p].ns, n \in tx[q].ns : m # n /\ ~Share(m, n)

\* A claim that p has not replaced.
ClaimedElsewhere(t, k) == \E r \in refs : r[1] \notin t.ns /\ r[2] = k

\* What a transaction knows of the keys it has in hand.
Proper(t) ==
    /\ t.pc \notin Saving => t.ns = {} /\ t.own = {}
    /\ \A r \in t.own : r[1] \in t.ns /\ r[2] \in BodyKeys(r[1]) /\ r[2] \in Rows
    /\ \A n \in t.ns : t.body \subseteq BodyKeys(n)
    /\ \A k \in t.rel : \E n \in t.ns : k \in BodyKeys(n)
    /\ t.op \notin {"create", "update"} => t.own = {}
    /\ t.pc \in {"insert", "claim"} => t.op \in {"create", "update"}
    /\ t.pc \in {"trigger", "expire"} =>
          \A k \in t.scan : k \in t.rel /\ ~ClaimedElsewhere(t, k)
    /\ t.pc = "expire" => ~\E r \in t.own : r[2] \in t.scan
    /\ \A k \in DOMAIN t.lease :
          t.lease[k] = "none" \/ (k \in t.rel /\ ~ClaimedElsewhere(t, k))
    /\ t.pc \in {"scan", "expire", "commit"} =>
          \A r \in t.own : r[2] \in DOMAIN t.lease /\ t.lease[r[2]] = "none"
    /\ t.pc \in Saving => t.op \in plan.ops
    /\ t.op # "create" => \A n \in t.ns : notes[n] = "live"

\* A claimed key has a row and no lease.
ClaimsKeep ==
    \A r \in refs : r[2] \in BodyKeys(r[1]) /\ r[2] \in Rows /\ lease[r[2]] = "none"

\* Nobody has a claim to what is locked for deletion.
WipedUnclaimed ==
    \A p \in Process : Wiping(p) => \A k \in tx[p].scan :
        /\ ~Claimed(refs, k)
        /\ \A q \in Process : ~Claimed(tx[q].own, k)

\* A row whose upload succeeded has its object, unless its deletion is under way or failed.
RowsHaveObjects ==
    \A k \in Rows : upload[k] = "done" =>
        \/ k \in store \cup spoiled
        \/ \E p \in Process : At(p, "deleteRows") /\ k \in tx[p].scan

\* The inductive invariant behind ClaimedObjectExists.
CInv ==
    /\ OInv /\ SharingOrdered
    /\ Apart /\ ClaimsKeep /\ WipedUnclaimed /\ RowsHaveObjects
    /\ \A p \in Process : Proper(tx[p])

-------------------------------------------------------------------------------
(***************************************************************************)
(* Types.                                                                  *)
(***************************************************************************)

\* A partial assignment of leases, and its edits.
LEMMA LeaseFields ==
    ASSUME NEW f \in TxLeases
    PROVE  /\ DOMAIN f \subseteq Key /\ f \in [DOMAIN f -> Leases]
           /\ \A k \in DOMAIN f : k \in Key /\ f[k] \in Leases
  BY DEF TxLeases

\* A function on keys to leases is one.
LEMMA LeasesMade ==
    ASSUME NEW S \in SUBSET Key, NEW f \in [S -> Leases]
    PROVE  f \in TxLeases
  BY DEF TxLeases

\* A transaction, field by field.
LEMMA TxFields ==
    ASSUME MediaTyped, NEW p \in Process
    PROVE  /\ tx[p] \in TxRows
           /\ tx[p].pc \in {"idle"} \cup Saving \cup Wipes /\ tx[p].op \in Ops
           /\ tx[p].ns \subseteq Notes /\ tx[p].body \subseteq Key
           /\ tx[p].own \subseteq Notes \X Key
           /\ tx[p].rel \subseteq Key /\ tx[p].scan \subseteq Key /\ tx[p].cand \subseteq Key
           /\ tx[p].lease \in TxLeases
<1>1. tx[p] \in TxRows
  BY DEF MediaTyped
<1> QED BY <1>1 DEF TxRows

\* A claim names a note and a key.
LEMMA ClaimFields ==
    ASSUME NEW C \in SUBSET (Notes \X Key), NEW r \in C
    PROVE  r = <<r[1], r[2]>> /\ r[1] \in Notes /\ r[2] \in Key
  OBVIOUS

\* Rows of the model's type.
LEMMA RowsTyped ==
    ASSUME MediaTyped
    PROVE  /\ Rows \subseteq Key /\ lease \in [Rows -> Leases]
           /\ \A k \in Rows : k \in Key /\ lease[k] \in Leases
<1>1. lease \in TxLeases
  BY DEF MediaTyped
<1> QED BY <1>1, LeaseFields DEF Rows

\* Nothing in hand.
LEMMA IdleTx ==
    /\ NoTx \in TxRows /\ NoTx.pc = "idle" /\ NoTx.op = "none" /\ NoTx.ns = {} /\ NoTx.body = {}
    /\ NoTx.own = {} /\ NoTx.rel = {} /\ NoTx.scan = {} /\ NoTx.cand = {}
    /\ NoTx.lease = NoKeys /\ DOMAIN NoKeys = {} /\ NoKeys \in TxLeases
<1>1. NoKeys \in [{} -> Leases] /\ DOMAIN NoKeys = {}
  BY DEF NoKeys
<1>2. NoKeys \in TxLeases
  BY <1>1, LeasesMade
<1> QED BY <1>1, <1>2 DEF NoTx, TxRows, Ops

\* Who has nothing in hand knows nothing wrong.
LEMMA IdleIsClean == Clean(NoTx) /\ Proper(NoTx)
<1>1. "idle" \notin Saving
  BY DEF Saving
<1> QED BY <1>1, IdleTx DEF Clean, Touched, Proper

\* The phases are what they are.
LEMMA Phases ==
    /\ "idle" \notin Saving \cup Wipes
    /\ Saving \cap Wipes = {}
    /\ {"trigger", "insert", "claim", "scan", "expire", "commit"} = Saving
    /\ {"cleanup", "lock", "deleteObjects", "deleteRows"} = Wipes
  BY DEF Saving, Wipes

-------------------------------------------------------------------------------
(***************************************************************************)
(* A statement that only its own transaction sees.                         *)
(***************************************************************************)

\* The transactions after such a statement.
LEMMA PrivateFrame ==
    ASSUME MediaTyped, NEW p \in Process, NEW t \in TxRows, Private(p, t)
    PROVE  /\ plan' = plan /\ notes' = notes /\ lease' = lease /\ refs' = refs /\ store' = store
           /\ upload' = upload /\ spoiled' = spoiled
           /\ tx' \in [Process -> TxRows] /\ tx'[p] = t
           /\ \A q \in Process : q # p => tx'[q] = tx[q]
<1>1. tx \in [Process -> TxRows] /\ tx' = [tx EXCEPT ![p] = t]
  BY DEF MediaTyped, Private, Set
<1> QED BY <1>1 DEF Private

\* It keeps the owners' invariant if what it holds is clean.
LEMMA PrivateOwned ==
    ASSUME OInv, NEW p \in Process, NEW t \in TxRows, Private(p, t), Clean(t),
           t.pc # "deleteRows"
    PROVE  OInv'
<1>0. /\ plan' = plan /\ notes' = notes /\ lease' = lease /\ refs' = refs /\ store' = store
      /\ upload' = upload /\ spoiled' = spoiled
      /\ tx' \in [Process -> TxRows] /\ tx'[p] = t
      /\ \A q \in Process : q # p => tx'[q] = tx[q]
  BY PrivateFrame DEF OInv
<1>1. MediaTyped'
  BY <1>0 DEF OInv, MediaTyped
<1>2. UploadsOwned' /\ StoredIsOwned'
  BY <1>0 DEF OInv, UploadsOwned, StoredIsOwned, Rows
<1>3. RowsGoLast'
  BY <1>0 DEF OInv, RowsGoLast, At
<1>4. \A q \in Process : Clean(tx[q])'
  <2> SUFFICES ASSUME NEW q \in Process
               PROVE  Clean(tx[q])'
    OBVIOUS
  <2>1. Clean(tx'[q])
    BY <1>0 DEF OInv
  <2> QED BY <2>1, <1>0 DEF Clean, Touched
<1> QED BY <1>1, <1>2, <1>3, <1>4 DEF OInv

\* It keeps the claims' invariant if it knows what a transaction must, changes notes that nobody
\* else changes, claims nothing that is locked for deletion, and locks nothing claimed.
LEMMA PrivateClaims ==
    ASSUME CInv, OInv', NEW p \in Process, NEW t \in TxRows, Private(p, t), Proper(t),
           t.pc # "deleteRows", ~At(p, "deleteRows"),
           \A q \in Process : q # p =>
               \A m \in t.ns, n \in tx[q].ns : m # n /\ ~Share(m, n) /\ ~Share(n, m),
           \A k \in Key : Claimed(t.own, k) =>
               Claimed(tx[p].own, k) \/ Claimed(refs, k) \/ ~ForUpdate(p, k),
           t.pc = "deleteObjects" => \A k \in t.scan :
               ~Claimed(refs, k) /\ \A q \in Process \ {p} : ~Claimed(tx[q].own, k)
    PROVE  CInv'
<1>0. /\ plan' = plan /\ notes' = notes /\ lease' = lease /\ refs' = refs /\ store' = store
      /\ upload' = upload /\ spoiled' = spoiled
      /\ tx' \in [Process -> TxRows] /\ tx'[p] = t
      /\ \A q \in Process : q # p => tx'[q] = tx[q]
  BY PrivateFrame DEF CInv, OInv
<1>1. SharingOrdered' /\ ClaimsKeep'
  BY <1>0 DEF CInv, SharingOrdered, Share, BodyKeys, ClaimsKeep, Rows
<1>2. Apart'
  <2>1. \A m, n : Share(m, n)' = Share(m, n)
    BY <1>0 DEF Share, BodyKeys
  <2> SUFFICES ASSUME NEW q \in Process, NEW r \in Process, q # r,
                      NEW m \in tx'[q].ns, NEW n \in tx'[r].ns
               PROVE  m # n /\ ~Share(m, n)
    BY <2>1 DEF Apart
  <2>2. CASE q # p /\ r # p
    BY <2>2, <1>0 DEF Apart, CInv
  <2>3. CASE q = p
    BY <2>3, <1>0
  <2>4. CASE r = p
    BY <2>4, <1>0
  <2> QED BY <2>2, <2>3, <2>4
<1>3. \A q \in Process : Proper(tx[q])'
  <2> SUFFICES ASSUME NEW q \in Process
               PROVE  Proper(tx[q])'
    OBVIOUS
  <2>1. Proper(tx'[q])
    BY <1>0 DEF CInv
  <2> QED BY <2>1, <1>0 DEF Proper, ClaimedElsewhere, BodyKeys, Rows
<1>4. WipedUnclaimed'
  <2> SUFFICES ASSUME NEW q \in Process, tx'[q].pc \in {"deleteObjects", "deleteRows"},
                      NEW k \in tx'[q].scan
               PROVE  ~Claimed(refs, k) /\ \A r \in Process : ~Claimed(tx'[r].own, k)
    BY <1>0 DEF WipedUnclaimed, Wiping, Claimed
  <2>1. k \in Key
    BY <1>0 DEF TxRows
  <2>2. CASE q = p
    <3>1. t.own = {}
      BY <2>2, <1>0, Phases DEF Proper, Saving
    <3>2. ~Claimed(t.own, k)
      BY <3>1 DEF Claimed
    <3> QED BY <2>2, <3>2, <1>0
  <2>3. CASE q # p
    <3>1. Wiping(q) /\ k \in tx[q].scan
      BY <2>3, <1>0 DEF Wiping
    <3>2. ~Claimed(refs, k) /\ \A r \in Process : ~Claimed(tx[r].own, k)
      BY <3>1 DEF WipedUnclaimed, CInv
    <3>3. ForUpdate(p, k)
      BY <3>1, <2>3 DEF ForUpdate
    <3>4. ~Claimed(t.own, k)
      BY <2>1, <3>2, <3>3
    <3> QED BY <3>2, <3>4, <1>0
  <2> QED BY <2>2, <2>3
<1>5. RowsHaveObjects'
  <2>1. \A q \in Process : At(q, "deleteRows") => tx'[q] = tx[q]
    BY <1>0
  <2> QED BY <2>1, <1>0 DEF RowsHaveObjects, CInv, At, Rows
<1> QED BY <1>1, <1>2, <1>3, <1>4, <1>5 DEF CInv

-------------------------------------------------------------------------------
(***************************************************************************)
(* A save, a delete, a cascade: its first statement.                       *)
(***************************************************************************)

\* The transaction that the first statement opens.
Opened(op, ns, body) ==
    LET own  == {r \in refs : r[1] \in ns}
        gone == {r \in own : r[2] \notin body}
        rel  == {r[2] : r \in gone}
    IN  [NoTx EXCEPT !.pc = "trigger", !.op = op, !.ns = ns, !.body = body,
                     !.own = own \ gone, !.rel = rel,
                     !.scan = {k \in rel : ~Claimed(refs \ gone, k)}]

\* It keeps some of the claims that its notes have and releases the others.
LEMMA OpenedFields ==
    ASSUME MediaTyped, NEW op, NEW ns, NEW body, op \in Ops, ns \subseteq Notes, body \subseteq Key
    PROVE  LET t == Opened(op, ns, body)
           IN  /\ t \in TxRows /\ t.pc = "trigger" /\ t.op = op /\ t.ns = ns /\ t.body = body
               /\ \A r \in t.own : r \in refs /\ r[1] \in ns /\ r[2] \in body
               /\ \A k \in t.rel : \E r \in refs : r[1] \in ns /\ r[2] = k
               /\ \A k \in t.scan : k \in t.rel /\ \A r \in refs : r[2] = k => r[1] \in ns
               /\ t.cand = {} /\ DOMAIN t.lease = {}
<1> DEFINE own  == {r \in refs : r[1] \in ns}
           gone == {r \in own : r[2] \notin body}
           rel  == {r[2] : r \in gone}
           scan == {k \in rel : ~Claimed(refs \ gone, k)}
           t    == Opened(op, ns, body)
<1>0. refs \in SUBSET (Notes \X Key)
  BY DEF MediaTyped
<1>1. \A r \in refs : r[2] \in Key
  BY <1>0, ClaimFields
<1>2. rel \subseteq Key /\ scan \subseteq rel /\ own \ gone \in SUBSET (Notes \X Key)
  BY <1>0, <1>1
<1>3. \A r \in own \ gone : r \in refs /\ r[1] \in ns /\ r[2] \in body
  OBVIOUS
<1>4. \A k \in rel : \E r \in refs : r[1] \in ns /\ r[2] = k
  OBVIOUS
<1>5. \A k \in scan : \A r \in refs : r[2] = k => r[1] \in ns
  BY DEF Claimed
<1>6. t = [NoTx EXCEPT !.pc = "trigger", !.op = op, !.ns = ns, !.body = body,
                       !.own = own \ gone, !.rel = rel, !.scan = scan]
  BY DEF Opened
<1> DEFINE kept == own \ gone
<1> HIDE DEF scan, t
<1>7. /\ t \in TxRows /\ t.pc = "trigger" /\ t.op = op /\ t.ns = ns /\ t.body = body
      /\ t.own = kept /\ t.rel = rel /\ t.scan = scan /\ t.cand = {} /\ t.lease = NoKeys
  <2> HIDE DEF rel, own, gone
  <2>1. t = [NoTx EXCEPT !.pc = "trigger", !.op = op, !.ns = ns, !.body = body,
                         !.own = kept, !.rel = rel, !.scan = scan]
    BY <1>6
  <2>2. scan \subseteq Key /\ rel \subseteq Key /\ kept \subseteq Notes \X Key /\ "trigger" \in Saving
    BY <1>2 DEF Saving
  <2> HIDE DEF kept
  <2> QED BY <2>1, <2>2, IdleTx DEF TxRows
<1>8. DOMAIN t.lease = {}
  BY <1>7, IdleTx
<1> HIDE DEF rel, own, gone, kept
<1> QED BY <1>2, <1>3, <1>4, <1>5, <1>7, <1>8 DEF t, kept

\* The step that opens it.
LEMMA ReleaseOwned ==
    ASSUME OInv, NEW p \in Process, NEW op \in Ops, NEW ns \in SUBSET Notes,
           NEW body \in SUBSET Known, ReleaseRefs(p, op, ns, body)
    PROVE  OInv' /\ Private(p, Opened(op, ns, body))
<1> DEFINE t == Opened(op, ns, body)
<1>0. MediaTyped /\ UploadsOwned /\ body \in SUBSET Key /\ \A k \in body : upload[k] = "done"
  BY DEF OInv, Known
<1>1. Private(p, t)
  BY DEF ReleaseRefs, Opened
<1>2. /\ t \in TxRows /\ t.pc = "trigger" /\ t.body = body
      /\ \A r \in t.own : r \in refs
      /\ \A k \in t.rel : \E r \in refs : r[2] = k
      /\ \A k \in t.scan : k \in t.rel
      /\ t.cand = {} /\ DOMAIN t.lease = {}
  BY <1>0, OpenedFields
<1> HIDE DEF t
<1>3. Clean(t)
  BY <1>0, <1>2 DEF Clean, Touched, UploadsOwned, Over
<1>4. OInv'
  BY <1>1, <1>2, <1>3, PrivateOwned
<1> QED BY <1>1, <1>4 DEF t

\* It opens among transactions that share nothing with it.
LEMMA ReleaseClaims ==
    ASSUME CInv, NEW p \in Process, NEW op \in Ops, NEW ns \in SUBSET Notes,
           NEW body \in SUBSET Known, ReleaseRefs(p, op, ns, body),
           \A q \in Process : q # p =>
               \A m \in ns, n \in tx[q].ns : m # n /\ ~Share(m, n) /\ ~Share(n, m),
           op \notin {"create", "update"} => body = {},
           op # "create" => \A n \in ns : notes[n] = "live",
           \A n \in ns : body \subseteq BodyKeys(n)
    PROVE  CInv'
<1> DEFINE t == Opened(op, ns, body)
<1>0. OInv /\ MediaTyped /\ body \in SUBSET Key
  BY DEF CInv, OInv, Known
<1>1. OInv' /\ Private(p, t)
  BY <1>0, ReleaseOwned
<1>2. /\ t \in TxRows /\ t.pc = "trigger" /\ t.op = op /\ t.ns = ns /\ t.body = body
      /\ \A r \in t.own : r \in refs /\ r[1] \in ns /\ r[2] \in body
      /\ \A k \in t.rel : \E r \in refs : r[1] \in ns /\ r[2] = k
      /\ \A k \in t.scan : k \in t.rel /\ \A r \in refs : r[2] = k => r[1] \in ns
      /\ t.cand = {} /\ DOMAIN t.lease = {}
  BY <1>0, OpenedFields
<1> HIDE DEF t
<1>3. op \in plan.ops /\ tx[p].pc = "idle"
  BY DEF ReleaseRefs, Open
<1>4. Proper(t)
  <2>1. \A r \in refs : r[2] \in BodyKeys(r[1]) /\ r[2] \in Rows
    BY DEF CInv, ClaimsKeep
  <2>2. \A k \in t.rel : \E n \in t.ns : k \in BodyKeys(n)
    BY <1>2, <2>1
  <2>3. \A r \in t.own : r[1] \in t.ns /\ r[2] \in BodyKeys(r[1]) /\ r[2] \in Rows
    BY <1>2, <2>1
  <2>4. \A k \in t.scan : k \in t.rel /\ ~ClaimedElsewhere(t, k)
    BY <1>2 DEF ClaimedElsewhere
  <2>5. t.op \notin {"create", "update"} => t.own = {}
    BY <1>2
  <2> QED BY <1>2, <1>3, <2>2, <2>3, <2>4, <2>5 DEF Proper, Saving
<1>5. \A k \in Key : Claimed(t.own, k) => Claimed(refs, k)
  BY <1>2 DEF Claimed
<1>6. ~At(p, "deleteRows")
  BY <1>3 DEF At
<1> QED BY <1>1, <1>2, <1>4, <1>5, <1>6, PrivateClaims

\* Of the transactions that are open none changes what an update or a delete of n may share.
LEMMA GatedApart ==
    ASSUME CInv, NEW p \in Process, NEW n \in Notes, Gated(p, n) \/ (~Held(p, n) /\ "create" \in plan.ops),
           NEW q \in Process, q # p, NEW m \in tx[q].ns
    PROVE  m # n /\ ~Share(m, n) /\ ~Share(n, m)
<1>0. MediaTyped /\ m \in Notes
  BY TxFields DEF CInv, OInv
<1>1. m # n
  BY DEF Gated, Held
<1>2. Share(m, n) <=> Share(n, m)
  BY DEF Share
<1>3. CASE "create" \in plan.ops
  BY <1>0, <1>1, <1>2, <1>3 DEF SharingOrdered, CInv
<1>4. CASE "create" \notin plan.ops
  <2> SUFFICES ASSUME Share(m, n) PROVE FALSE
    BY <1>1, <1>2
  <2>1. plan.folder[m] = plan.folder[n] /\ plan.folder[m] # "root"
    BY <1>0, <1>1 DEF SharingOrdered, CInv
  <2>2. Proper(tx[q])
    BY DEF CInv
  <2>3. tx[q].op # "create"
    BY <1>4, <2>2 DEF Proper
  <2>4. notes[m] = "live"
    BY <2>2, <2>3 DEF Proper
  <2>5. FolderHeld(p, n)
    BY <2>1, <2>4 DEF FolderHeld
  <2> QED BY <1>4, <2>5 DEF Gated
<1> QED BY <1>3, <1>4

\* A request's save, delete or cascade.
LEMMA SaveOrDeleteStep ==
    ASSUME OInv, NEW p \in Sessions, SaveOrDelete(p)
    PROVE  OInv' /\ (CInv => CInv')
<1>0. p \in Process
  BY DEF Process
<1>1. ASSUME NEW n \in Notes, Create(p, n) \/ Update(p, n)
      PROVE  OInv' /\ (CInv => CInv')
  <2> DEFINE op == IF notes[n] = "new" THEN "create" ELSE "update"
  <2>1. PICK b \in Body(n) : ReleaseRefs(p, op, {n}, b)
    BY <1>1 DEF Create, Update
  <2>2. op \in Ops /\ op \in {"create", "update"} /\ (op # "create" => notes[n] = "live")
    BY <1>1 DEF Create, Update, Ops
  <2>3. Gated(p, n) \/ (~Held(p, n) /\ "create" \in plan.ops)
    BY <1>1 DEF Create, Update, ReleaseRefs
  <2> HIDE DEF op
  <2>4. b \in SUBSET Known /\ b \subseteq BodyKeys(n) /\ {n} \in SUBSET Notes
    BY DEF Body, BodyKeys
  <2>5. OInv'
    BY <1>0, <2>1, <2>2, <2>4, ReleaseOwned
  <2>6. ASSUME CInv PROVE CInv'
    <3>1. \A q \in Process : q # p =>
              \A m \in {n}, k \in tx[q].ns : m # k /\ ~Share(m, k) /\ ~Share(k, m)
      BY <1>0, <2>3, <2>6, GatedApart
    <3> QED BY <1>0, <2>1, <2>2, <2>4, <2>6, <3>1, ReleaseClaims
  <2> QED BY <2>5, <2>6
<1>2. ASSUME NEW op \in Ops, op \notin {"create", "update"}, NEW ns \in SUBSET Notes,
             \A n \in ns : notes[n] = "live" /\ Gated(p, n), ReleaseRefs(p, op, ns, {})
      PROVE  OInv' /\ (CInv => CInv')
  <2>1. OInv'
    BY <1>0, <1>2, ReleaseOwned
  <2>2. ASSUME CInv PROVE CInv'
    <3>1. \A q \in Process : q # p =>
              \A m \in ns, k \in tx[q].ns : m # k /\ ~Share(m, k) /\ ~Share(k, m)
      BY <1>0, <1>2, <2>2, GatedApart
    <3>2. {} \in SUBSET Known /\ \A n \in ns : {} \subseteq BodyKeys(n)
      OBVIOUS
    <3> QED BY <1>0, <1>2, <2>2, <3>1, <3>2, ReleaseClaims
  <2> QED BY <2>1, <2>2
<1>3. ASSUME NEW n \in Notes, Delete(p, n)
      PROVE  OInv' /\ (CInv => CInv')
  <2>1. {n} \in SUBSET Notes /\ "delete" \in Ops /\ "delete" \notin {"create", "update"}
    BY DEF Ops
  <2> QED BY <1>2, <1>3, <2>1 DEF Delete
<1>4. ASSUME NEW f, ReleaseFolderSubtreeRefs(p, f)
      PROVE  OInv' /\ (CInv => CInv')
  <2> DEFINE ns == {n \in Notes : plan.folder[n] = f /\ notes[n] = "live"}
  <2>1. ns \in SUBSET Notes /\ "cascade" \in Ops /\ "cascade" \notin {"create", "update"}
    BY DEF Ops
  <2>2. (\A n \in ns : notes[n] = "live" /\ Gated(p, n)) /\ ReleaseRefs(p, "cascade", ns, {})
    BY <1>4 DEF ReleaseFolderSubtreeRefs
  <2> HIDE DEF ns
  <2> QED BY <1>2, <2>1, <2>2
<1> QED BY <1>1, <1>3, <1>4 DEF SaveOrDelete

-------------------------------------------------------------------------------
(***************************************************************************)
(* The statements of a save, a delete or a cascade.                        *)
(***************************************************************************)

\* A transaction that gave the rows of keys the lease l.
Relt(mine, l, t) ==
    [t EXCEPT !.scan = {},
              !.lease = [k \in DOMAIN @ \cup (mine \cap Rows) |-> IF k \in mine THEN l ELSE @[k]]]

\* Its leases are the old ones but for these keys.
LEMMA ReltFields ==
    ASSUME MediaTyped, NEW mine, NEW l, NEW t, t \in TxRows, l \in Leases
    PROVE  LET u == Relt(mine, l, t)
           IN  /\ u \in TxRows /\ u.pc = t.pc /\ u.op = t.op /\ u.ns = t.ns /\ u.body = t.body
               /\ u.own = t.own /\ u.rel = t.rel /\ u.cand = t.cand /\ u.scan = {}
               /\ DOMAIN u.lease = DOMAIN t.lease \cup (mine \cap Rows)
               /\ \A k \in DOMAIN u.lease :
                     \/ k \in mine /\ u.lease[k] = l
                     \/ k \notin mine /\ k \in DOMAIN t.lease /\ u.lease[k] = t.lease[k]
<1> DEFINE f == [k \in DOMAIN t.lease \cup (mine \cap Rows) |-> IF k \in mine THEN l ELSE t.lease[k]]
           u == Relt(mine, l, t)
<1>1. t.lease \in TxLeases
  BY DEF TxRows
<1>2. DOMAIN t.lease \subseteq Key /\ \A k \in DOMAIN t.lease : t.lease[k] \in Leases
  BY <1>1, LeaseFields
<1>3. DOMAIN f \in SUBSET Key
  BY <1>2, RowsTyped
<1>4. f \in [DOMAIN f -> Leases]
  BY <1>2
<1>5. f \in TxLeases
  BY <1>3, <1>4, LeasesMade
<1>6. /\ DOMAIN f = DOMAIN t.lease \cup (mine \cap Rows)
      /\ \A k \in DOMAIN f :
             \/ k \in mine /\ f[k] = l
             \/ k \notin mine /\ k \in DOMAIN t.lease /\ f[k] = t.lease[k]
  OBVIOUS
<1>7. u = [t EXCEPT !.scan = {}, !.lease = f]
  BY DEF Relt
<1> HIDE DEF f, u
<1>8. /\ u \in TxRows /\ u.pc = t.pc /\ u.op = t.op /\ u.ns = t.ns /\ u.body = t.body
      /\ u.own = t.own /\ u.rel = t.rel /\ u.cand = t.cand /\ u.scan = {} /\ u.lease = f
  BY <1>5, <1>7 DEF TxRows
<1> QED BY <1>6, <1>8 DEF u

\* A transaction that a statement moves on to pc, with new candidates.
Moved(t, pc, cand) == [[t EXCEPT !.pc = pc] EXCEPT !.cand = cand]
\* Such a transaction has its type and the rest of its fields.
LEMMA MovedFields ==
    ASSUME NEW t, NEW pc, NEW cand, t \in TxRows, pc \in {"idle"} \cup Saving \cup Wipes, cand \subseteq Key
    PROVE  LET u == Moved(t, pc, cand)
           IN  /\ u \in TxRows /\ u.pc = pc /\ u.op = t.op /\ u.ns = t.ns /\ u.body = t.body
               /\ u.own = t.own /\ u.rel = t.rel /\ u.cand = cand /\ u.scan = t.scan
               /\ u.lease = t.lease
  BY DEF Moved, TxRows

\* A transaction that goes on with the notes it has: apart from the others, as it was.
LEMMA StaysApart ==
    ASSUME CInv, NEW p \in Process, NEW t, t.ns \subseteq tx[p].ns
    PROVE  \A q \in Process : q # p =>
               \A m \in t.ns, n \in tx[q].ns : m # n /\ ~Share(m, n) /\ ~Share(n, m)
  BY DEF CInv, Apart, Share

\* A statement that gives leases, and moves on.
LEMMA ReletStep ==
    ASSUME OInv, NEW p \in Process, NEW mine, NEW l \in {"none", "expired"}, NEW pc \in Saving,
           NEW cand, cand \subseteq tx[p].scan \cup tx[p].cand,
           mine \subseteq tx[p].scan \/ mine = {r[2] : r \in tx[p].own},
           Relet(p, mine, l, Moved(tx[p], pc, cand)), tx[p].pc \in Saving
    PROVE  /\ OInv'
           /\ CInv /\ Proper(Relt(mine, l, Moved(tx[p], pc, cand))) => CInv'
<1> DEFINE t == Moved(tx[p], pc, cand)
           u == Relt(mine, l, t)
<1>0. MediaTyped /\ tx[p] \in TxRows /\ cand \subseteq Key
  BY TxFields DEF OInv
<1>1. /\ t \in TxRows /\ t.pc = pc /\ t.op = tx[p].op /\ t.ns = tx[p].ns /\ t.body = tx[p].body
      /\ t.own = tx[p].own /\ t.rel = tx[p].rel /\ t.cand = cand /\ t.scan = tx[p].scan
      /\ t.lease = tx[p].lease
  BY <1>0, MovedFields
<1>2. Private(p, u)
  BY DEF Relet, Relt
<1> HIDE DEF t
<1>3. /\ u \in TxRows /\ u.pc = t.pc /\ u.op = t.op /\ u.ns = t.ns /\ u.body = t.body
      /\ u.own = t.own /\ u.rel = t.rel /\ u.cand = t.cand /\ u.scan = {}
      /\ DOMAIN u.lease = DOMAIN t.lease \cup (mine \cap Rows)
  <2>1. l \in Leases
    BY DEF Leases
  <2> QED BY <1>0, <1>1, <2>1, ReltFields
<1>4. Clean(u)
  <2>1. Clean(tx[p])
    BY DEF OInv
  <2>2. \A k \in mine : upload[k] \in Over
    BY <2>1 DEF Clean, Touched, Over
  <2> HIDE DEF u
  <2> QED BY <1>1, <1>3, <2>1, <2>2 DEF Clean, Touched
<1> HIDE DEF u
<1>5. u.pc # "deleteRows" /\ tx[p].pc # "deleteRows" /\ u.pc # "deleteObjects"
  BY <1>1, <1>3 DEF Saving
<1>6. OInv'
  BY <1>2, <1>3, <1>4, <1>5, PrivateOwned
<1>7. ASSUME CInv, Proper(u) PROVE CInv'
  <2>1. \A q \in Process : q # p =>
            \A m \in u.ns, n \in tx[q].ns : m # n /\ ~Share(m, n) /\ ~Share(n, m)
    BY <1>1, <1>3, <1>7, StaysApart
  <2>2. u.own = tx[p].own
    BY <1>1, <1>3
  <2> QED BY <1>2, <1>3, <1>5, <1>6, <1>7, <2>1, <2>2, PrivateClaims DEF At
<1> QED BY <1>6, <1>7 DEF u, t

\* What the leases of a transaction were, and what they become.
LEMMA ReletKnows ==
    ASSUME CInv, NEW p \in Process, NEW mine, NEW l \in {"none", "expired"}, NEW pc \in Saving,
           NEW cand, cand \subseteq Key, tx[p].pc \in Saving,
           pc \in {"insert", "claim"} => tx[p].op \in {"create", "update"},
           pc \in {"trigger", "expire"} => FALSE,
           l = "expired" => \A k \in mine : k \in tx[p].rel /\ ~ClaimedElsewhere(tx[p], k),
           pc \in {"scan", "commit"} =>
               \A r \in tx[p].own : \/ r[2] \in mine /\ l = "none"
                                    \/ /\ r[2] \notin mine /\ r[2] \in DOMAIN tx[p].lease
                                       /\ tx[p].lease[r[2]] = "none"
    PROVE  Proper(Relt(mine, l, Moved(tx[p], pc, cand)))
<1> DEFINE t == Moved(tx[p], pc, cand)
           u == Relt(mine, l, t)
<1>0. MediaTyped /\ tx[p] \in TxRows /\ Proper(tx[p])
  BY TxFields DEF CInv, OInv
<1>1. /\ t \in TxRows /\ t.pc = pc /\ t.op = tx[p].op /\ t.ns = tx[p].ns /\ t.body = tx[p].body
      /\ t.own = tx[p].own /\ t.rel = tx[p].rel /\ t.lease = tx[p].lease
  BY <1>0, MovedFields
<1> HIDE DEF t
<1>2. /\ u \in TxRows /\ u.pc = t.pc /\ u.op = t.op /\ u.ns = t.ns /\ u.body = t.body
      /\ u.own = t.own /\ u.rel = t.rel /\ u.scan = {}
      /\ DOMAIN u.lease = DOMAIN t.lease \cup (mine \cap Rows)
      /\ \A k \in DOMAIN u.lease :
            \/ k \in mine /\ u.lease[k] = l
            \/ k \notin mine /\ k \in DOMAIN t.lease /\ u.lease[k] = t.lease[k]
  <2>1. l \in Leases
    BY DEF Leases
  <2> QED BY <1>0, <1>1, <2>1, ReltFields
<1> HIDE DEF u
<1>3. \A k : ClaimedElsewhere(u, k) <=> ClaimedElsewhere(tx[p], k)
  BY <1>1, <1>2 DEF ClaimedElsewhere
<1>4. \A k \in DOMAIN u.lease :
          u.lease[k] = "none" \/ (k \in u.rel /\ ~ClaimedElsewhere(u, k))
  BY <1>0, <1>1, <1>2, <1>3 DEF Proper
<1>5. u.pc \in {"scan", "expire", "commit"} =>
          \A r \in u.own : r[2] \in DOMAIN u.lease /\ u.lease[r[2]] = "none"
  <2> SUFFICES ASSUME u.pc \in {"scan", "commit"}, NEW r \in u.own
               PROVE  r[2] \in DOMAIN u.lease /\ u.lease[r[2]] = "none"
    BY <1>1, <1>2
  <2>1. r[2] \in Rows
    BY <1>0, <1>1, <1>2 DEF Proper
  <2> QED BY <1>1, <1>2, <2>1
<1>6. Proper(u)
  BY <1>0, <1>1, <1>2, <1>4, <1>5 DEF Proper
<1> QED BY <1>6 DEF u, t

\* The trigger expires what nobody else has a claim to.
LEMMA TriggerStep ==
    ASSUME OInv, NEW p \in Process, release_deleted_note_media_refs(p)
    PROVE  OInv' /\ (CInv => CInv')
<1> DEFINE pc == IF Saves(p) THEN "insert" ELSE "scan"
<1>0. MediaTyped /\ tx[p] \in TxRows /\ tx[p].pc = "trigger" /\ tx[p].pc \in Saving
      /\ tx[p].cand \subseteq Key
  BY TxFields DEF OInv, release_deleted_note_media_refs, At, Saving
<1>1. [tx[p] EXCEPT !.pc = pc] = Moved(tx[p], pc, tx[p].cand)
  BY <1>0 DEF Moved, TxRows
<1>2. Relet(p, tx[p].scan, "expired", Moved(tx[p], pc, tx[p].cand))
  BY <1>1 DEF release_deleted_note_media_refs
<1>3. pc \in {"insert", "scan"} /\ pc \in Saving /\ (pc = "insert" => tx[p].op \in {"create", "update"})
      /\ (pc = "scan" => tx[p].op \notin {"create", "update"})
  BY DEF Saves, Saving
<1> HIDE DEF pc
<1>4. OInv' /\ (CInv /\ Proper(Relt(tx[p].scan, "expired", Moved(tx[p], pc, tx[p].cand))) => CInv')
  BY <1>0, <1>2, <1>3, ReletStep
<1>5. ASSUME CInv PROVE Proper(Relt(tx[p].scan, "expired", Moved(tx[p], pc, tx[p].cand)))
  <2>1. Proper(tx[p])
    BY <1>5 DEF CInv
  <2>2. \A k \in tx[p].scan : k \in tx[p].rel /\ ~ClaimedElsewhere(tx[p], k)
    BY <1>0, <2>1 DEF Proper
  <2>3. pc = "scan" => tx[p].own = {}
    BY <1>3, <2>1 DEF Proper
  <2> QED BY <1>0, <1>3, <1>5, <2>2, <2>3, ReletKnows
<1> QED BY <1>4, <1>5

\* The claims end the leases of their keys.
LEMMA ClaimRefsStep ==
    ASSUME OInv, NEW p \in Process, ClaimRefs(p)
    PROVE  OInv' /\ (CInv => CInv')
<1> DEFINE mine == {r[2] : r \in tx[p].own}
<1>0. MediaTyped /\ tx[p] \in TxRows /\ tx[p].pc = "claim" /\ tx[p].pc \in Saving
      /\ tx[p].cand \subseteq Key /\ "scan" \in Saving
  BY TxFields DEF OInv, ClaimRefs, At, Saving
<1>1. [tx[p] EXCEPT !.pc = "scan"] = Moved(tx[p], "scan", tx[p].cand)
  BY <1>0 DEF Moved, TxRows
<1>2. Relet(p, mine, "none", Moved(tx[p], "scan", tx[p].cand))
  BY <1>1 DEF ClaimRefs
<1>3. \A r \in tx[p].own : r[2] \in mine
  OBVIOUS
<1>4. OInv' /\ (CInv /\ Proper(Relt(mine, "none", Moved(tx[p], "scan", tx[p].cand))) => CInv')
  BY <1>0, <1>2, ReletStep
<1> HIDE DEF mine
<1>5. ASSUME CInv PROVE Proper(Relt(mine, "none", Moved(tx[p], "scan", tx[p].cand)))
  BY <1>0, <1>3, <1>5, ReletKnows
<1> QED BY <1>4, <1>5

\* The last statement expires what is left without a claim; what a save claims is not.
LEMMA ExpireReleasedStep ==
    ASSUME OInv, NEW p \in Process, expireReleased(p)
    PROVE  OInv' /\ (CInv => CInv')
<1> DEFINE cand == IF tx[p].op = "cascade" THEN {} ELSE tx[p].scan \cap Rows
<1>0. MediaTyped /\ tx[p] \in TxRows /\ tx[p].pc = "expire" /\ tx[p].pc \in Saving
      /\ tx[p].scan \subseteq Key /\ "commit" \in Saving
  BY TxFields DEF OInv, expireReleased, At, Saving
<1>1. [tx[p] EXCEPT !.pc = "commit", !.cand = cand] = Moved(tx[p], "commit", cand)
  BY <1>0 DEF Moved, TxRows
<1>2. Relet(p, tx[p].scan, "expired", Moved(tx[p], "commit", cand))
  BY <1>1 DEF expireReleased
<1>3. cand \subseteq tx[p].scan /\ cand \subseteq Key
  BY <1>0
<1> HIDE DEF cand
<1>4. OInv' /\ (CInv /\ Proper(Relt(tx[p].scan, "expired", Moved(tx[p], "commit", cand))) => CInv')
  BY <1>0, <1>2, <1>3, ReletStep
<1>5. ASSUME CInv PROVE Proper(Relt(tx[p].scan, "expired", Moved(tx[p], "commit", cand)))
  <2>1. Proper(tx[p])
    BY <1>5 DEF CInv
  <2>2. /\ \A k \in tx[p].scan : k \in tx[p].rel /\ ~ClaimedElsewhere(tx[p], k)
        /\ \A r \in tx[p].own : /\ r[2] \notin tx[p].scan
                                /\ r[2] \in DOMAIN tx[p].lease /\ tx[p].lease[r[2]] = "none"
    BY <1>0, <2>1 DEF Proper
  <2> QED BY <1>0, <1>3, <1>5, <2>2, ReletKnows
<1> QED BY <1>4, <1>5

\* A save claims the keys of its body that have a row which nobody is deleting.
LEMMA InsertRefsStep ==
    ASSUME OInv, NEW p \in Process, InsertRefs(p)
    PROVE  OInv' /\ (CInv => CInv')
<1> DEFINE mine == tx[p].body \cap Rows
           own  == tx[p].own \cup (tx[p].ns \X mine)
           t    == [tx[p] EXCEPT !.pc = "claim", !.own = own]
<1>0. MediaTyped /\ tx[p] \in TxRows /\ tx[p].pc = "insert" /\ Clean(tx[p])
  BY TxFields DEF OInv, InsertRefs, At
<1>1. Private(p, t)
  BY <1>0 DEF InsertRefs, TxRows
<1>2. own \in SUBSET (Notes \X Key)
  BY <1>0, TxFields
<1>3. \A r \in own : r \in tx[p].own \/ (r[1] \in tx[p].ns /\ r[2] \in mine)
  OBVIOUS
<1> HIDE DEF own
<1>4. /\ t \in TxRows /\ t.pc = "claim" /\ t.op = tx[p].op /\ t.ns = tx[p].ns
      /\ t.body = tx[p].body /\ t.own = own /\ t.rel = tx[p].rel /\ t.scan = tx[p].scan
      /\ t.cand = tx[p].cand /\ t.lease = tx[p].lease
  BY <1>0, <1>2 DEF TxRows, Saving
<1> HIDE DEF t
<1>5. Clean(t)
  BY <1>0, <1>3, <1>4 DEF Clean, Touched
<1>6. OInv'
  BY <1>1, <1>4, <1>5, PrivateOwned
<1>7. ASSUME CInv PROVE CInv'
  <2>0. Proper(tx[p]) /\ tx[p].pc \in Saving /\ "claim" \in Saving
    BY <1>0, <1>7 DEF CInv, Saving
  <2>1. \A k : ClaimedElsewhere(t, k) <=> ClaimedElsewhere(tx[p], k)
    BY <1>4 DEF ClaimedElsewhere
  <2>2. \A r \in t.own : r[1] \in t.ns /\ r[2] \in BodyKeys(r[1]) /\ r[2] \in Rows
    BY <1>3, <1>4, <2>0 DEF Proper
  <2>3. Proper(t)
    BY <1>0, <1>4, <2>0, <2>1, <2>2 DEF Proper
  <2>4. \A q \in Process : q # p =>
            \A m \in t.ns, n \in tx[q].ns : m # n /\ ~Share(m, n) /\ ~Share(n, m)
    BY <1>4, <1>7, StaysApart
  <2>5. \A k \in Key : Claimed(t.own, k) => Claimed(tx[p].own, k) \/ ~ForUpdate(p, k)
    BY <1>3, <1>4 DEF Claimed, InsertRefs
  <2> QED BY <1>0, <1>1, <1>4, <1>6, <1>7, <2>3, <2>4, <2>5, PrivateClaims DEF At
<1> QED BY <1>6, <1>7

\* The snapshot of the last statement: what p itself sees unclaimed.
LEMMA ExpireScanStep ==
    ASSUME OInv, NEW p \in Process, expireScan(p)
    PROVE  OInv' /\ (CInv => CInv')
<1> DEFINE scan == {k \in tx[p].rel : ~Claimed(View(p), k)}
           t    == [tx[p] EXCEPT !.pc = "expire", !.scan = scan]
<1>0. MediaTyped /\ tx[p] \in TxRows /\ tx[p].pc = "scan" /\ Clean(tx[p])
      /\ tx[p].rel \subseteq Key
  BY TxFields DEF OInv, expireScan, At
<1>1. Private(p, t)
  BY <1>0 DEF expireScan, TxRows
<1>2. scan \subseteq tx[p].rel
  OBVIOUS
<1>3. \A k \in scan : /\ \A r \in refs : r[2] = k => r[1] \in tx[p].ns
                      /\ \A r \in tx[p].own : r[2] # k
  BY DEF Claimed, View
<1> HIDE DEF scan
<1>4. /\ t \in TxRows /\ t.pc = "expire" /\ t.op = tx[p].op /\ t.ns = tx[p].ns
      /\ t.body = tx[p].body /\ t.own = tx[p].own /\ t.rel = tx[p].rel /\ t.scan = scan
      /\ t.cand = tx[p].cand /\ t.lease = tx[p].lease
  <2>1. scan \subseteq Key
    BY <1>0, <1>2
  <2> QED BY <1>0, <2>1 DEF TxRows, Saving
<1> HIDE DEF t
<1>5. Clean(t)
  BY <1>0, <1>2, <1>4 DEF Clean, Touched
<1>6. OInv'
  BY <1>1, <1>4, <1>5, PrivateOwned
<1>7. ASSUME CInv PROVE CInv'
  <2>0. Proper(tx[p]) /\ tx[p].pc \in Saving /\ "expire" \in Saving
    BY <1>0, <1>7 DEF CInv, Saving
  <2>1. \A k : ClaimedElsewhere(t, k) <=> ClaimedElsewhere(tx[p], k)
    BY <1>4 DEF ClaimedElsewhere
  <2>2. \A k \in t.scan : k \in t.rel /\ ~ClaimedElsewhere(t, k)
    BY <1>2, <1>3, <1>4 DEF ClaimedElsewhere
  <2>3. Proper(t)
    BY <1>0, <1>3, <1>4, <2>0, <2>1, <2>2 DEF Proper
  <2>4. \A q \in Process : q # p =>
            \A m \in t.ns, n \in tx[q].ns : m # n /\ ~Share(m, n) /\ ~Share(n, m)
    BY <1>4, <1>7, StaysApart
  <2> QED BY <1>0, <1>1, <1>4, <1>6, <1>7, <2>3, <2>4, PrivateClaims DEF At
<1> QED BY <1>6, <1>7

-------------------------------------------------------------------------------
(***************************************************************************)
(* Deletion: what is scanned and what is locked.                           *)
(***************************************************************************)

\* A cleanup's or a sweeper's transaction.
Wiper(pc, mine) == [[NoTx EXCEPT !.pc = pc] EXCEPT !.scan = mine]
\* Such a transaction has its type and claims nothing.
LEMMA WiperFields ==
    ASSUME NEW pc, NEW mine, pc \in Wipes, mine \subseteq Key
    PROVE  LET t == Wiper(pc, mine)
           IN  /\ t \in TxRows /\ t.pc = pc /\ t.op = "none" /\ t.ns = {} /\ t.body = {}
               /\ t.own = {} /\ t.rel = {} /\ t.scan = mine /\ t.cand = {} /\ DOMAIN t.lease = {}
<1>1. LET t == Wiper(pc, mine)
      IN  /\ t \in TxRows /\ t.pc = pc /\ t.op = "none" /\ t.ns = {} /\ t.body = {}
          /\ t.own = {} /\ t.rel = {} /\ t.scan = mine /\ t.cand = {} /\ t.lease = NoKeys
  BY IdleTx DEF Wiper, TxRows
<1> QED BY <1>1, IdleTx

\* It knows nothing that could be wrong.
LEMMA WiperIsProper ==
    ASSUME NEW pc, NEW mine, pc \in Wipes, mine \subseteq Key
    PROVE  Proper(Wiper(pc, mine))
<1> DEFINE t == Wiper(pc, mine)
<1>1. /\ t.pc = pc /\ t.op = "none" /\ t.ns = {} /\ t.body = {} /\ t.own = {} /\ t.rel = {}
      /\ DOMAIN t.lease = {}
  BY WiperFields
<1>2. pc \notin Saving
  BY Phases
<1> HIDE DEF t
<1>3. Proper(t)
  BY <1>1, <1>2, Phases DEF Proper, Saving
<1> QED BY <1>3 DEF t

\* A transaction without notes or claims that takes another's place.
LEMMA BareClaims ==
    ASSUME CInv, OInv', NEW p \in Process, NEW t \in TxRows, Private(p, t), Proper(t),
           t.ns = {}, t.own = {}, t.pc # "deleteRows", t.pc # "deleteObjects",
           ~At(p, "deleteRows")
    PROVE  CInv'
<1>1. \A k \in Key : ~Claimed(t.own, k)
  BY DEF Claimed
<1> QED BY <1>1, PrivateClaims

\* The scan of a cleanup or of the sweeper.
LEMMA ScanStep ==
    ASSUME OInv, NEW p \in Process, DeleteOwnedUnreferenced(p) \/ SystemSweepExpired(p)
    PROVE  OInv' /\ (CInv => CInv')
<1>0. MediaTyped /\ Clean(tx[p]) /\ tx[p].pc \in {"cleanup", "idle"} /\ Rows \subseteq Key
      /\ UploadsOwned
  BY RowsTyped DEF OInv, DeleteOwnedUnreferenced, SystemSweepExpired, At, Open
<1>1. PICK b : /\ Private(p, Wiper("lock", b))
               /\ \A k \in b : k \in Rows /\ (k \in tx[p].cand \/ lease[k] = "expired")
  <2>1. CASE DeleteOwnedUnreferenced(p)
    BY <2>1 DEF DeleteOwnedUnreferenced, Scan, Batches, LeaseDue, Wiper
  <2>2. CASE SystemSweepExpired(p)
    BY <2>2 DEF SystemSweepExpired, Scan, Batches, LeaseDue, Wiper
  <2> QED BY <2>1, <2>2
<1> DEFINE t == Wiper("lock", b)
<1>2. b \subseteq Key /\ "lock" \in Wipes
  BY <1>0, <1>1 DEF Wipes
<1>3. /\ t \in TxRows /\ t.pc = "lock" /\ t.ns = {} /\ t.body = {} /\ t.own = {}
      /\ t.rel = {} /\ t.scan = b /\ t.cand = {} /\ DOMAIN t.lease = {}
  BY <1>2, WiperFields
<1>4. Proper(t)
  BY <1>2, WiperIsProper
<1> HIDE DEF t
<1>5. Clean(t)
  <2>1. \A k \in b : upload[k] \in Over
    BY <1>0, <1>1 DEF Clean, Touched, UploadsOwned
  <2> QED BY <1>3, <2>1 DEF Clean, Touched
<1>6. Private(p, t)
  BY <1>1 DEF t
<1>7. OInv'
  BY <1>3, <1>5, <1>6, PrivateOwned
<1>8. ASSUME CInv PROVE CInv'
  BY <1>0, <1>3, <1>4, <1>6, <1>7, <1>8, BareClaims DEF At
<1> QED BY <1>7, <1>8

\* The locks: what has a lease under the lock has no claim, and whoever claims it now holds a
\* lock of his own on the row.
LEMMA LockRowsStep ==
    ASSUME OInv, NEW p \in Process, LockRows(p)
    PROVE  OInv' /\ (CInv => CInv')
<1> DEFINE mine == {k \in tx[p].scan : LeaseDue(p, k) /\ Lockable(p, k)}
           t    == [tx[p] EXCEPT !.pc = "deleteObjects", !.scan = mine]
<1>0. MediaTyped /\ Clean(tx[p]) /\ tx[p].pc = "lock" /\ tx[p] \in TxRows
      /\ tx[p].scan \subseteq Key
  BY TxFields DEF OInv, LockRows, At
<1>1. Private(p, NoTx) \/ Private(p, t)
  BY <1>0 DEF LockRows, TxRows
<1>2. CASE Private(p, NoTx)
  <2>1. OInv'
    BY <1>2, IdleTx, IdleIsClean, PrivateOwned
  <2>2. ASSUME CInv PROVE CInv'
    BY <1>0, <1>2, <2>1, <2>2, IdleTx, IdleIsClean, BareClaims DEF At
  <2> QED BY <2>1, <2>2
<1>3. CASE Private(p, t)
  <2>1. \A k \in mine : k \in tx[p].scan /\ k \in Rows /\ lease[k] # "none" /\ ~KeyShared(p, k)
    BY DEF LeaseDue, Lockable
  <2> HIDE DEF mine
  <2>2. /\ t \in TxRows /\ t.pc = "deleteObjects" /\ t.op = tx[p].op /\ t.ns = tx[p].ns
        /\ t.body = tx[p].body /\ t.own = tx[p].own /\ t.rel = tx[p].rel /\ t.scan = mine
        /\ t.cand = tx[p].cand /\ t.lease = tx[p].lease
    <3>1. mine \subseteq Key
      BY <1>0, <2>1
    <3> QED BY <1>0, <3>1 DEF TxRows, Wipes
  <2> HIDE DEF t
  <2>3. Clean(t)
    BY <1>0, <2>1, <2>2 DEF Clean, Touched
  <2>4. OInv'
    BY <1>3, <2>2, <2>3, PrivateOwned
  <2>5. ASSUME CInv PROVE CInv'
    <3>0. "lock" \notin Saving /\ "deleteObjects" \notin Saving
      BY DEF Saving
    <3>1. Proper(tx[p]) /\ tx[p].ns = {} /\ tx[p].own = {}
      BY <1>0, <2>5, <3>0 DEF CInv, Proper
    <3>2. \A k : ClaimedElsewhere(t, k) <=> ClaimedElsewhere(tx[p], k)
      BY <2>2 DEF ClaimedElsewhere
    <3>3. Proper(t)
      BY <1>0, <2>2, <3>0, <3>1, <3>2 DEF Proper
    <3>4. ASSUME NEW k \in mine
          PROVE  ~Claimed(refs, k) /\ \A q \in Process \ {p} : ~Claimed(tx[q].own, k)
      <4>1. ~Claimed(refs, k)
        BY <2>1, <2>5 DEF Claimed, CInv, ClaimsKeep
      <4>2. ASSUME NEW q \in Process \ {p}, NEW r \in tx[q].own, r[2] = k
            PROVE  FALSE
        <5>1. r = <<r[1], k>> /\ r[1] \in Notes
          BY <1>0, <4>2, TxFields
        <5>2. r \notin refs
          BY <4>1, <4>2 DEF Claimed
        <5>3. KeyShared(p, k)
          BY <4>2, <5>1, <5>2 DEF KeyShared
        <5> QED BY <2>1, <5>3
      <4> QED BY <4>1, <4>2 DEF Claimed
    <3>5. \A k \in Key : ~Claimed(t.own, k)
      BY <2>2, <3>1 DEF Claimed
    <3> QED BY <1>0, <1>3, <2>2, <2>4, <2>5, <3>1, <3>3, <3>4, <3>5, PrivateClaims DEF At
  <2> QED BY <2>4, <2>5
<1> QED BY <1>1, <1>2, <1>3

-------------------------------------------------------------------------------
(***************************************************************************)
(* Commits.                                                                *)
(***************************************************************************)

\* What a commit leaves of its transaction: the candidates of a cleanup.
Candidates(cand) == [[NoTx EXCEPT !.pc = "cleanup"] EXCEPT !.cand = cand]

\* What a transaction leaves when it ends: nothing, or candidates of its own.
LEMMA EndedTx ==
    ASSUME MediaTyped, NEW p \in Process, NEW t, t = NoTx \/ t = Candidates(tx[p].cand)
    PROVE  /\ t \in TxRows /\ t.pc \in {"idle", "cleanup"} /\ t.op = "none" /\ t.ns = {}
           /\ t.body = {} /\ t.own = {} /\ t.rel = {} /\ t.scan = {} /\ t.cand \subseteq tx[p].cand
           /\ DOMAIN t.lease = {} /\ Proper(t)
<1>1. tx[p].cand \subseteq Key
  BY TxFields
<1>2. /\ t \in TxRows /\ t.pc \in {"idle", "cleanup"} /\ t.op = "none" /\ t.ns = {}
      /\ t.body = {} /\ t.own = {} /\ t.rel = {} /\ t.scan = {} /\ t.cand \subseteq tx[p].cand
      /\ t.lease = NoKeys
  <2>1. CASE t = NoTx
    BY <2>1, IdleTx
  <2>2. CASE t = Candidates(tx[p].cand)
    BY <1>1, <2>2, IdleTx DEF Candidates, TxRows, Wipes
  <2> QED BY <2>1, <2>2
<1>3. DOMAIN t.lease = {} /\ t.pc \notin Saving /\ t.pc \notin {"trigger", "expire", "insert", "claim", "scan", "commit"}
  BY <1>2, IdleTx, Phases
<1>4. Proper(t)
  BY <1>2, <1>3 DEF Proper
<1> QED BY <1>2, <1>3, <1>4

\* The frame of a commit.
LEMMA CommitFrame ==
    ASSUME MediaTyped, NEW p \in Process, Commit(p)
    PROVE  /\ tx[p].pc = "commit" /\ refs' = View(p)
           /\ plan' = plan /\ store' = store /\ upload' = upload /\ spoiled' = spoiled
           /\ lease' \in TxLeases /\ Rows' = Rows
           /\ \A k \in Rows : \/ k \in DOMAIN tx[p].lease /\ lease'[k] = tx[p].lease[k]
                              \/ k \notin DOMAIN tx[p].lease /\ lease'[k] = lease[k]
           /\ notes' \in [Notes -> {"new", "live", "gone"}]
           /\ \A n \in Notes \ tx[p].ns : notes'[n] = notes[n]
           /\ tx' \in [Process -> TxRows]
           /\ tx'[p] = NoTx \/ tx'[p] = Candidates(tx[p].cand)
           /\ \A q \in Process : q # p => tx'[q] = tx[q]
<1> DEFINE t == IF tx[p].cand = {} THEN NoTx ELSE [NoTx EXCEPT !.pc = "cleanup", !.cand = tx[p].cand]
           f == [k \in Rows |-> IF k \in DOMAIN tx[p].lease THEN tx[p].lease[k] ELSE lease[k]]
<1>1. /\ tx[p].pc = "commit" /\ refs' = View(p)
      /\ plan' = plan /\ store' = store /\ upload' = upload /\ spoiled' = spoiled
      /\ lease' = f /\ tx' = [tx EXCEPT ![p] = t]
  BY DEF Commit, At, Set
<1>2. t = NoTx \/ t = Candidates(tx[p].cand)
  BY DEF Candidates
<1> HIDE DEF t
<1>3. t \in TxRows
  BY <1>2, EndedTx
<1>4. tx \in [Process -> TxRows] /\ notes \in [Notes -> {"new", "live", "gone"}]
  BY DEF MediaTyped
<1>5. /\ tx' \in [Process -> TxRows] /\ tx'[p] = t
      /\ \A q \in Process : q # p => tx'[q] = tx[q]
  BY <1>1, <1>3, <1>4
<1>6. f \in [Rows -> Leases] /\ Rows \in SUBSET Key
  BY RowsTyped, TxFields, LeaseFields
<1>7. f \in TxLeases /\ DOMAIN f = Rows
  BY <1>6, LeasesMade
<1>8. \A k \in Rows : \/ k \in DOMAIN tx[p].lease /\ f[k] = tx[p].lease[k]
                      \/ k \notin DOMAIN tx[p].lease /\ f[k] = lease[k]
  OBVIOUS
<1> HIDE DEF f
<1>9. Rows' = Rows
  BY <1>1, <1>7 DEF Rows
<1>10. notes' = [n \in Notes |-> IF n \notin tx[p].ns THEN notes[n]
                                 ELSE IF Saves(p) THEN "live" ELSE "gone"]
  BY DEF Commit
<1>11. /\ notes' \in [Notes -> {"new", "live", "gone"}]
       /\ \A n \in Notes \ tx[p].ns : notes'[n] = notes[n]
  BY <1>4, <1>10
<1> QED BY <1>1, <1>2, <1>5, <1>7, <1>8, <1>9, <1>11

\* A commit publishes claims and leases at once.
LEMMA CommitStep ==
    ASSUME OInv, NEW p \in Process, Commit(p)
    PROVE  OInv' /\ (CInv => CInv')
<1> DEFINE t == tx[p]
<1>0. MediaTyped /\ UploadsOwned /\ Clean(t) /\ StoredIsOwned /\ RowsGoLast
  BY DEF OInv
<1>1. /\ t.pc = "commit" /\ refs' = View(p)
      /\ plan' = plan /\ store' = store /\ upload' = upload /\ spoiled' = spoiled
      /\ lease' \in TxLeases /\ Rows' = Rows
      /\ \A k \in Rows : \/ k \in DOMAIN t.lease /\ lease'[k] = t.lease[k]
                         \/ k \notin DOMAIN t.lease /\ lease'[k] = lease[k]
      /\ notes' \in [Notes -> {"new", "live", "gone"}]
      /\ \A n \in Notes \ t.ns : notes'[n] = notes[n]
      /\ tx' \in [Process -> TxRows]
      /\ tx'[p] = NoTx \/ tx'[p] = Candidates(t.cand)
      /\ \A q \in Process : q # p => tx'[q] = tx[q]
  BY <1>0, CommitFrame
<1>2. /\ tx'[p].pc \in {"idle", "cleanup"} /\ tx'[p].ns = {} /\ tx'[p].body = {}
      /\ tx'[p].own = {} /\ tx'[p].rel = {} /\ tx'[p].scan = {} /\ tx'[p].cand \subseteq t.cand
      /\ DOMAIN tx'[p].lease = {} /\ Proper(tx'[p])
  BY <1>0, <1>1, EndedTx
<1>3. \A r \in refs' : (r \in refs /\ r[1] \notin t.ns) \/ r \in t.own
  BY <1>1 DEF View
<1>4. OInv'
  <2>1. MediaTyped'
    <3>1. t.own \subseteq Notes \X Key
      BY <1>0, TxFields
    <3>2. refs' \subseteq Notes \X Key
      BY <1>0, <1>3, <3>1 DEF MediaTyped
    <3> QED BY <1>0, <1>1, <3>2 DEF MediaTyped
  <2>2. UploadsOwned'
    <3>1. \A r \in refs' : upload'[r[2]] = "done"
      BY <1>0, <1>1, <1>3 DEF UploadsOwned, Clean
    <3>2. \A k \in Rows : lease'[k] = "expired" => upload[k] \in Over
      BY <1>0, <1>1 DEF UploadsOwned, Clean, Touched
    <3> QED BY <1>0, <1>1, <3>1, <3>2 DEF UploadsOwned
  <2>3. RowsGoLast' /\ StoredIsOwned'
    BY <1>0, <1>1, <1>2 DEF RowsGoLast, At, StoredIsOwned
  <2>4. \A q \in Process : Clean(tx[q])'
    <3> SUFFICES ASSUME NEW q \in Process PROVE Clean(tx[q])'
      OBVIOUS
    <3>1. CASE q = p
      BY <3>1, <1>0, <1>1, <1>2 DEF Clean, Touched
    <3>2. CASE q # p
      <4>1. Clean(tx[q])
        BY DEF OInv
      <4> QED BY <4>1, <3>2, <1>1 DEF Clean, Touched
    <3> QED BY <3>1, <3>2
  <2> QED BY <2>1, <2>2, <2>3, <2>4 DEF OInv
<1>5. ASSUME CInv PROVE CInv'
  <2>0. Proper(t) /\ ClaimsKeep /\ Apart /\ WipedUnclaimed /\ RowsHaveObjects /\ SharingOrdered
    BY <1>5 DEF CInv
  <2>1. SharingOrdered'
    BY <1>1, <2>0 DEF SharingOrdered, Share, BodyKeys
  <2>2. Apart'
    <3>1. \A m, n : Share(m, n)' = Share(m, n)
      BY <1>1 DEF Share, BodyKeys
    <3> QED BY <1>1, <1>2, <2>0, <3>1 DEF Apart
  <2>3. ClaimsKeep'
    <3> SUFFICES ASSUME NEW r \in refs'
                 PROVE  r[2] \in BodyKeys(r[1]) /\ r[2] \in Rows /\ lease'[r[2]] = "none"
      BY <1>1 DEF ClaimsKeep, BodyKeys
    <3>1. CASE r \in t.own
      <4>1. r[2] \in BodyKeys(r[1]) /\ r[2] \in Rows
        BY <3>1, <2>0 DEF Proper
      <4>2. r[2] \in DOMAIN t.lease /\ t.lease[r[2]] = "none"
        BY <3>1, <2>0, <1>1 DEF Proper
      <4> QED BY <4>1, <4>2, <1>1
    <3>2. CASE r \in refs /\ r[1] \notin t.ns
      <4>1. r[2] \in BodyKeys(r[1]) /\ r[2] \in Rows /\ lease[r[2]] = "none"
        BY <3>2, <2>0 DEF ClaimsKeep
      <4>2. ClaimedElsewhere(t, r[2])
        BY <3>2 DEF ClaimedElsewhere
      <4>3. r[2] \in DOMAIN t.lease => t.lease[r[2]] = "none"
        BY <4>2, <2>0 DEF Proper
      <4> QED BY <4>1, <4>3, <1>1
    <3> QED BY <1>3, <3>1, <3>2
  <2>4. WipedUnclaimed'
    <3> SUFFICES ASSUME NEW q \in Process, tx'[q].pc \in {"deleteObjects", "deleteRows"},
                        NEW k \in tx'[q].scan
                 PROVE  ~Claimed(refs', k) /\ \A r \in Process : ~Claimed(tx'[r].own, k)
      BY DEF WipedUnclaimed, Wiping, Claimed
    <3>1. q # p
      BY <1>2
    <3>2. ~Claimed(refs, k) /\ \A r \in Process : ~Claimed(tx[r].own, k)
      BY <3>1, <1>1, <2>0 DEF WipedUnclaimed, Wiping
    <3>3. ~Claimed(refs', k)
      BY <3>2, <1>3 DEF Claimed
    <3>4. \A r \in Process : ~Claimed(tx'[r].own, k)
      BY <3>2, <1>1, <1>2 DEF Claimed
    <3> QED BY <3>3, <3>4
  <2>5. RowsHaveObjects'
    <3>1. \A q \in Process : At(q, "deleteRows") => tx'[q] = tx[q]
      BY <1>1 DEF At
    <3> QED BY <3>1, <1>1, <2>0 DEF RowsHaveObjects, At
  <2>6. \A q \in Process : Proper(tx[q])'
    <3> SUFFICES ASSUME NEW q \in Process PROVE Proper(tx[q])'
      OBVIOUS
    <3>1. CASE q = p
      <4>1. /\ tx'[p].pc \notin Saving /\ tx'[p].pc \notin {"trigger", "insert", "claim", "scan", "expire", "commit"}
        BY <1>2, Phases
      <4> QED BY <3>1, <4>1, <1>2 DEF Proper
    <3>2. CASE q # p
      <4>0. Proper(tx[q]) /\ tx'[q] = tx[q] /\ tx[q].ns \subseteq Notes
        BY <3>2, <1>0, <1>1, <1>5, TxFields DEF CInv
      <4>1. ASSUME NEW k \in tx[q].rel, ~ClaimedElsewhere(tx[q], k)
            PROVE  ~\E r \in refs' : r[1] \notin tx[q].ns /\ r[2] = k
        <5> SUFFICES ASSUME NEW r \in refs', r[1] \notin tx[q].ns, r[2] = k
                     PROVE  FALSE
          OBVIOUS
        <5>1. r \in t.own
          BY <4>1, <1>3 DEF ClaimedElsewhere
        <5>2. r[1] \in t.ns /\ k \in BodyKeys(r[1])
          BY <5>1, <2>0 DEF Proper
        <5>3. PICK n \in tx[q].ns : k \in BodyKeys(n)
          BY <4>0, <4>1 DEF Proper
        <5>4. Share(r[1], n)
          BY <5>2, <5>3 DEF Share
        <5> QED BY <3>2, <5>2, <5>4, <2>0 DEF Apart
      <4>2. \A n \in tx[q].ns : notes'[n] = notes[n]
        BY <3>2, <4>0, <1>1, <2>0 DEF Apart
      <4>3. \A k \in tx[q].rel : ~ClaimedElsewhere(tx[q], k) => ~ClaimedElsewhere(tx[q], k)'
        BY <4>0, <4>1 DEF ClaimedElsewhere
      <4>4. \A n : BodyKeys(n)' = BodyKeys(n)
        BY <1>1 DEF BodyKeys
      <4> HIDE DEF t
      <4> QED BY <4>0, <4>2, <4>3, <4>4, <1>1 DEF Proper
    <3> QED BY <3>1, <3>2
  <2> QED BY <1>4, <2>1, <2>2, <2>3, <2>4, <2>5, <2>6 DEF CInv
<1> QED BY <1>4, <1>5

-------------------------------------------------------------------------------
(***************************************************************************)
(* The store's answers, the deletion of rows, rollbacks.                   *)
(***************************************************************************)

\* The transactions after one of them took a new row.
LEMMA TxSet ==
    ASSUME MediaTyped, NEW p \in Process, NEW t \in TxRows, tx' = [tx EXCEPT ![p] = t]
    PROVE  /\ tx' \in [Process -> TxRows] /\ tx'[p] = t
           /\ \A q \in Process : q # p => tx'[q] = tx[q]
<1>1. tx \in [Process -> TxRows]
  BY DEF MediaTyped
<1> QED BY <1>1

\* Claims, notes and plan as they were; every claim still has its row, a claimed one no lease.
LEMMA TxClaims ==
    ASSUME CInv, OInv', refs' = refs, plan' = plan, notes' = notes,
           \A r \in refs : r[2] \in Rows' /\ lease'[r[2]] = "none",
           \A q \in Process : \/ tx'[q] = tx[q]
                              \/ /\ tx'[q].ns = {} /\ tx'[q].own = {} /\ tx'[q].pc \notin Saving
                                 /\ Proper(tx'[q])
                                 /\ tx'[q].pc \in {"deleteObjects", "deleteRows"} =>
                                        Wiping(q) /\ tx'[q].scan = tx[q].scan,
           \A q \in Process : \A r \in tx'[q].own : r[2] \in Rows',
           RowsHaveObjects'
    PROVE  CInv'
<1>0. ClaimsKeep /\ Apart /\ WipedUnclaimed /\ SharingOrdered
  BY DEF CInv
<1>1. SharingOrdered' /\ ClaimsKeep'
  BY <1>0 DEF SharingOrdered, Share, BodyKeys, ClaimsKeep
<1>2. Apart'
  <2>1. \A m, n : Share(m, n)' = Share(m, n)
    BY DEF Share, BodyKeys
  <2>2. \A q \in Process : tx'[q].ns \subseteq tx[q].ns
    OBVIOUS
  <2> QED BY <2>1, <2>2, <1>0 DEF Apart
<1>3. WipedUnclaimed'
  <2> SUFFICES ASSUME NEW q \in Process, tx'[q].pc \in {"deleteObjects", "deleteRows"},
                      NEW k \in tx'[q].scan
               PROVE  ~Claimed(refs, k) /\ \A r \in Process : ~Claimed(tx'[r].own, k)
    BY DEF WipedUnclaimed, Wiping, Claimed
  <2>1. Wiping(q) /\ k \in tx[q].scan
    BY DEF Wiping
  <2>2. ~Claimed(refs, k) /\ \A r \in Process : ~Claimed(tx[r].own, k)
    BY <2>1, <1>0 DEF WipedUnclaimed
  <2>3. \A r \in Process : tx'[r].own \subseteq tx[r].own
    OBVIOUS
  <2> QED BY <2>2, <2>3 DEF Claimed
<1>4. \A q \in Process : Proper(tx[q])'
  <2> SUFFICES ASSUME NEW q \in Process PROVE Proper(tx[q])'
    OBVIOUS
  <2>1. Proper(tx'[q])
    BY DEF CInv
  <2>2. \A u, k : (\E r \in refs' : r[1] \notin u.ns /\ r[2] = k) <=> ClaimedElsewhere(u, k)
    BY DEF ClaimedElsewhere
  <2>3. \A r \in tx'[q].own : r[2] \in Rows'
    OBVIOUS
  <2> QED BY <2>1, <2>2, <2>3 DEF Proper, ClaimedElsewhere, BodyKeys
<1> QED BY <1>1, <1>2, <1>3, <1>4 DEF CInv

\* The objects go; their rows are locked still.
LEMMA DeleteObjectsStep ==
    ASSUME OInv, NEW p \in Process, DeleteObjects(p)
    PROVE  OInv' /\ (CInv => CInv')
<1> DEFINE t == [tx[p] EXCEPT !.pc = "deleteRows"]
<1>0. /\ MediaTyped /\ UploadsOwned /\ RowsGoLast /\ StoredIsOwned /\ Clean(tx[p])
      /\ tx[p] \in TxRows /\ tx[p].pc = "deleteObjects"
      /\ store' = store \ tx[p].scan /\ plan' = plan /\ notes' = notes /\ lease' = lease
      /\ refs' = refs /\ upload' = upload /\ spoiled' = spoiled /\ Rows' = Rows
  BY TxFields DEF OInv, DeleteObjects, At, Rows
<1>1. /\ t \in TxRows /\ t.pc = "deleteRows" /\ t.op = tx[p].op /\ t.ns = tx[p].ns
      /\ t.body = tx[p].body /\ t.own = tx[p].own /\ t.rel = tx[p].rel /\ t.scan = tx[p].scan
      /\ t.cand = tx[p].cand /\ t.lease = tx[p].lease
  BY <1>0 DEF TxRows, Wipes
<1>2. tx' = [tx EXCEPT ![p] = t]
  BY DEF DeleteObjects, Set
<1> HIDE DEF t
<1>3. /\ tx' \in [Process -> TxRows] /\ tx'[p] = t
      /\ \A q \in Process : q # p => tx'[q] = tx[q]
  BY <1>0, <1>1, <1>2, TxSet
<1>4. OInv'
  <2>1. MediaTyped' /\ UploadsOwned' /\ StoredIsOwned'
    BY <1>0, <1>3 DEF MediaTyped, UploadsOwned, StoredIsOwned
  <2>2. RowsGoLast'
    BY <1>0, <1>1, <1>3 DEF RowsGoLast, At
  <2>3. \A q \in Process : Clean(tx[q])'
    BY <1>0, <1>1, <1>3 DEF OInv, Clean, Touched
  <2> QED BY <2>1, <2>2, <2>3 DEF OInv
<1>5. ASSUME CInv PROVE CInv'
  <2>0. Proper(tx[p]) /\ ClaimsKeep /\ RowsHaveObjects /\ Wiping(p)
    BY <1>0, <1>5 DEF CInv, Wiping
  <2>1. "deleteObjects" \notin Saving /\ "deleteRows" \notin Saving
    BY DEF Saving
  <2>2. tx[p].ns = {} /\ tx[p].own = {}
    BY <1>0, <2>0, <2>1 DEF Proper
  <2>3. \A k : ClaimedElsewhere(t, k) <=> ClaimedElsewhere(tx[p], k)
    BY <1>1 DEF ClaimedElsewhere
  <2>4. Proper(t)
    BY <1>0, <1>1, <2>0, <2>1, <2>2, <2>3 DEF Proper
  <2>5. RowsHaveObjects'
    BY <1>0, <1>1, <1>3, <2>0 DEF RowsHaveObjects, At
  <2>6. \A q \in Process : \A r \in tx'[q].own : r[2] \in Rows'
    BY <1>0, <1>1, <1>3, <1>5, <2>2 DEF CInv, Proper
  <2>7. \A r \in refs : r[2] \in Rows' /\ lease'[r[2]] = "none"
    BY <1>0, <2>0 DEF ClaimsKeep
  <2>8. \A q \in Process : \/ tx'[q] = tx[q]
                           \/ /\ tx'[q].ns = {} /\ tx'[q].own = {} /\ tx'[q].pc \notin Saving
                              /\ Proper(tx'[q])
                              /\ tx'[q].pc \in {"deleteObjects", "deleteRows"} =>
                                     Wiping(q) /\ tx'[q].scan = tx[q].scan
    BY <1>1, <1>3, <2>0, <2>1, <2>2, <2>4
  <2> QED BY <1>0, <1>4, <1>5, <2>5, <2>6, <2>7, <2>8, TxClaims
<1> QED BY <1>4, <1>5

\* A transaction ends with nothing in hand, having left the rows or some of those it deleted.
LEMMA EndStep ==
    ASSUME OInv, NEW p \in Process, tx' = [tx EXCEPT ![p] = NoTx],
           plan' = plan, notes' = notes, refs' = refs, upload' = upload,
           store' \subseteq store, spoiled \subseteq spoiled', spoiled' \subseteq Key,
           lease' \in TxLeases, Rows' \subseteq Rows, \A k \in Rows' : lease'[k] = lease[k],
           \A k \in Rows \ Rows' : At(p, "deleteRows") /\ k \in tx[p].scan /\ ~Claimed(refs, k),
           \A k \in store \ store' : k \in spoiled',
           At(p, "deleteRows") => \A k \in tx[p].scan : k \in spoiled' \/ k \notin Rows' \/ Claimed(refs, k)
    PROVE  OInv' /\ (CInv => CInv')
<1>0. /\ MediaTyped /\ UploadsOwned /\ RowsGoLast /\ StoredIsOwned /\ Clean(tx[p])
  BY DEF OInv
<1>1. /\ tx' \in [Process -> TxRows] /\ tx'[p] = NoTx
      /\ \A q \in Process : q # p => tx'[q] = tx[q]
  BY <1>0, IdleTx, TxSet
<1>2. OInv'
  <2>1. MediaTyped'
    BY <1>0, <1>1 DEF MediaTyped
  <2>2. \A k \in Rows \ Rows' : upload[k] \in Over /\ k \notin store
    BY <1>0 DEF Clean, Touched, RowsGoLast
  <2>3. UploadsOwned'
    BY <1>0, <2>2 DEF UploadsOwned, Over
  <2>4. StoredIsOwned'
    BY <1>0, <2>2 DEF StoredIsOwned
  <2>5. RowsGoLast'
    BY <1>0, <1>1, IdleTx DEF RowsGoLast, At
  <2>6. \A q \in Process : Clean(tx[q])'
    <3> SUFFICES ASSUME NEW q \in Process PROVE Clean(tx[q])'
      OBVIOUS
    <3>1. CASE q = p
      BY <3>1, <1>1, IdleTx DEF Clean, Touched
    <3>2. CASE q # p
      <4>1. Clean(tx[q])
        BY DEF OInv
      <4> QED BY <4>1, <3>2, <1>1 DEF Clean, Touched
    <3> QED BY <3>1, <3>2
  <2> QED BY <2>1, <2>3, <2>4, <2>5, <2>6 DEF OInv
<1>3. ASSUME CInv PROVE CInv'
  <2>0. ClaimsKeep /\ RowsHaveObjects /\ WipedUnclaimed
    BY <1>3 DEF CInv
  <2>1. \A r \in refs : r[2] \in Rows' /\ lease'[r[2]] = "none"
    BY <2>0 DEF ClaimsKeep, Claimed
  <2>2. At(p, "deleteRows") => Wiping(p)
    BY DEF At, Wiping
  <2>3. \A q \in Process : \A r \in tx'[q].own : r[2] \in Rows'
    <3> SUFFICES ASSUME NEW q \in Process, q # p, NEW r \in tx[q].own
                 PROVE  r[2] \in Rows'
      BY <1>1, IdleTx
    <3>1. r[2] \in Rows
      BY <1>3 DEF CInv, Proper
    <3>2. Wiping(p) => r[2] \notin tx[p].scan
      BY <2>0 DEF WipedUnclaimed, Claimed
    <3> QED BY <3>1, <3>2, <2>2
  <2>4. RowsHaveObjects'
    <3> SUFFICES ASSUME NEW k \in Rows', upload[k] = "done"
                 PROVE  \/ k \in store' \cup spoiled'
                        \/ \E q \in Process : tx'[q].pc = "deleteRows" /\ k \in tx'[q].scan
      BY DEF RowsHaveObjects, At
    <3>1. CASE k \in store \cup spoiled
      BY <3>1
    <3>2. ASSUME NEW q \in Process, At(q, "deleteRows"), k \in tx[q].scan
          PROVE  \/ k \in store' \cup spoiled'
                 \/ \E r \in Process : tx'[r].pc = "deleteRows" /\ k \in tx'[r].scan
      <4>1. CASE q = p
        <5>1. ~Claimed(refs, k)
          BY <3>2, <4>1, <2>0, <2>2 DEF WipedUnclaimed
        <5> QED BY <3>2, <4>1, <5>1
      <4>2. CASE q # p
        BY <3>2, <4>2, <1>1 DEF At
      <4> QED BY <4>1, <4>2
    <3> QED BY <3>1, <3>2, <2>0 DEF RowsHaveObjects
  <2>5. \A q \in Process : \/ tx'[q] = tx[q]
                           \/ /\ tx'[q].ns = {} /\ tx'[q].own = {} /\ tx'[q].pc \notin Saving
                              /\ Proper(tx'[q])
                              /\ tx'[q].pc \in {"deleteObjects", "deleteRows"} =>
                                     Wiping(q) /\ tx'[q].scan = tx[q].scan
    <3>1. NoTx.pc \notin Saving /\ NoTx.pc \notin {"deleteObjects", "deleteRows"}
      BY IdleTx, Phases
    <3> QED BY <3>1, <1>1, IdleTx, IdleIsClean
  <2> QED BY <1>2, <1>3, <2>1, <2>3, <2>4, <2>5, TxClaims
<1> QED BY <1>2, <1>3

\* The ways in which a transaction ends without a commit.
LEMMA EndSteps ==
    ASSUME OInv, NEW p \in Process, DeleteObjectsFails(p) \/ DeleteRows(p) \/ Rollback(p)
    PROVE  OInv' /\ (CInv => CInv')
<1>0. MediaTyped /\ tx[p].scan \subseteq Key /\ spoiled \subseteq Key /\ lease \in TxLeases
      /\ Rows \subseteq Key /\ lease \in [Rows -> Leases]
  BY TxFields, RowsTyped DEF OInv, MediaTyped
<1>1. CASE DeleteObjectsFails(p)
  <2>1. PICK lost \in SUBSET tx[p].scan : store' = store \ lost /\ spoiled' = spoiled \cup lost
    BY <1>1 DEF DeleteObjectsFails
  <2>2. /\ tx' = [tx EXCEPT ![p] = NoTx] /\ plan' = plan /\ notes' = notes /\ lease' = lease
        /\ refs' = refs /\ upload' = upload /\ Rows' = Rows /\ ~At(p, "deleteRows")
    BY <1>1 DEF DeleteObjectsFails, Set, At, Rows
  <2> QED BY <1>0, <2>1, <2>2, EndStep
<1>2. CASE Rollback(p)
  <2>1. /\ tx' = [tx EXCEPT ![p] = NoTx] /\ plan' = plan /\ notes' = notes /\ lease' = lease
        /\ refs' = refs /\ upload' = upload /\ store' = store /\ Rows' = Rows
        /\ spoiled' = spoiled \cup (IF At(p, "deleteRows") THEN tx[p].scan ELSE {})
    BY <1>2 DEF Rollback, Set, Rows
  <2> QED BY <1>0, <2>1, EndStep
<1>3. CASE DeleteRows(p)
  <2> DEFINE S == {k \in Rows : k \notin tx[p].scan \/ Claimed(refs, k)}
  <2>1. /\ tx' = [tx EXCEPT ![p] = NoTx] /\ plan' = plan /\ notes' = notes
        /\ refs' = refs /\ upload' = upload /\ store' = store /\ spoiled' = spoiled
        /\ At(p, "deleteRows") /\ lease' = [k \in S |-> lease[k]]
    BY <1>3 DEF DeleteRows, Set, Restrict
  <2>2. S \subseteq Rows /\ \A k \in Rows \ S : k \in tx[p].scan /\ ~Claimed(refs, k)
    OBVIOUS
  <2>3. \A k \in tx[p].scan : k \notin S \/ Claimed(refs, k)
    OBVIOUS
  <2> HIDE DEF S
  <2>4. lease' \in [S -> Leases]
    BY <1>0, <2>1, <2>2
  <2>5. lease' \in TxLeases /\ Rows' = S /\ \A k \in S : lease'[k] = lease[k]
    BY <1>0, <2>1, <2>2, <2>4, LeasesMade DEF Rows
  <2> QED BY <1>0, <2>1, <2>2, <2>3, <2>5, EndStep
<1> QED BY <1>1, <1>2, <1>3

-------------------------------------------------------------------------------
(***************************************************************************)
(* Uploads: a key in transit is in no transaction's hands.                 *)
(***************************************************************************)

\* An upload that is not over moves on: its own row, object and state may change, no others.
LEMMA UploadMoves ==
    ASSUME OInv, NEW k \in Key, upload[k] \notin Over, NEW to \in Uploads \ {"new"},
           upload' = [upload EXCEPT ![k] = to],
           plan' = plan, notes' = notes, refs' = refs, tx' = tx,
           lease' \in TxLeases, Rows' \ {k} = Rows \ {k},
           \A j \in Rows \ {k} : lease'[j] = lease[j],
           store' \subseteq Key, store' \ {k} = store \ {k},
           spoiled' \subseteq Key, spoiled \subseteq spoiled',
           to \in {"put", "forget"} => k \in Rows',
           k \in Rows' /\ lease'[k] = "expired" => to \in Over,
           k \in store' => /\ to \in Over \cup {"forget"} /\ k \in Rows' \cup spoiled'
                           /\ to = "forget" => k \in spoiled',
           to = "done" => k \in store'
    PROVE  OInv' /\ (CInv => CInv')
<1>0. /\ MediaTyped /\ UploadsOwned /\ RowsGoLast /\ StoredIsOwned
      /\ upload \in [Key -> Uploads] /\ Rows \subseteq Key
  BY RowsTyped DEF OInv, MediaTyped
<1>1. /\ upload' \in [Key -> Uploads] /\ upload'[k] = to
      /\ \A j \in Key : j # k => upload'[j] = upload[j]
  BY <1>0
<1>2. ASSUME NEW q \in Process
      PROVE  /\ \A j \in Touched(tx[q]) : j \in Key /\ upload[j] \in Over /\ j # k
             /\ \A j \in tx[q].body : j \in Key /\ upload[j] = "done" /\ j # k
             /\ \A r \in tx[q].own : r[2] \in Key /\ upload[r[2]] = "done" /\ r[2] # k
  <2>1. Clean(tx[q])
    BY DEF OInv
  <2>2. /\ tx[q].body \subseteq Key /\ tx[q].own \subseteq Notes \X Key /\ tx[q].rel \subseteq Key
        /\ tx[q].scan \subseteq Key /\ tx[q].cand \subseteq Key /\ DOMAIN tx[q].lease \subseteq Key
    BY <1>0, TxFields, LeaseFields
  <2>3. \A r \in tx[q].own : r[2] \in Key
    BY <2>2, ClaimFields
  <2> QED BY <2>1, <2>2, <2>3 DEF Clean, Touched, Over
<1>3. \A r \in refs : r[2] \in Key /\ upload[r[2]] = "done" /\ r[2] # k
  <2>1. \A r \in refs : r[2] \in Key
    BY <1>0, ClaimFields DEF MediaTyped
  <2> QED BY <2>1, <1>0 DEF UploadsOwned, Over
<1>4. OInv'
  <2>1. MediaTyped'
    BY <1>0, <1>1 DEF MediaTyped
  <2>2. UploadsOwned'
    <3>1. \A r \in refs' : upload'[r[2]] = "done"
      BY <1>1, <1>3
    <3>2. \A j \in Rows' : upload'[j] # "new" /\ (lease'[j] = "expired" => upload'[j] \in Over)
      BY <1>0, <1>1 DEF UploadsOwned
    <3>3. \A j \in Key : upload'[j] \in {"put", "forget"} => j \in Rows'
      BY <1>0, <1>1 DEF UploadsOwned
    <3>4. \A j \in store' : /\ upload'[j] \in Over \cup {"forget"}
                            /\ upload'[j] = "forget" => j \in spoiled'
      BY <1>0, <1>1 DEF UploadsOwned
    <3> QED BY <3>1, <3>2, <3>3, <3>4 DEF UploadsOwned
  <2>3. StoredIsOwned'
    BY <1>0 DEF StoredIsOwned
  <2>4. RowsGoLast'
    <3> SUFFICES ASSUME NEW q \in Process, At(q, "deleteRows")
                 PROVE  tx[q].scan \cap store' = {}
      BY DEF RowsGoLast, At
    <3>1. tx[q].scan \cap store = {} /\ k \notin tx[q].scan
      BY <1>0, <1>2 DEF RowsGoLast, Touched
    <3> QED BY <3>1
  <2>5. \A q \in Process : Clean(tx[q])'
    BY <1>1, <1>2 DEF Clean, Touched
  <2> QED BY <2>1, <2>2, <2>3, <2>4, <2>5 DEF OInv
<1>5. ASSUME CInv PROVE CInv'
  <2>0. ClaimsKeep /\ RowsHaveObjects /\ \A q \in Process : Proper(tx[q])
    BY <1>5 DEF CInv
  <2>1. \A r \in refs : r[2] \in Rows' /\ lease'[r[2]] = "none"
    BY <1>3, <2>0 DEF ClaimsKeep
  <2>2. \A q \in Process : \A r \in tx[q].own : r[2] \in Rows'
    BY <1>2, <2>0 DEF Proper
  <2>3. RowsHaveObjects'
    <3> SUFFICES ASSUME NEW j \in Rows', upload'[j] = "done"
                 PROVE  \/ j \in store' \cup spoiled'
                        \/ \E q \in Process : At(q, "deleteRows") /\ j \in tx[q].scan
      BY DEF RowsHaveObjects, At
    <3>1. CASE j = k
      BY <3>1, <1>1
    <3>2. CASE j # k
      BY <3>2, <1>0, <1>1, <2>0 DEF RowsHaveObjects
    <3> QED BY <3>1, <3>2
  <2> QED BY <1>4, <1>5, <2>1, <2>2, <2>3, TxClaims
<1> QED BY <1>4, <1>5

\* The steps of an upload.
LEMMA UploadSteps ==
    ASSUME OInv, NEW k \in Key,
           RegisterLease(k) \/ Upload(k) \/ UploadFails(k) \/ ForgetLease(k) \/ UploadCut(k)
    PROVE  OInv' /\ (CInv => CInv')
<1>0. /\ MediaTyped /\ UploadsOwned /\ StoredIsOwned /\ store \subseteq Key /\ spoiled \subseteq Key
      /\ Rows \subseteq Key /\ lease \in [Rows -> Leases] /\ lease \in TxLeases
  BY RowsTyped DEF OInv, MediaTyped
<1>1. upload[k] \in {"new", "put"} => k \notin store
  BY <1>0 DEF UploadsOwned, Over
<1>2. upload[k] \in {"put", "forget"} => k \in Rows /\ lease[k] # "expired"
  BY <1>0 DEF UploadsOwned, Over
<1>3. upload[k] = "forget" /\ k \in store => k \in spoiled
  BY <1>0 DEF UploadsOwned
<1>4. CASE RegisterLease(k)
  <2>1. /\ upload[k] = "new" /\ upload' = [upload EXCEPT ![k] = "put"] /\ plan' = plan
        /\ notes' = notes /\ refs' = refs /\ tx' = tx /\ store' = store /\ spoiled' = spoiled
        /\ lease' = [j \in Rows \cup {k} |-> IF j = k THEN "running" ELSE lease[j]]
    BY <1>4 DEF RegisterLease, UploadStep
  <2>2. lease' \in [Rows \cup {k} -> Leases]
    BY <1>0, <2>1 DEF Leases
  <2>3. lease' \in TxLeases /\ Rows' = Rows \cup {k} /\ lease'[k] = "running"
    BY <1>0, <2>1, <2>2, LeasesMade DEF Rows
  <2>4. \A j \in Rows \ {k} : lease'[j] = lease[j]
    BY <2>1
  <2>5. "put" \in Uploads \ {"new"} /\ "new" \notin Over
    BY DEF Uploads, Over
  <2> QED BY <1>0, <1>1, <2>1, <2>3, <2>4, <2>5, UploadMoves
<1>5. CASE Upload(k)
  <2>1. /\ upload[k] = "put" /\ upload' = [upload EXCEPT ![k] = "done"] /\ plan' = plan
        /\ notes' = notes /\ refs' = refs /\ tx' = tx /\ store' = store \cup {k}
        /\ spoiled' = spoiled /\ lease' = lease /\ Rows' = Rows
    BY <1>5 DEF Upload, UploadStep, Rows
  <2>2. "done" \in Uploads \ {"new"} /\ "done" \in Over /\ "put" \notin Over
    BY DEF Uploads, Over
  <2> QED BY <1>0, <1>2, <2>1, <2>2, UploadMoves
<1>6. CASE UploadFails(k)
  <2>1. /\ upload[k] = "put" /\ upload' = [upload EXCEPT ![k] = "forget"] /\ plan' = plan
        /\ notes' = notes /\ refs' = refs /\ tx' = tx /\ lease' = lease /\ Rows' = Rows
        /\ \/ store' = store /\ spoiled' = spoiled
           \/ store' = store \cup {k} /\ spoiled' = spoiled \cup {k}
    BY <1>6 DEF UploadFails, UploadStep, Rows
  <2>2. "forget" \in Uploads \ {"new"} /\ "put" \notin Over
    BY DEF Uploads, Over
  <2> QED BY <1>0, <1>1, <1>2, <2>1, <2>2, UploadMoves
<1>7. CASE ForgetLease(k)
  <2>1. /\ upload[k] = "forget" /\ upload' = [upload EXCEPT ![k] = "failed"] /\ plan' = plan
        /\ notes' = notes /\ refs' = refs /\ tx' = tx /\ store' = store /\ spoiled' = spoiled
        /\ lease' = [j \in Rows \ {k} |-> lease[j]]
    BY <1>7 DEF ForgetLease, UploadStep, Restrict
  <2>2. lease' \in [Rows \ {k} -> Leases]
    BY <1>0, <2>1
  <2>3. lease' \in TxLeases /\ Rows' = Rows \ {k}
    BY <1>0, <2>1, <2>2, LeasesMade DEF Rows
  <2>4. \A j \in Rows \ {k} : lease'[j] = lease[j]
    BY <2>1
  <2>5. "failed" \in Uploads \ {"new"} /\ "failed" \in Over /\ "forget" \notin Over
    BY DEF Uploads, Over
  <2> QED BY <1>0, <1>3, <2>1, <2>3, <2>4, <2>5, UploadMoves
<1>8. CASE UploadCut(k)
  <2>1. /\ upload[k] \in {"put", "forget"} /\ upload' = [upload EXCEPT ![k] = "failed"]
        /\ plan' = plan /\ notes' = notes /\ refs' = refs /\ tx' = tx /\ store' = store
        /\ spoiled' = spoiled /\ lease' = lease /\ Rows' = Rows
    BY <1>8 DEF UploadCut, UploadStep, Rows
  <2>2. "failed" \in Uploads \ {"new"} /\ "failed" \in Over /\ {"put", "forget"} \cap Over = {}
    BY DEF Uploads, Over
  <2> QED BY <1>0, <1>2, <2>1, <2>2, UploadMoves
<1> QED BY <1>4, <1>5, <1>6, <1>7, <1>8

\* A lease runs out: what has one is claimed by nobody.
LEMMA LeaseExpiresStep ==
    ASSUME OInv, NEW k \in Key, LeaseExpires(k)
    PROVE  OInv' /\ (CInv => CInv')
<1>0. /\ MediaTyped /\ UploadsOwned /\ RowsGoLast /\ StoredIsOwned
      /\ Rows \subseteq Key /\ lease \in [Rows -> Leases] /\ lease \in TxLeases
      /\ upload \in [Key -> Uploads] /\ upload[k] \in Uploads
  BY RowsTyped DEF OInv, MediaTyped
<1>1. /\ k \in Rows /\ lease[k] = "running" /\ upload[k] \notin {"put", "forget"}
      /\ lease' = [lease EXCEPT ![k] = "expired"]
      /\ plan' = plan /\ notes' = notes /\ refs' = refs /\ store' = store /\ upload' = upload
      /\ tx' = tx /\ spoiled' = spoiled
  BY DEF LeaseExpires
<1>2. /\ Rows' = Rows /\ lease'[k] = "expired" /\ lease' \in [Rows -> Leases]
      /\ \A j \in Rows : j # k => lease'[j] = lease[j]
  BY <1>0, <1>1 DEF Rows, Leases
<1>3. lease' \in TxLeases
  BY <1>0, <1>2, LeasesMade
<1>4. upload[k] \in Over
  BY <1>0, <1>1 DEF UploadsOwned, Uploads
<1>5. OInv'
  <2>1. MediaTyped' /\ StoredIsOwned' /\ RowsGoLast'
    BY <1>0, <1>1, <1>2, <1>3 DEF MediaTyped, StoredIsOwned, RowsGoLast, At
  <2>2. UploadsOwned'
    BY <1>0, <1>1, <1>2, <1>4 DEF UploadsOwned
  <2>3. \A q \in Process : Clean(tx[q])'
    BY <1>1 DEF OInv, Clean, Touched
  <2> QED BY <2>1, <2>2, <2>3 DEF OInv
<1>6. ASSUME CInv PROVE CInv'
  <2>1. \A r \in refs : r[2] \in Rows' /\ lease'[r[2]] = "none"
    BY <1>1, <1>2, <1>6 DEF CInv, ClaimsKeep
  <2>2. \A q \in Process : \A r \in tx[q].own : r[2] \in Rows'
    BY <1>2, <1>6 DEF CInv, Proper
  <2>3. RowsHaveObjects'
    BY <1>1, <1>2, <1>6 DEF CInv, RowsHaveObjects, At
  <2> QED BY <1>1, <1>5, <1>6, <2>1, <2>2, <2>3, TxClaims
<1> QED BY <1>5, <1>6

-------------------------------------------------------------------------------
(***************************************************************************)
(* The theorems.                                                           *)
(***************************************************************************)

\* At first nothing is uploaded, claimed or in hand.
LEMMA MediaStart == MediaInit => OInv /\ (SharingOrdered => CInv)
<1> SUFFICES ASSUME MediaInit
             PROVE  OInv /\ (SharingOrdered => CInv)
  OBVIOUS
<1>0. /\ plan \in MediaScenarios /\ refs = {} /\ store = {} /\ spoiled = {} /\ lease = NoKeys
      /\ notes = [n \in Notes |-> IF n \in plan.live THEN "live" ELSE "new"]
      /\ upload = [k \in Key |-> "new"] /\ tx = [p \in Process |-> NoTx]
  BY DEF MediaInit
<1>1. Rows = {} /\ \A p \in Process : tx[p] = NoTx
  BY <1>0, IdleTx DEF Rows
<1>2. \A p \in Process : ~At(p, "deleteRows") /\ ~Wiping(p)
  BY <1>1, IdleTx DEF At, Wiping
<1>3. OInv
  <2>1. upload \in [Key -> Uploads]
    BY <1>0 DEF Uploads
  <2>2. notes \in [Notes -> {"new", "live", "gone"}]
    BY <1>0
  <2>3. MediaTyped
    BY <1>0, <1>1, <2>1, <2>2, IdleTx DEF MediaTyped
  <2>4. UploadsOwned
    BY <1>0, <1>1 DEF UploadsOwned
  <2>5. RowsGoLast /\ StoredIsOwned
    BY <1>0, <1>2 DEF RowsGoLast, StoredIsOwned
  <2>6. \A p \in Process : Clean(tx[p])
    BY <1>1, IdleIsClean
  <2> QED BY <2>3, <2>4, <2>5, <2>6 DEF OInv
<1>4. ASSUME SharingOrdered PROVE CInv
  <2>1. Apart
    BY <1>1, IdleTx DEF Apart
  <2>2. ClaimsKeep /\ WipedUnclaimed /\ RowsHaveObjects
    BY <1>0, <1>1, <1>2 DEF ClaimsKeep, WipedUnclaimed, RowsHaveObjects
  <2>3. \A p \in Process : Proper(tx[p])
    BY <1>1, IdleIsClean
  <2> QED BY <1>3, <1>4, <2>1, <2>2, <2>3 DEF CInv
<1> QED BY <1>3, <1>4

\* Nothing changes.
LEMMA MediaStutter ==
    ASSUME OInv, UNCHANGED mediaVars
    PROVE  OInv' /\ (CInv => CInv')
<1>0. /\ plan' = plan /\ notes' = notes /\ lease' = lease /\ refs' = refs /\ store' = store
      /\ upload' = upload /\ spoiled' = spoiled /\ tx' = tx /\ Rows' = Rows
  BY DEF mediaVars, Rows
<1>1. OInv'
  <2>1. MediaTyped' /\ UploadsOwned' /\ RowsGoLast' /\ StoredIsOwned'
    BY <1>0 DEF OInv, MediaTyped, UploadsOwned, RowsGoLast, StoredIsOwned, At
  <2>2. \A p \in Process : Clean(tx[p])'
    BY <1>0 DEF OInv, Clean, Touched
  <2> QED BY <2>1, <2>2 DEF OInv
<1>2. ASSUME CInv PROVE CInv'
  <2>1. \A r \in refs : r[2] \in Rows' /\ lease'[r[2]] = "none"
    BY <1>0, <1>2 DEF CInv, ClaimsKeep
  <2>2. \A p \in Process : \A r \in tx'[p].own : r[2] \in Rows'
    BY <1>0, <1>2 DEF CInv, Proper
  <2>3. RowsHaveObjects'
    BY <1>0, <1>2 DEF CInv, RowsHaveObjects, At
  <2> QED BY <1>0, <1>1, <1>2, <2>1, <2>2, <2>3, TxClaims
<1> QED BY <1>1, <1>2

\* Every step keeps both invariants.
LEMMA MediaStep ==
    ASSUME OInv, [MediaNext]_mediaVars
    PROVE  OInv' /\ (CInv => CInv')
<1>1. ASSUME NEW k \in Key, UploadNext(k)
      PROVE  OInv' /\ (CInv => CInv')
  BY <1>1, UploadSteps, LeaseExpiresStep DEF UploadNext
<1>2. ASSUME NEW p \in Sessions, SaveOrDelete(p)
      PROVE  OInv' /\ (CInv => CInv')
  BY <1>2, SaveOrDeleteStep
<1>3. ASSUME NEW p \in Process, Statement(p)
      PROVE  OInv' /\ (CInv => CInv')
  <2>1. CASE \/ release_deleted_note_media_refs(p) \/ InsertRefs(p) \/ ClaimRefs(p)
             \/ expireScan(p) \/ expireReleased(p)
    BY <2>1, TriggerStep, InsertRefsStep, ClaimRefsStep, ExpireScanStep, ExpireReleasedStep
  <2>2. CASE Commit(p) \/ DeleteOwnedUnreferenced(p) \/ LockRows(p) \/ DeleteRows(p)
    BY <2>2, CommitStep, ScanStep, LockRowsStep, EndSteps
  <2> QED BY <1>3, <2>1, <2>2 DEF Statement
<1>4. ASSUME NEW p \in Process,
             SystemSweepExpired(p) \/ DeleteObjects(p) \/ DeleteObjectsFails(p) \/ Rollback(p)
      PROVE  OInv' /\ (CInv => CInv')
  BY <1>4, ScanStep, DeleteObjectsStep, EndSteps
<1>5. CASE UNCHANGED mediaVars
  BY <1>5, MediaStutter
<1> QED BY <1>1, <1>2, <1>3, <1>4, <1>5 DEF MediaNext

\* Every object of the store has an owner's row, unless a put that failed kept it: whatever
\* uploads, saves, cleanups, sweeps, failures and rollbacks interleave, in every scenario.
THEOREM ObjectsAreOwned == MediaSpec => []StoredIsOwned
<1>1. MediaInit => OInv
  BY MediaStart
<1>2. OInv /\ [MediaNext]_mediaVars => OInv'
  BY MediaStep
<1>3. OInv => StoredIsOwned
  BY DEF OInv
<1> QED BY <1>1, <1>2, <1>3, PTL DEF MediaSpec

\* A claim's object is there: its row has no lease and a successful upload, and nobody is about
\* to delete it.
LEMMA ClaimsHaveObjects == CInv => ClaimedObjectExists
<1> SUFFICES ASSUME CInv, NEW r \in refs
             PROVE  r[2] \in store \cup spoiled
  BY DEF ClaimedObjectExists
<1>1. r[2] \in Rows /\ upload[r[2]] = "done"
  BY DEF CInv, OInv, ClaimsKeep, UploadsOwned
<1>2. ASSUME NEW p \in Process, At(p, "deleteRows"), r[2] \in tx[p].scan
      PROVE  FALSE
  BY <1>2 DEF CInv, WipedUnclaimed, Wiping, At, Claimed
<1> QED BY <1>1, <1>2 DEF CInv, RowsHaveObjects

\* Where the notes that may share an image are changed one after the other, no save ends with a
\* claim to an object that a cleanup or the sweeper deletes (notemedia/repository.go:206), and no
\* object is without its row.
THEOREM MediaIsSound == MediaSpec /\ SharingOrdered => []MediaSound
<1>1. MediaInit /\ SharingOrdered => CInv
  BY MediaStart
<1>2. CInv /\ [MediaNext]_mediaVars => CInv'
  BY MediaStep DEF CInv
<1>3. CInv => MediaSound
  BY ClaimsHaveObjects DEF CInv, OInv, MediaSound
<1> QED BY <1>1, <1>2, <1>3, PTL DEF MediaSpec

(***************************************************************************)
(* Proofs about PreviewWorker, for any number of links, workers and        *)
(* operations of the user, and any number of faults.                       *)
(*                                                                         *)
(* What a job or the sweep read of a row is the row of today or an older   *)
(* version of it (WorkKnown), so a write that is conditional on that       *)
(* version answers the latest request.  The schedule and the jobs tell the *)
(* same story (SlotsMatch), so a link that is scheduled has one job, and   *)
(* a link that is not has a sweep to come (AllCovered).  A key on a row, a *)
(* key a job is about to publish and a key to be deleted are three         *)
(* different keys (ImagesOwned), so what is deleted is not shown.          *)
(***************************************************************************)

\* The types of the rows, the queue, the workers, the sweep and the handlers.
LinkRows == [status : Statuses, url : Nat, img : Nat, gen : Nat, upd : Nat, asked : Nat, ans : Nat]
Requests == [id : Ids, claimed : BOOLEAN, work : LinkRows \cup {<<>>}]
Slots == [running : BOOLEAN, rerun : BOOLEAN, recovery : BOOLEAN, in : BOOLEAN]
Stages == {"idle", "start", "load", "keep", "fetch", "look", "capture", "publish", "release", "finish"}
Jobs == [pc : Stages, id : Nat, claimed : BOOLEAN, work : LinkRows \cup {<<>>}, key : Nat]
Counters == {"refreshes", "edits", "images", "losses", "faults"}

\* Stages of a job that has its row, and of one that found the row without an image.
Loaded == {"keep", "fetch", "look", "capture", "publish", "release"}
Bare == {"fetch", "look", "capture", "publish", "release"}

LinksTyped == pv \in PreviewScenarios /\ rows \in [Ids -> LinkRows]
QueueTyped ==
    /\ jobs \in Seq(Requests) /\ scheduled \in [Ids -> Slots]
    /\ recovery \in [needed : BOOLEAN, wake : BOOLEAN]
WorkersTyped == worker \in [Pool -> Jobs] /\ \A w \in Pool : worker[w].pc # "idle" => worker[w].id \in Ids
SweepTyped ==
    sweep \in [pc : {"idle", "query", "refill"}, limit : Nat, todo : SUBSET Requests, full : BOOLEAN]
HandlersTyped ==
    /\ waiting \in [Ids -> Nat]
    /\ manual \in [id : Nat, upd : Nat, img : Nat] /\ (manual # NoCapture => manual.id \in Ids)
    /\ left \in [Counters -> Nat]
    /\ keys \in Nat \ {0} /\ trash \subseteq 2..keys /\ objects \subseteq 2..keys
PreviewTyped == LinksTyped /\ QueueTyped /\ WorkersTyped /\ SweepTyped /\ HandlersTyped

\* work is a version of the row: the present one if its updated_at is, and never a later one.
Snap(id, work) ==
    /\ work \in LinkRows /\ work.upd <= rows[id].upd /\ work.gen <= rows[id].gen
    /\ work.upd = rows[id].upd =>
          work.status = rows[id].status /\ work.img = rows[id].img /\ work.gen = rows[id].gen /\ work.asked = rows[id].asked

\* What the queue, the sweep and the workers know of the rows is no news to the rows.
WorkKnown ==
    /\ \A i \in DOMAIN jobs : jobs[i].claimed => Snap(jobs[i].id, jobs[i].work)
    /\ \A t \in sweep.todo : t.claimed /\ Snap(t.id, t.work)
    /\ \A w \in Pool : (worker[w].pc \in {"start", "load"} /\ worker[w].claimed) \/ worker[w].pc \in Loaded
                           => Snap(worker[w].id, worker[w].work)
    /\ \A w \in Pool : worker[w].pc \in Bare => worker[w].work.img = NoImage
    /\ \A w \in Pool : worker[w].pc = "look" /\ Row(w).gen = worker[w].work.gen /\ Row(w).status = "pending"
                           => Row(w).img = NoImage

\* The schedule names the jobs in the channel and at the workers, each link once.
Busy(w) == worker[w].pc # "idle"
SlotsMatch ==
    /\ \A i \in DOMAIN jobs : LET s == scheduled[jobs[i].id] IN s.in /\ ~s.running /\ s.recovery = jobs[i].claimed
    /\ \A w \in Pool : Busy(w) => LET s == scheduled[worker[w].id]
                                  IN s.in /\ s.recovery = worker[w].claimed /\ (s.running <=> worker[w].pc # "start")
    /\ \A i, j \in DOMAIN jobs : jobs[i].id = jobs[j].id => i = j
    /\ \A i \in DOMAIN jobs : \A w \in Pool : Busy(w) => jobs[i].id # worker[w].id
    /\ \A w, v \in Pool : Busy(w) /\ Busy(v) /\ worker[w].id = worker[v].id => w = v
    /\ \A id \in Ids : scheduled[id].in =>
          (\E i \in DOMAIN jobs : jobs[i].id = id) \/ (\E w \in Pool : Busy(w) /\ worker[w].id = id)

\* A key is on one row, or about to be published by one job, or to be deleted.
Publishing(w) == worker[w].pc = "publish"
ImagesOwned ==
    /\ \A id \in Ids : rows[id].img \in (0..keys) \ trash
    /\ \A i, j \in Ids : i # j /\ rows[i].img = rows[j].img => rows[i].img \in {NoImage, Remote}
    /\ manual # NoCapture => /\ manual.upd <= rows[manual.id].upd
                             /\ manual.upd = rows[manual.id].upd => manual.img = rows[manual.id].img
    /\ \A w \in Pool : Publishing(w) => /\ worker[w].key \in (2..keys) \ trash
                                        /\ \A id \in Ids : rows[id].img # worker[w].key
    /\ \A w, v \in Pool : Publishing(w) /\ Publishing(v) /\ worker[w].key = worker[v].key => w = v
\* Before a loss, what a row shows and what a job is about to publish is in the store.
ObjectsKept ==
    /\ left.losses <= pv.losses
    /\ left.losses = pv.losses => /\ \A id \in Ids : rows[id].img \in {NoImage, Remote} \cup objects
                                  /\ \A w \in Pool : Publishing(w) => worker[w].key \in objects

\* A pending row whose request was taken and that no error or edit left to the ticker.
Good(id) == rows[id].status = "pending" /\ waiting[id] = 0 /\ id \notin stalled \cup dropped
TodoFresh(id) == \A t \in sweep.todo : t.id = id => Fresh(id, t)
Covered(id) == Good(id) => IF scheduled[id].in THEN Scheduled(id) ELSE TodoFresh(id) /\ Recovering(id)
AllCovered == \A id \in Ids : Covered(id)

PvInv == PreviewTyped /\ WorkKnown /\ SlotsMatch /\ ImagesOwned /\ ObjectsKept /\ AnswersCurrent /\ AllCovered

-----------------------------------------------------------------------------

\* Links are numbered from one; there is a worker.
LEMMA ScenarioFacts ==
    ASSUME LinksTyped
    PROVE  /\ pv.workers \in Nat /\ pv.workers >= 1 /\ IsFiniteSet(Ids) /\ Ids \subseteq Nat /\ 0 \notin Ids
           /\ pv.losses \in Nat
<1>1. pv.status \in Seq(Statuses) /\ pv.workers \in Nat \ {0} /\ pv.losses \in Nat
  BY PreviewAssumption DEF LinksTyped
<1>2. Ids = 1..Len(pv.status) /\ Len(pv.status) \in Nat  BY <1>1 DEF Ids
<1>3. IsFiniteSet(1..Len(pv.status))  BY <1>2, FS_Interval
<1>4. QED  BY <1>1, <1>2, <1>3

\* The scenario stays.
LEMMA SameScenario == ASSUME pv' = pv  PROVE Ids' = Ids /\ Pool' = Pool /\ Requests' = Requests
BY DEF Ids, Pool, Requests

\* One row is written.
LEMMA RowWritten ==
    ASSUME LinksTyped, NEW id \in Ids, NEW r \in LinkRows, rows' = [rows EXCEPT ![id] = r], pv' = pv
    PROVE  LinksTyped' /\ rows'[id] = r /\ \A j \in Ids : j # id => rows'[j] = rows[j]
BY SameScenario DEF LinksTyped

\* What may happen to the version of a row.
RowMoves(id) ==
    \/ rows'[id] = rows[id]
    \/ /\ rows'[id].upd > rows[id].upd
       /\ \/ rows'[id].gen > rows[id].gen
          \/ /\ rows'[id].gen = rows[id].gen
             /\ \/ rows'[id].status # "pending" \/ rows'[id].img = NoImage
                \/ rows[id].status = "pending" /\ rows'[id].img = rows[id].img
Moves == \A id \in Ids : RowMoves(id)

\* A version known stays one that is known.
LEMMA SnapMoves ==
    ASSUME LinksTyped, LinksTyped', pv' = pv, NEW id \in Ids, RowMoves(id), NEW work, Snap(id, work)
    PROVE  Snap(id, work)'
<1>1. rows[id] \in LinkRows /\ rows'[id] \in LinkRows  BY SameScenario DEF LinksTyped
<1>2. QED  BY <1>1 DEF Snap, RowMoves, LinkRows

\* What the workers know of their rows.
WorkerKnows(w) ==
    /\ (worker[w].pc \in {"start", "load"} /\ worker[w].claimed) \/ worker[w].pc \in Loaded
           => Snap(worker[w].id, worker[w].work)
    /\ worker[w].pc \in Bare => worker[w].work.img = NoImage
    /\ worker[w].pc = "look" /\ Row(w).gen = worker[w].work.gen /\ Row(w).status = "pending" => Row(w).img = NoImage

\* A worker that does not move knows its row as well as before.
LEMMA KnowledgeStays ==
    ASSUME LinksTyped, LinksTyped', WorkersTyped, pv' = pv, Moves, NEW w \in Pool, WorkerKnows(w), worker'[w] = worker[w]
    PROVE  WorkerKnows(w)'
<1> DEFINE id == worker[w].id
<1>1. worker[w].pc = "idle" \/ id \in Ids  BY DEF WorkersTyped
<1>2. CASE worker[w].pc = "idle"  BY <1>2 DEF WorkerKnows, Loaded, Bare
<1>3. CASE id \in Ids
  <2>1. rows[id] \in LinkRows /\ rows'[id] \in LinkRows /\ RowMoves(id)  BY <1>3, SameScenario DEF LinksTyped, Moves
  <2>2. \A work : Snap(id, work) => Snap(id, work)'  BY <1>3, <2>1, SnapMoves
  <2>3. (worker[w].pc \in {"start", "load"} /\ worker[w].claimed) \/ worker[w].pc \in Loaded
           => Snap(id, worker[w].work)'
    BY <2>2 DEF WorkerKnows
  <2>4. worker[w].pc = "look" /\ rows'[id].gen = worker[w].work.gen /\ rows'[id].status = "pending" => rows'[id].img = NoImage
    <3>1. SUFFICES ASSUME worker[w].pc = "look", rows'[id].gen = worker[w].work.gen, rows'[id].status = "pending"
                   PROVE  rows'[id].img = NoImage
      OBVIOUS
    <3>2. worker[w].work.gen <= rows[id].gen /\ worker[w].work \in LinkRows  BY <3>1 DEF WorkerKnows, Loaded, Snap
    <3>3. rows[id].gen = worker[w].work.gen /\ rows[id].status = "pending" => rows[id].img = NoImage
      BY <3>1 DEF WorkerKnows, Row
    <3>4. QED  BY <2>1, <3>1, <3>2, <3>3 DEF RowMoves, LinkRows
  <2>5. QED  BY <2>3, <2>4 DEF WorkerKnows, Row, Snap
<1>4. QED  BY <1>1, <1>2, <1>3

\* What the queue, the sweep and the workers know after a step.
LEMMA NextWork ==
    ASSUME PreviewTyped, PreviewTyped', WorkKnown, pv' = pv, Moves,
           \A i \in DOMAIN jobs' : jobs'[i].claimed =>
              (\E j \in DOMAIN jobs : jobs[j] = jobs'[i]) \/ jobs'[i] \in sweep.todo,
           \A t \in sweep'.todo : t \in sweep.todo \/ (t.claimed /\ Snap(t.id, t.work)'),
           \A w \in Pool : worker'[w] = worker[w] \/ WorkerKnows(w)'
    PROVE  WorkKnown'
<1>1. \A id \in Ids : \A work : Snap(id, work) => Snap(id, work)'
  BY SnapMoves DEF PreviewTyped, Moves
<1>2. Ids' = Ids /\ Pool' = Pool /\ Requests' = Requests  BY SameScenario
<1>3. \A t \in sweep'.todo : t.claimed /\ Snap(t.id, t.work)'
  <2>1. \A t \in sweep.todo : t.id \in Ids  BY DEF PreviewTyped, SweepTyped, Requests
  <2>2. QED  BY <1>1, <2>1 DEF WorkKnown
<1>4. ASSUME NEW i \in DOMAIN jobs', NEW job, job = jobs'[i], job.claimed  PROVE Snap(job.id, job.work)'
  <2>1. job \in Requests  BY <1>2, <1>4, ElementOfSeq DEF PreviewTyped, QueueTyped
  <2>2. Snap(job.id, job.work)  BY <1>4 DEF WorkKnown
  <2>3. QED  BY <1>1, <2>1, <2>2 DEF Requests
<1>5. ASSUME NEW w \in Pool  PROVE WorkerKnows(w)'
  <2>1. WorkerKnows(w)  BY DEF WorkKnown, WorkerKnows
  <2>2. worker'[w] = worker[w] => WorkerKnows(w)'  BY <2>1, KnowledgeStays DEF PreviewTyped
  <2>3. QED  BY <2>2
<1>6. QED  BY <1>2, <1>3, <1>4, <1>5 DEF WorkKnown, WorkerKnows

-----------------------------------------------------------------------------

\* A sequence with one more element, and without its first.
LEMMA AppendOf ==
    ASSUME NEW S, NEW s \in Seq(S), NEW e \in S, NEW t, t = Append(s, e)
    PROVE  /\ t \in Seq(S) /\ t # <<>> /\ Len(s) + 1 \in DOMAIN t /\ t[Len(s) + 1] = e /\ Len(s) + 1 \notin DOMAIN s
           /\ \A i \in DOMAIN s : i \in DOMAIN t /\ t[i] = s[i]
           /\ \A i \in DOMAIN t : i \in DOMAIN s \/ i = Len(s) + 1
BY AppendProperties

FirstAndRest(S, s, h, t) ==
    /\ t \in Seq(S) /\ 1 \in DOMAIN s /\ h = s[1] /\ h \in S
    /\ \A i \in DOMAIN t : i \in Nat /\ i + 1 # 1 /\ i + 1 \in DOMAIN s /\ t[i] = s[i + 1]
    /\ \A i \in DOMAIN s : i # 1 => \E j \in DOMAIN t : j + 1 = i
LEMMA TailOf ==
    ASSUME NEW S, NEW s \in Seq(S), s # <<>>
    PROVE  FirstAndRest(S, s, Head(s), Tail(s))
<1>0. PICK t : t = Tail(s)  OBVIOUS
<1>1. s \in Seq(S) /\ Len(s) \in Nat /\ Len(s) # 0 /\ DOMAIN s = 1..Len(s)  BY EmptySeq, LenProperties
<1>2. t \in Seq(S) /\ Len(t) = Len(s) - 1 /\ DOMAIN t = 1..Len(t)
  <2>1. t \in Seq(S) /\ Len(t) = Len(s) - 1  BY <1>0, <1>1, HeadTailProperties
  <2>2. QED  BY <2>1, LenProperties
<1>3. \A i \in 1..(Len(s) - 1) : t[i] = s[i + 1]  BY <1>0, <1>1, HeadTailProperties
<1>4. Head(s) = s[1] /\ Head(s) \in S  BY <1>1, HeadTailProperties
<1>5. \A i \in DOMAIN t : i \in Nat /\ i + 1 # 1 /\ i + 1 \in DOMAIN s /\ t[i] = s[i + 1]  BY <1>1, <1>2, <1>3
<1>6. ASSUME NEW i \in DOMAIN s, i # 1  PROVE i - 1 \in DOMAIN t /\ (i - 1) + 1 = i
  BY <1>1, <1>2, <1>6
<1>7. 1 \in DOMAIN s  BY <1>1
<1>8. FirstAndRest(S, s, Head(s), t)  BY <1>2, <1>4, <1>5, <1>6, <1>7 DEF FirstAndRest
<1>9. QED  BY <1>0, <1>8

\* What waits in the channel are requests.
LEMMA JobsTyped ==
    ASSUME QueueTyped
    PROVE  \A i \in DOMAIN jobs : jobs[i] \in Requests /\ jobs[i].id \in Ids /\ jobs[i].claimed \in BOOLEAN
<1> TAKE i \in DOMAIN jobs
<1>1. jobs[i] \in Requests  BY ElementOfSeq DEF QueueTyped
<1>2. QED  BY <1>1 DEF Requests

\* A full channel is not empty.
LEMMA FullChannel == ASSUME LinksTyped, QueueTyped, ~Room  PROVE jobs # <<>>
BY ScenarioFacts, EmptySeq DEF Room, QueueTyped

\* The schedule, when a worker goes on with its job.
LEMMA WorkerAdvances ==
    ASSUME PreviewTyped, SlotsMatch, pv' = pv, UNCHANGED <<jobs, scheduled>>, NEW w \in Pool,
           \A v \in Pool : v # w => worker'[v] = worker[v],
           worker[w].pc \notin {"idle", "start"}, worker'[w].pc \notin {"idle", "start"},
           worker'[w].id = worker[w].id, worker'[w].claimed = worker[w].claimed
    PROVE  SlotsMatch'
<1>1. Ids' = Ids /\ Pool' = Pool  BY SameScenario
<1>2. \A v \in Pool : /\ Busy(v)' <=> Busy(v)
                      /\ worker'[v].id = worker[v].id /\ worker'[v].claimed = worker[v].claimed
                      /\ worker'[v].pc = "start" <=> worker[v].pc = "start"
  BY DEF Busy
<1>3. QED  BY <1>1, <1>2 DEF SlotsMatch

\* The schedule, when neither it nor a job changes.
LEMMA SlotsStay ==
    ASSUME SlotsMatch, UNCHANGED <<pv, jobs, scheduled, worker>>
    PROVE  SlotsMatch'
<1>1. Ids' = Ids /\ Pool' = Pool  BY SameScenario
<1>2. QED  BY <1>1 DEF SlotsMatch, Busy

\* What enqueue does: note a rerun, take a place in the channel, or ask for a sweep.
LEMMA EnqueueEffect ==
    ASSUME LinksTyped, QueueTyped, NEW job \in Requests, NEW explicit \in BOOLEAN, enqueue(job, explicit)
    PROVE  \/ /\ scheduled[job.id].in
              /\ \A id \in Ids : id # job.id => scheduled'[id] = scheduled[id]
              /\ scheduled' \in [Ids -> Slots] /\ scheduled'[job.id].in
              /\ scheduled'[job.id].running = scheduled[job.id].running /\ scheduled'[job.id].recovery = scheduled[job.id].recovery
              /\ scheduled'[job.id].rerun = (scheduled[job.id].rerun \/ (explicit /\ (scheduled[job.id].running \/ scheduled[job.id].recovery)))
              /\ UNCHANGED <<jobs, recovery>>
           \/ /\ ~scheduled[job.id].in /\ Room
              /\ \A id \in Ids : id # job.id => scheduled'[id] = scheduled[id]
              /\ scheduled' \in [Ids -> Slots] /\ scheduled'[job.id].in
              /\ ~scheduled'[job.id].running /\ scheduled'[job.id].recovery = job.claimed
              /\ jobs' = Append(jobs, job) /\ recovery' = recovery
           \/ /\ ~scheduled[job.id].in /\ ~Room /\ jobs # <<>>
              /\ recovery' \in [needed : BOOLEAN, wake : BOOLEAN] /\ recovery'.needed /\ recovery'.wake = recovery.wake
              /\ UNCHANGED <<jobs, scheduled>>
<1> DEFINE s == scheduled[job.id]
<1>1. job.id \in Ids /\ s \in Slots /\ job.claimed \in BOOLEAN /\ s.in \in BOOLEAN  BY DEF Requests, QueueTyped, Slots
<1>2. CASE s.in
  <2>1. PICK r : r = (s.rerun \/ (explicit /\ (s.running \/ s.recovery)))  OBVIOUS
  <2>2. r \in BOOLEAN  BY <1>1, <2>1 DEF Slots
  <2>3. scheduled' = [scheduled EXCEPT ![job.id].rerun = r] /\ UNCHANGED <<jobs, recovery>>
    BY <1>2, <2>1 DEF enqueue
  <2>4. scheduled' = [scheduled EXCEPT ![job.id] = [s EXCEPT !.rerun = r]]  BY <2>3
  <2>5. PICK q : q = [s EXCEPT !.rerun = r]  OBVIOUS
  <2>6. q \in Slots /\ q.in = s.in /\ q.running = s.running /\ q.recovery = s.recovery /\ q.rerun = r
    BY <1>1, <2>2, <2>5 DEF Slots
  <2>7. scheduled' \in [Ids -> Slots] /\ scheduled'[job.id] = q /\ \A id \in Ids : id # job.id => scheduled'[id] = scheduled[id]
    BY <1>1, <2>4, <2>5, <2>6 DEF QueueTyped
  <2>8. QED  BY <1>2, <2>1, <2>3, <2>6, <2>7
<1>3. CASE ~s.in /\ Room
  <2>1. PICK q : q = [NotScheduled EXCEPT !.in = TRUE, !.recovery = job.claimed]  OBVIOUS
  <2>2. q \in Slots /\ q.in /\ ~q.running /\ q.recovery = job.claimed  BY <1>1, <2>1 DEF Slots, NotScheduled
  <2>3. scheduled' = [scheduled EXCEPT ![job.id] = q] /\ jobs' = Append(jobs, job) /\ recovery' = recovery
    BY <1>1, <1>3, <2>1 DEF enqueue
  <2>4. scheduled' \in [Ids -> Slots] /\ scheduled'[job.id] = q /\ \A id \in Ids : id # job.id => scheduled'[id] = scheduled[id]
    BY <1>1, <2>2, <2>3 DEF QueueTyped
  <2>5. QED  BY <1>3, <2>2, <2>3, <2>4
<1>4. CASE ~s.in /\ ~Room
  <2>1. recovery' = requireRecovery(jobs) /\ UNCHANGED <<jobs, scheduled>>  BY <1>1, <1>4 DEF enqueue
  <2>2. jobs # <<>>  BY <1>4, FullChannel
  <2>3. requireRecovery(jobs) = [needed |-> TRUE, wake |-> recovery.wake]
    BY <2>2 DEF requireRecovery, QueueTyped
  <2>4. recovery' \in [needed : BOOLEAN, wake : BOOLEAN] /\ recovery'.needed /\ recovery'.wake = recovery.wake
    BY <2>1, <2>3 DEF QueueTyped
  <2>5. QED  BY <1>4, <2>1, <2>2, <2>4
<1>5. QED  BY <1>1, <1>2, <1>3, <1>4

-----------------------------------------------------------------------------

\* A link whose row, place and jobs stay is as covered as before.
LEMMA ScheduledStays ==
    ASSUME NEW id \in Ids, pv' = pv, rows'[id] = rows[id], Scheduled(id), scheduled'[id].rerun = scheduled[id].rerun,
           \A i \in DOMAIN jobs : jobs[i].id = id => \E j \in DOMAIN jobs' : jobs'[j] = jobs[i],
           \A w \in Pool : Works(w, id) => worker'[w] = worker[w]
    PROVE  Scheduled(id)'
<1>1. Pool' = Pool  BY SameScenario
<1>2. CASE \E i \in DOMAIN jobs : Fresh(id, jobs[i])
  <2>1. PICK i \in DOMAIN jobs : Fresh(id, jobs[i])  BY <1>2
  <2>2. jobs[i].id = id  BY <2>1 DEF Fresh
  <2>3. PICK j \in DOMAIN jobs' : jobs'[j] = jobs[i]  BY <2>2
  <2>4. QED  BY <2>1, <2>3 DEF Fresh, Scheduled
<1>3. CASE \E w \in Pool : Works(w, id)
  <2>1. PICK w \in Pool : Works(w, id)  BY <1>3
  <2>2. worker'[w] = worker[w]  BY <2>1
  <2>3. Works(w, id)'  BY <2>1, <2>2 DEF Works, Fresh
  <2>4. QED  BY <1>1, <2>3 DEF Scheduled
<1>4. CASE scheduled[id].rerun  BY <1>4 DEF Scheduled
<1>5. QED  BY <1>2, <1>3, <1>4 DEF Scheduled

\* What the sweep will see stays, where nothing it needs changes.
LEMMA RecoveringStays ==
    ASSUME NEW id \in Ids, rows'[id] = rows[id], Recovering(id), UNCHANGED <<recovery, sweep>>,
           jobs # <<>> => jobs' # <<>>
    PROVE  Recovering(id)'
BY DEF Recovering, Fresh

\* A pending row stays covered while its slot, its jobs and its sweep stay.
LEMMA CoverStays ==
    ASSUME NEW id \in Ids, pv' = pv, Covered(id), rows'[id] = rows[id], scheduled'[id] = scheduled[id], Good(id)' => Good(id),
           \A i \in DOMAIN jobs : jobs[i].id = id => \E j \in DOMAIN jobs' : jobs'[j] = jobs[i],
           \A w \in Pool : Works(w, id) => worker'[w] = worker[w],
           \A t \in sweep'.todo : t.id = id => t \in sweep.todo,
           Recovering(id) => Recovering(id)'
    PROVE  Covered(id)'
<1> SUFFICES ASSUME Good(id)'  PROVE IF scheduled'[id].in THEN Scheduled(id)' ELSE TodoFresh(id)' /\ Recovering(id)'
  BY DEF Covered
<1>1. CASE scheduled[id].in
  <2>1. Scheduled(id)  BY <1>1 DEF Covered
  <2>2. Scheduled(id)'  BY <2>1, ScheduledStays
  <2>3. QED  BY <1>1, <2>2
<1>2. CASE ~scheduled[id].in
  <2>1. TodoFresh(id) /\ Recovering(id)  BY <1>2 DEF Covered
  <2>2. TodoFresh(id)'  BY <2>1 DEF TodoFresh, Fresh
  <2>3. QED  BY <1>2, <2>1, <2>2
<1>3. QED  BY <1>1, <1>2

\* What holds of the answers, when every row written has its answer or waits for one.
LEMMA AnswersStay ==
    ASSUME AnswersCurrent, pv' = pv,
           \A id \in Ids : rows'[id] = rows[id] \/ rows'[id].status = "pending" \/ rows'[id].ans = rows'[id].asked
    PROVE  AnswersCurrent'
BY SameScenario DEF AnswersCurrent

\* A request writes rows, or none, and what it writes is not taken yet, or answered, or edited.
LEMMA UserWrites ==
    ASSUME PvInv, PreviewTyped', UNCHANGED <<pv, queue, worker, sweep>>,
           \A id \in Ids : \/ rows'[id] = rows[id] /\ (Good(id)' => Good(id))
                           \/ RowMoves(id) /\ ~Good(id)' /\ (rows'[id].status = "pending" \/ rows'[id].ans = rows'[id].asked)
    PROVE  WorkKnown' /\ SlotsMatch' /\ AnswersCurrent' /\ AllCovered'
<1>1. Moves  BY DEF Moves, RowMoves
<1>2. WorkKnown'
  <2>1. UNCHANGED <<jobs, sweep, worker>>  BY DEF queue
  <2>2. \A w \in Pool : worker'[w] = worker[w]  BY <2>1
  <2>3. QED  BY <1>1, <2>1, <2>2, NextWork DEF PvInv
<1>3. SlotsMatch'  BY SlotsStay DEF PvInv, queue
<1>4. AnswersCurrent'  BY AnswersStay DEF PvInv
<1>5. ASSUME NEW id \in Ids  PROVE Covered(id)'
  <2>1. CASE ~Good(id)'  BY <2>1 DEF Covered
  <2>2. CASE rows'[id] = rows[id] /\ (Good(id)' => Good(id))
    <3>1. UNCHANGED <<jobs, scheduled, recovery, worker, sweep>>  BY DEF queue
    <3>2. Recovering(id) => Recovering(id)'  BY <2>2, <3>1, RecoveringStays
    <3>3. Covered(id)  BY DEF PvInv, AllCovered
    <3>4. QED  BY <2>2, <3>1, <3>2, <3>3, CoverStays
  <2>3. QED  BY <2>1, <2>2
<1>6. QED  BY <1>2, <1>3, <1>4, <1>5, SameScenario DEF AllCovered

\* Images and the objects behind them, when no new image is shown or published.
LEMMA ImagesStay ==
    ASSUME PreviewTyped, LinksTyped', ImagesOwned, Moves, UNCHANGED <<pv, trash, keys>>,
           \A id \in Ids : rows'[id].img \in {rows[id].img, NoImage, Remote},
           \A w \in Pool : Publishing(w)' => Publishing(w) /\ worker'[w].key = worker[w].key,
           manual' \in {manual, NoCapture}
    PROVE  ImagesOwned'
<1>1. Ids' = Ids /\ Pool' = Pool  BY SameScenario
<1>2. NoImage \in (0..keys) \ trash /\ Remote \in (0..keys) \ trash /\ \A k \in 2..keys : k # NoImage /\ k # Remote
  BY DEF PreviewTyped, HandlersTyped, NoImage, Remote
<1>3. manual' # NoCapture => /\ manual'.upd <= rows'[manual'.id].upd
                             /\ manual'.upd = rows'[manual'.id].upd => manual'.img = rows'[manual'.id].img
  <2> SUFFICES ASSUME manual' # NoCapture  PROVE /\ manual.upd <= rows'[manual.id].upd
                                                 /\ manual.upd = rows'[manual.id].upd => manual.img = rows'[manual.id].img
    OBVIOUS
  <2>1. manual # NoCapture /\ manual.id \in Ids /\ manual.upd \in Nat  BY DEF PreviewTyped, HandlersTyped
  <2>2. rows[manual.id].upd \in Nat /\ rows'[manual.id].upd \in Nat /\ RowMoves(manual.id)
    BY <1>1, <2>1 DEF PreviewTyped, LinksTyped, LinkRows, Moves
  <2>3. manual.upd <= rows[manual.id].upd /\ (manual.upd = rows[manual.id].upd => manual.img = rows[manual.id].img)
    BY <2>1 DEF ImagesOwned
  <2>4. QED  BY <2>1, <2>2, <2>3 DEF RowMoves
<1>4. \A id \in Ids : rows'[id].img \in (0..keys) \ trash  BY <1>2 DEF ImagesOwned
<1>5. \A i, j \in Ids : i # j /\ rows'[i].img = rows'[j].img => rows'[i].img \in {NoImage, Remote}
  BY DEF ImagesOwned
<1>6. \A w \in Pool : Publishing(w)' => /\ worker'[w].key \in (2..keys) \ trash
                                        /\ \A id \in Ids : rows'[id].img # worker'[w].key
  BY <1>2 DEF ImagesOwned
<1>7. \A w, v \in Pool : Publishing(w)' /\ Publishing(v)' /\ worker'[w].key = worker'[v].key => w = v
  BY DEF ImagesOwned
<1>8. QED  BY <1>1, <1>3, <1>4, <1>5, <1>6, <1>7 DEF ImagesOwned

\* What is shown or about to be is in the store, when only objects of nobody go.
LEMMA ObjectsStay ==
    ASSUME PreviewTyped, LinksTyped', ObjectsKept, pv' = pv, left'.losses \in Nat, left'.losses <= left.losses,
           \/ left'.losses # left.losses
           \/ /\ \A id \in Ids : rows'[id].img \in {rows[id].img, NoImage, Remote} \cup objects'
              /\ \A w \in Pool : Publishing(w)' => worker'[w].key \in objects' \/ (Publishing(w) /\ worker'[w].key = worker[w].key)
              /\ \A k \in objects \ objects' : /\ \A id \in Ids : rows'[id].img # k
                                               /\ \A w \in Pool : Publishing(w)' => worker'[w].key # k
    PROVE  ObjectsKept'
<1>1. Ids' = Ids /\ Pool' = Pool  BY SameScenario
<1>2. left.losses \in Nat /\ pv.losses \in Nat  BY ScenarioFacts DEF PreviewTyped, HandlersTyped, Counters
<1>3. left'.losses <= pv'.losses  BY <1>2 DEF ObjectsKept
<1>4. CASE left'.losses # pv.losses  BY <1>3, <1>4 DEF ObjectsKept
<1>5. CASE left'.losses = pv.losses
  <2>1. left.losses = pv.losses  BY <1>2, <1>5 DEF ObjectsKept
  <2>2. \A id \in Ids : rows'[id].img \in {NoImage, Remote} \cup objects'  BY <1>5, <2>1 DEF ObjectsKept
  <2>3. \A w \in Pool : Publishing(w)' => worker'[w].key \in objects'  BY <1>5, <2>1 DEF ObjectsKept
  <2>4. QED  BY <1>1, <1>3, <2>2, <2>3 DEF ObjectsKept
<1>6. QED  BY <1>4, <1>5

\* An operation of the user, or a fault, is spent.
LEMMA Spending ==
    ASSUME HandlersTyped, NEW what \in Counters, Spend(what)
    PROVE  /\ left' \in [Counters -> Nat] /\ left'.losses \in Nat /\ left'.losses <= left.losses
           /\ (what # "losses" => left'.losses = left.losses) /\ (what = "losses" => left'.losses # left.losses)
<1>1. left \in [Counters -> Nat] /\ "losses" \in Counters  BY DEF HandlersTyped, Counters
<1>2. left[what] \in Nat /\ left[what] > 0 /\ left' = [left EXCEPT ![what] = left[what] - 1]  BY <1>1 DEF Spend
<1>3. QED  BY <1>1, <1>2

\* The row of a request.
LEMMA RequestRow ==
    ASSUME NEW row \in LinkRows, NEW r, r = Request(row)
    PROVE  /\ r \in LinkRows /\ r.upd = row.upd + 1 /\ r.status = "pending"
           /\ r.img = row.img /\ r.gen = row.gen /\ r.asked = row.asked + 1
<1>1. PICK s : s = Stamp(row)  OBVIOUS
<1>2. s \in LinkRows /\ s.upd = row.upd + 1 /\ s.img = row.img /\ s.gen = row.gen /\ s.asked = row.asked
  BY <1>1 DEF Stamp, LinkRows
<1>3. r = [s EXCEPT !.status = "pending", !.asked = s.asked + 1]  BY <1>1 DEF Request
<1>4. PICK q : q = [s EXCEPT !.status = "pending"]  OBVIOUS
<1>5. q \in LinkRows /\ q.upd = row.upd + 1 /\ q.img = row.img /\ q.gen = row.gen /\ q.asked = row.asked /\ q.status = "pending"
  BY <1>2, <1>4 DEF LinkRows, Statuses
<1>6. r = [q EXCEPT !.asked = q.asked + 1]  BY <1>2, <1>3, <1>4, <1>5 DEF LinkRows
<1>7. QED  BY <1>5, <1>6 DEF LinkRows

\* The row of an answer, with an image.
LEMMA AnswerRow ==
    ASSUME NEW row \in LinkRows, NEW a \in Nat, NEW st \in Statuses, NEW k \in Nat, NEW r, r = Answer(row, a, st, k)
    PROVE  /\ r \in LinkRows /\ r.upd = row.upd + 1 /\ r.status = st /\ r.img = k /\ r.gen = row.gen
           /\ r.asked = row.asked /\ r.ans = a
<1>1. PICK s : s = Stamp(row)  OBVIOUS
<1>2. s \in LinkRows /\ s.upd = row.upd + 1 /\ s.gen = row.gen /\ s.asked = row.asked  BY <1>1 DEF Stamp, LinkRows
<1>3. r = [s EXCEPT !.ans = a, !.status = st, !.img = k]  BY <1>1 DEF Answer
<1>4. QED  BY <1>2, <1>3 DEF LinkRows

-----------------------------------------------------------------------------

\* A request that waits for its Enqueue, and what becomes of the other links.
LEMMA AskEffect ==
    ASSUME HandlersTyped, NEW id \in Ids, Ask(id), pv' = pv
    PROVE  /\ waiting' \in [Ids -> Nat] /\ ~Good(id)'
           /\ \A j \in Ids : j # id /\ rows'[j] = rows[j] => (Good(j)' => Good(j))
<1>1. waiting' = [waiting EXCEPT ![id] = waiting[id] + 1] /\ waiting \in [Ids -> Nat]  BY DEF Ask, HandlersTyped
<1>2. waiting' \in [Ids -> Nat] /\ waiting'[id] # 0 /\ \A j \in Ids : j # id => waiting'[j] = waiting[j]  BY <1>1
<1>3. stalled' = stalled \ {id} /\ dropped' = dropped \ {id}  BY DEF Ask
<1>4. QED  BY <1>2, <1>3 DEF Good

\* A refresh: the row is new and waits for its Enqueue.
LEMMA RefreshKeeps == ASSUME PvInv, NEW id \in Ids, refreshPreview(id)  PROVE PvInv'
<1>1. /\ Spend("refreshes") /\ Ask(id) /\ rows' = [rows EXCEPT ![id] = [Request(rows[id]) EXCEPT !.gen = @ + 1]]
      /\ UNCHANGED <<pv, queue, worker, sweep, manual, trash, bucket>> /\ UNCHANGED <<objects, keys, jobs, scheduled, recovery>>
  BY DEF refreshPreview, bucket, queue
<1>2. PreviewTyped /\ rows[id] \in LinkRows /\ Ids' = Ids /\ Pool' = Pool /\ Requests' = Requests
  BY <1>1, SameScenario DEF PvInv, PreviewTyped, LinksTyped
<1>3. PICK q : q = Request(rows[id])  OBVIOUS
<1>4. q \in LinkRows /\ q.upd = rows[id].upd + 1 /\ q.status = "pending" /\ q.img = rows[id].img /\ q.gen = rows[id].gen
  BY <1>2, <1>3, RequestRow
<1>5. PICK r : r = [Request(rows[id]) EXCEPT !.gen = @ + 1]  OBVIOUS
<1>6. r \in LinkRows /\ r.upd = rows[id].upd + 1 /\ r.status = "pending" /\ r.img = rows[id].img /\ r.gen = rows[id].gen + 1
  BY <1>3, <1>4, <1>5 DEF LinkRows
<1>7. rows' = [rows EXCEPT ![id] = r]  BY <1>1, <1>5
<1>8. LinksTyped' /\ rows'[id] = r /\ \A j \in Ids : j # id => rows'[j] = rows[j]
  BY <1>1, <1>2, <1>6, <1>7, RowWritten DEF PreviewTyped
<1>9. RowMoves(id)  BY <1>2, <1>6, <1>8 DEF RowMoves, LinkRows
<1>10. Moves  BY <1>8, <1>9 DEF Moves, RowMoves
<1>11. /\ waiting' \in [Ids -> Nat] /\ ~Good(id)'
       /\ \A j \in Ids : j # id /\ rows'[j] = rows[j] => (Good(j)' => Good(j))
  BY <1>1, <1>2, AskEffect DEF PreviewTyped
<1>12. left' \in [Counters -> Nat] /\ left'.losses = left.losses /\ left'.losses \in Nat
  BY <1>1, <1>2, Spending DEF PreviewTyped, HandlersTyped, Counters
<1>13. PreviewTyped'
  BY <1>1, <1>2, <1>8, <1>11, <1>12 DEF PreviewTyped, QueueTyped, WorkersTyped, SweepTyped, HandlersTyped
<1>14. WorkKnown' /\ SlotsMatch' /\ AnswersCurrent' /\ AllCovered'
  BY <1>1, <1>6, <1>8, <1>9, <1>11, <1>13, UserWrites
<1>15. \A j \in Ids : rows'[j].img = rows[j].img  BY <1>6, <1>8
<1>16. \A w \in Pool : Publishing(w)' <=> Publishing(w)  BY <1>1 DEF Publishing
<1>17. ImagesOwned'  BY <1>1, <1>2, <1>8, <1>10, <1>15, <1>16, ImagesStay DEF PvInv
<1>18. ObjectsKept'  BY <1>1, <1>2, <1>8, <1>12, <1>15, <1>16, ObjectsStay DEF PvInv
<1>19. QED  BY <1>13, <1>14, <1>17, <1>18 DEF PvInv

\* An edit leaves a pending row to the ticker.
LEMMA EditKeeps == ASSUME PvInv, NEW id \in Ids, editLink(id)  PROVE PvInv'
<1>1. /\ Spend("edits") /\ stalled' = stalled \cup {id}
      /\ \/ rows' = [rows EXCEPT ![id] = Stamp([rows[id] EXCEPT !.url = @ + 1])]
         \/ rows' = [rows EXCEPT ![id] = Stamp([rows[id] EXCEPT !.img = NoImage])]
      /\ UNCHANGED <<pv, queue, worker, sweep, handlers, bucket, dropped>>
      /\ UNCHANGED <<objects, keys, jobs, scheduled, recovery, waiting, manual, trash>>
  BY DEF editLink, bucket, queue, handlers
<1>2. PreviewTyped /\ rows[id] \in LinkRows /\ Ids' = Ids /\ Pool' = Pool /\ Requests' = Requests
  BY <1>1, SameScenario DEF PvInv, PreviewTyped, LinksTyped
<1>3. PICK q \in LinkRows : /\ rows' = [rows EXCEPT ![id] = Stamp(q)] /\ q.upd = rows[id].upd /\ q.status = rows[id].status
                            /\ q.img \in {rows[id].img, NoImage} /\ q.gen = rows[id].gen /\ q.asked = rows[id].asked
                            /\ q.ans = rows[id].ans
  <2>1. CASE rows' = [rows EXCEPT ![id] = Stamp([rows[id] EXCEPT !.url = @ + 1])]
    <3>1. PICK q : q = [rows[id] EXCEPT !.url = @ + 1]  OBVIOUS
    <3>2. q \in LinkRows /\ q.upd = rows[id].upd /\ q.status = rows[id].status /\ q.img = rows[id].img
          /\ q.gen = rows[id].gen /\ q.asked = rows[id].asked /\ q.ans = rows[id].ans
      BY <1>2, <3>1 DEF LinkRows
    <3>3. QED  BY <2>1, <3>1, <3>2
  <2>2. CASE rows' = [rows EXCEPT ![id] = Stamp([rows[id] EXCEPT !.img = NoImage])]
    <3>1. PICK q : q = [rows[id] EXCEPT !.img = NoImage]  OBVIOUS
    <3>2. q \in LinkRows /\ q.upd = rows[id].upd /\ q.status = rows[id].status /\ q.img = NoImage
          /\ q.gen = rows[id].gen /\ q.asked = rows[id].asked /\ q.ans = rows[id].ans
      BY <1>2, <3>1 DEF LinkRows, NoImage
    <3>3. QED  BY <2>2, <3>1, <3>2
  <2>3. QED  BY <1>1, <2>1, <2>2
<1>4. PICK r : r = Stamp(q)  OBVIOUS
<1>5. r \in LinkRows /\ r.upd = rows[id].upd + 1 /\ r.status = rows[id].status /\ r.img \in {rows[id].img, NoImage}
      /\ r.gen = rows[id].gen /\ r.asked = rows[id].asked /\ r.ans = rows[id].ans
  <2>1. r \in LinkRows /\ r.upd = q.upd + 1 /\ r.status = q.status /\ r.img = q.img /\ r.gen = q.gen /\ r.asked = q.asked
        /\ r.ans = q.ans
    BY <1>4 DEF Stamp, LinkRows
  <2>2. QED  BY <1>3, <2>1
<1>6. LinksTyped' /\ rows'[id] = r /\ \A j \in Ids : j # id => rows'[j] = rows[j]
  BY <1>1, <1>2, <1>3, <1>4, <1>5, RowWritten DEF PreviewTyped
<1>7. RowMoves(id)  BY <1>2, <1>5, <1>6 DEF RowMoves, LinkRows
<1>8. Moves  BY <1>6, <1>7 DEF Moves, RowMoves
<1>9. left' \in [Counters -> Nat] /\ left'.losses = left.losses /\ left'.losses \in Nat
  BY <1>1, <1>2, Spending DEF PreviewTyped, HandlersTyped, Counters
<1>10. PreviewTyped'
  BY <1>1, <1>2, <1>6, <1>9 DEF PreviewTyped, QueueTyped, WorkersTyped, SweepTyped, HandlersTyped
<1>11. ~Good(id)' /\ \A j \in Ids : j # id => (Good(j)' => Good(j))  BY <1>1, <1>6 DEF Good
<1>12. rows'[id].status = "pending" \/ rows'[id].ans = rows'[id].asked
  BY <1>5, <1>6 DEF PvInv, AnswersCurrent
<1>13. WorkKnown' /\ SlotsMatch' /\ AnswersCurrent' /\ AllCovered'
  BY <1>1, <1>6, <1>7, <1>10, <1>11, <1>12, UserWrites
<1>14. \A j \in Ids : rows'[j].img \in {rows[j].img, NoImage}  BY <1>5, <1>6
<1>15. \A w \in Pool : Publishing(w)' <=> Publishing(w)  BY <1>1 DEF Publishing
<1>16. ImagesOwned'  BY <1>1, <1>2, <1>6, <1>8, <1>14, <1>15, ImagesStay DEF PvInv
<1>17. ObjectsKept'
  <2>1. \A j \in Ids : rows'[j].img \in {rows[j].img, NoImage, Remote} \cup objects'  BY <1>14
  <2>2. QED  BY <1>1, <1>2, <1>6, <1>9, <1>15, <2>1, ObjectsStay DEF PvInv
<1>18. QED  BY <1>10, <1>13, <1>16, <1>17 DEF PvInv

\* A read that finds the object gone asks for a new preview.
LEMMA HealKeeps == ASSUME PvInv, NEW id \in Ids, NEW k, healMissingObject(id, k)  PROVE PvInv'
<1>1. /\ Ask(id) /\ rows' = [rows EXCEPT ![id] = [Request(rows[id]) EXCEPT !.img = NoImage]]
      /\ UNCHANGED <<pv, queue, worker, sweep, manual, trash, bucket, left>> /\ UNCHANGED <<objects, keys, jobs, scheduled, recovery>>
  BY DEF healMissingObject, bucket, queue
<1>2. PreviewTyped /\ rows[id] \in LinkRows /\ Ids' = Ids /\ Pool' = Pool /\ Requests' = Requests
  BY <1>1, SameScenario DEF PvInv, PreviewTyped, LinksTyped
<1>3. PICK q : q = Request(rows[id])  OBVIOUS
<1>4. q \in LinkRows /\ q.upd = rows[id].upd + 1 /\ q.status = "pending" /\ q.gen = rows[id].gen
  BY <1>2, <1>3, RequestRow
<1>5. PICK r : r = [Request(rows[id]) EXCEPT !.img = NoImage]  OBVIOUS
<1>6. r \in LinkRows /\ r.upd = rows[id].upd + 1 /\ r.status = "pending" /\ r.img = NoImage /\ r.gen = rows[id].gen
  BY <1>3, <1>4, <1>5 DEF LinkRows, NoImage
<1>7. rows' = [rows EXCEPT ![id] = r]  BY <1>1, <1>5
<1>8. LinksTyped' /\ rows'[id] = r /\ \A j \in Ids : j # id => rows'[j] = rows[j]
  BY <1>1, <1>2, <1>6, <1>7, RowWritten DEF PreviewTyped
<1>9. RowMoves(id)  BY <1>2, <1>6, <1>8 DEF RowMoves, LinkRows
<1>10. Moves  BY <1>8, <1>9 DEF Moves, RowMoves
<1>11. /\ waiting' \in [Ids -> Nat] /\ ~Good(id)'
       /\ \A j \in Ids : j # id /\ rows'[j] = rows[j] => (Good(j)' => Good(j))
  BY <1>1, <1>2, AskEffect DEF PreviewTyped
<1>12. PreviewTyped'
  BY <1>1, <1>2, <1>8, <1>11 DEF PreviewTyped, QueueTyped, WorkersTyped, SweepTyped, HandlersTyped
<1>13. WorkKnown' /\ SlotsMatch' /\ AnswersCurrent' /\ AllCovered'
  BY <1>1, <1>6, <1>8, <1>9, <1>11, <1>12, UserWrites
<1>14. \A j \in Ids : rows'[j].img \in {rows[j].img, NoImage}  BY <1>6, <1>8
<1>15. \A w \in Pool : Publishing(w)' <=> Publishing(w)  BY <1>1 DEF Publishing
<1>16. ImagesOwned'  BY <1>1, <1>2, <1>8, <1>10, <1>14, <1>15, ImagesStay DEF PvInv
<1>17. ObjectsKept'
  <2>1. \A j \in Ids : rows'[j].img \in {rows[j].img, NoImage, Remote} \cup objects'  BY <1>14
  <2>2. left'.losses \in Nat /\ left'.losses <= left.losses  BY <1>1, <1>2 DEF PreviewTyped, HandlersTyped, Counters
  <2>3. QED  BY <1>1, <1>2, <1>8, <1>15, <2>1, <2>2, ObjectsStay DEF PvInv
<1>18. QED  BY <1>12, <1>13, <1>16, <1>17 DEF PvInv

-----------------------------------------------------------------------------

\* A row shows an image with a key of its own, and the one it replaced is to be deleted.
LEMMA ShowsNew ==
    ASSUME PvInv, NEW id \in Ids, LinksTyped', Moves, UNCHANGED <<pv, worker>>, rows'[id].img = keys + 1,
           \A j \in Ids : j # id => rows'[j] = rows[j],
           keys' = keys + 1, objects' = objects \cup {keys + 1},
           trash' = trash \cup ({rows[id].img} \ {NoImage, Remote, keys + 1}), manual' \in {manual, NoCapture},
           left'.losses = left.losses
    PROVE  /\ keys' \in Nat \ {0} /\ trash' \subseteq 2..keys' /\ objects' \subseteq 2..keys'
           /\ ImagesOwned' /\ ObjectsKept'
<1>1. Ids' = Ids /\ Pool' = Pool  BY SameScenario
<1>2. keys \in Nat \ {0} /\ trash \subseteq 2..keys /\ objects \subseteq 2..keys /\ \A j \in Ids : rows[j].img \in (0..keys) \ trash
  BY DEF PvInv, PreviewTyped, HandlersTyped, ImagesOwned
<1>3. keys' \in Nat \ {0} /\ objects' \subseteq 2..keys' /\ keys + 1 \notin trash'
  <2>1. keys \in Nat /\ keys >= 1  BY <1>2
  <2>2. keys' \in Nat \ {0} /\ keys + 1 \in 2..keys' /\ keys + 1 \notin 2..keys /\ \A k \in 2..keys : k \in 2..keys'
    BY <2>1
  <2>3. QED  BY <1>2, <2>2
<1>4. trash' \subseteq 2..keys'
  <2>1. keys \in Nat /\ rows[id].img \in 0..keys  BY <1>2
  <2>2. rows[id].img \notin {NoImage, Remote, keys + 1} => rows[id].img \in 2..keys'  BY <2>1 DEF NoImage, Remote
  <2>3. \A k \in 2..keys : k \in 2..keys'  BY <2>1
  <2>4. QED  BY <1>2, <2>2, <2>3
<1>5. ASSUME NEW j \in Ids  PROVE rows'[j].img \in (0..keys') \ trash'
  <2>1. CASE j = id  BY <1>2, <1>3, <2>1
  <2>2. CASE j # id
    <3>1. rows[j].img = rows[id].img => rows[id].img \in {NoImage, Remote}  BY <2>2 DEF PvInv, ImagesOwned
    <3>2. rows'[j].img = rows[j].img /\ rows[j].img \in 0..keys /\ rows[j].img \notin trash'
      BY <1>2, <2>2, <3>1
    <3>3. QED  BY <1>2, <3>2
  <2>3. QED  BY <2>1, <2>2
<1>6. ASSUME NEW i \in Ids, NEW j \in Ids, i # j, rows'[i].img = rows'[j].img  PROVE rows'[i].img \in {NoImage, Remote}
  <2>1. CASE i = id \/ j = id  BY <1>2, <1>6, <2>1
  <2>2. CASE i # id /\ j # id
    <3>1. rows'[i].img = rows[i].img /\ rows'[j].img = rows[j].img  BY <2>2
    <3>2. QED  BY <1>6, <3>1 DEF PvInv, ImagesOwned
  <2>3. QED  BY <2>1, <2>2
<1>7. manual' # NoCapture => /\ manual'.upd <= rows'[manual'.id].upd
                             /\ manual'.upd = rows'[manual'.id].upd => manual'.img = rows'[manual'.id].img
  <2> SUFFICES ASSUME manual' # NoCapture  PROVE /\ manual.upd <= rows'[manual.id].upd
                                                 /\ manual.upd = rows'[manual.id].upd => manual.img = rows'[manual.id].img
    OBVIOUS
  <2>1. manual # NoCapture /\ manual.id \in Ids /\ manual.upd \in Nat  BY DEF PvInv, PreviewTyped, HandlersTyped
  <2>2. rows[manual.id].upd \in Nat /\ rows'[manual.id].upd \in Nat /\ RowMoves(manual.id)
    BY <1>1, <2>1 DEF PvInv, PreviewTyped, LinksTyped, LinkRows, Moves
  <2>3. manual.upd <= rows[manual.id].upd /\ (manual.upd = rows[manual.id].upd => manual.img = rows[manual.id].img)
    BY <2>1 DEF PvInv, ImagesOwned
  <2>4. QED  BY <2>1, <2>2, <2>3 DEF RowMoves
<1>8. ASSUME NEW w \in Pool, Publishing(w)
      PROVE worker[w].key \in (2..keys') \ trash' /\ \A j \in Ids : rows'[j].img # worker[w].key
  <2>1. worker[w].key \in (2..keys) \ trash /\ \A j \in Ids : rows[j].img # worker[w].key  BY <1>8 DEF PvInv, ImagesOwned
  <2>2. worker[w].key # keys + 1 /\ worker[w].key \in 2..keys'  BY <1>2, <2>1
  <2>3. \A j \in Ids : rows'[j].img # worker[w].key  BY <2>1, <2>2
  <2>4. QED  BY <2>1, <2>2, <2>3
<1>9. \A w, v \in Pool : Publishing(w) /\ Publishing(v) /\ worker[w].key = worker[v].key => w = v
  BY DEF PvInv, ImagesOwned
<1>10. \A w \in Pool : Publishing(w)' <=> Publishing(w)  BY DEF Publishing
<1>11. ImagesOwned'  BY <1>1, <1>5, <1>6, <1>7, <1>8, <1>9, <1>10 DEF ImagesOwned
<1>12. ObjectsKept'  BY <1>1, <1>10 DEF ObjectsKept, PvInv
<1>13. QED  BY <1>3, <1>4, <1>11, <1>12

\* The row of a picture the user gave or asked for.
LEMMA PictureRow ==
    ASSUME PvInv, NEW id \in Ids, pv' = pv, NEW k \in Nat, rows' = [rows EXCEPT ![id] = Answer(rows[id], rows[id].asked, "ok", k)]
    PROVE  /\ LinksTyped' /\ Moves /\ RowMoves(id) /\ rows'[id].img = k /\ rows'[id].status = "ok" /\ rows'[id].ans = rows'[id].asked
           /\ \A j \in Ids : j # id => rows'[j] = rows[j]
<1>1. LinksTyped /\ rows[id] \in LinkRows  BY DEF PvInv, PreviewTyped, LinksTyped
<1>2. rows[id].asked \in Nat /\ "ok" \in Statuses  BY <1>1 DEF LinkRows, Statuses
<1>3. PICK r : r = Answer(rows[id], rows[id].asked, "ok", k)  OBVIOUS
<1>4. r \in LinkRows /\ r.upd = rows[id].upd + 1 /\ r.status = "ok" /\ r.img = k /\ r.gen = rows[id].gen
      /\ r.asked = rows[id].asked /\ r.ans = rows[id].asked
  <2>1. PICK a \in Nat : a = rows[id].asked  BY <1>2
  <2>2. PICK row \in LinkRows : row = rows[id]  BY <1>1
  <2>3. PICK st \in Statuses : st = "ok"  BY <1>2
  <2>4. r = Answer(row, a, st, k)  BY <1>3, <2>1, <2>2, <2>3
  <2>5. r \in LinkRows /\ r.upd = row.upd + 1 /\ r.status = st /\ r.img = k /\ r.gen = row.gen
        /\ r.asked = row.asked /\ r.ans = a
    BY <2>4, AnswerRow
  <2>6. QED  BY <2>1, <2>2, <2>3, <2>5
<1>5. LinksTyped' /\ rows'[id] = r /\ \A j \in Ids : j # id => rows'[j] = rows[j]
  BY <1>1, <1>3, <1>4, RowWritten
<1>6. RowMoves(id)  BY <1>1, <1>4, <1>5 DEF RowMoves, LinkRows
<1>7. QED  BY <1>4, <1>5, <1>6 DEF Moves, RowMoves

\* An upload, under a key of its own.
LEMMA UploadKeeps == ASSUME PvInv, NEW id \in Ids, UploadImage(id)  PROVE PvInv'
<1>1. /\ Spend("images") /\ objects' = objects \cup {keys + 1} /\ keys' = keys + 1
      /\ rows' = [rows EXCEPT ![id] = Answer(rows[id], rows[id].asked, "ok", keys + 1)]
      /\ trash' = trash \cup ({rows[id].img} \ {NoImage, Remote, keys + 1})
      /\ UNCHANGED <<pv, queue, worker, sweep, waiting, manual, missed>>
      /\ UNCHANGED <<jobs, scheduled, recovery, stalled, dropped>>
  BY DEF UploadImage, storeKey, queue, missed
<1>2. PreviewTyped /\ Ids' = Ids /\ Pool' = Pool /\ Requests' = Requests /\ keys + 1 \in Nat
  BY <1>1, SameScenario DEF PvInv, PreviewTyped, HandlersTyped
<1>3. /\ LinksTyped' /\ Moves /\ RowMoves(id) /\ rows'[id].img = keys + 1 /\ rows'[id].status = "ok" /\ rows'[id].ans = rows'[id].asked
      /\ \A j \in Ids : j # id => rows'[j] = rows[j]
  BY <1>1, <1>2, PictureRow
<1>4. left' \in [Counters -> Nat] /\ left'.losses = left.losses
  BY <1>1, <1>2, Spending DEF PreviewTyped, HandlersTyped, Counters
<1>5. keys' \in Nat \ {0} /\ trash' \subseteq 2..keys' /\ objects' \subseteq 2..keys' /\ ImagesOwned' /\ ObjectsKept'
  BY <1>1, <1>3, <1>4, ShowsNew
<1>6. PreviewTyped'
  BY <1>1, <1>2, <1>3, <1>4, <1>5 DEF PreviewTyped, QueueTyped, WorkersTyped, SweepTyped, HandlersTyped
<1>7. ~Good(id)' /\ \A j \in Ids : j # id => (Good(j)' => Good(j))  BY <1>1, <1>3 DEF Good
<1>8. WorkKnown' /\ SlotsMatch' /\ AnswersCurrent' /\ AllCovered'  BY <1>1, <1>3, <1>6, <1>7, UserWrites
<1>9. QED  BY <1>5, <1>6, <1>8 DEF PvInv

\* A capture the user asked for, published on the row it read or thrown away.
LEMMA PublishKeeps == ASSUME PvInv, publishScreenshot  PROVE PvInv'
<1>0. PICK id : id = manual.id  OBVIOUS
<1>1. /\ manual # NoCapture /\ manual' = NoCapture
      /\ UNCHANGED <<pv, queue, worker, sweep, waiting, missed, left>>
      /\ UNCHANGED <<jobs, scheduled, recovery, stalled, dropped>>
  BY DEF publishScreenshot, queue, missed
<1>2. PreviewTyped /\ Ids' = Ids /\ Pool' = Pool /\ Requests' = Requests /\ keys + 1 \in Nat /\ id \in Ids
  BY <1>0, <1>1, SameScenario DEF PvInv, PreviewTyped, HandlersTyped
<1>3. NoCapture \in [id : Nat, upd : Nat, img : Nat]  BY DEF NoCapture, NoImage
<1>4. CASE rows[id].upd = manual.upd
  <2>1. /\ objects' = objects \cup {keys + 1} /\ keys' = keys + 1
        /\ rows' = [rows EXCEPT ![id] = Answer(rows[id], rows[id].asked, "ok", keys + 1)]
        /\ trash' = trash \cup ({manual.img} \ {NoImage, Remote, keys + 1})
    BY <1>0, <1>4 DEF publishScreenshot, storeKey
  <2>2. manual.img = rows[id].img  BY <1>0, <1>1, <1>4 DEF PvInv, ImagesOwned
  <2>3. /\ LinksTyped' /\ Moves /\ RowMoves(id) /\ rows'[id].img = keys + 1 /\ rows'[id].status = "ok" /\ rows'[id].ans = rows'[id].asked
        /\ \A j \in Ids : j # id => rows'[j] = rows[j]
    BY <1>1, <1>2, <2>1, PictureRow
  <2>4. keys' \in Nat \ {0} /\ trash' \subseteq 2..keys' /\ objects' \subseteq 2..keys' /\ ImagesOwned' /\ ObjectsKept'
    BY <1>1, <1>2, <2>1, <2>2, <2>3, ShowsNew
  <2>5. PreviewTyped'
    BY <1>1, <1>2, <1>3, <2>3, <2>4 DEF PreviewTyped, QueueTyped, WorkersTyped, SweepTyped, HandlersTyped
  <2>6. ~Good(id)' /\ \A j \in Ids : j # id => (Good(j)' => Good(j))  BY <1>1, <2>3 DEF Good
  <2>7. WorkKnown' /\ SlotsMatch' /\ AnswersCurrent' /\ AllCovered'  BY <1>1, <1>2, <2>3, <2>5, <2>6, UserWrites
  <2>8. QED  BY <2>4, <2>5, <2>7 DEF PvInv
<1>5. CASE rows[id].upd # manual.upd
  <2>1. objects' = objects \ {keys + 1} /\ UNCHANGED <<rows, trash, keys>>
    BY <1>0, <1>5 DEF publishScreenshot, storeKey
  <2>2. objects' = objects  BY <1>2, <2>1 DEF PreviewTyped, HandlersTyped
  <2>3. PreviewTyped'
    BY <1>1, <1>2, <1>3, <2>1, <2>2 DEF PreviewTyped, LinksTyped, QueueTyped, WorkersTyped, SweepTyped, HandlersTyped
  <2>4. \A j \in Ids : Good(j)' => Good(j)  BY <1>1, <2>1 DEF Good
  <2>5. WorkKnown' /\ SlotsMatch' /\ AnswersCurrent' /\ AllCovered'  BY <1>1, <2>1, <2>3, <2>4, UserWrites
  <2>6. ImagesOwned' /\ ObjectsKept'  BY <1>1, <1>2, <2>1, <2>2 DEF PvInv, ImagesOwned, ObjectsKept, Publishing
  <2>7. QED  BY <2>3, <2>5, <2>6 DEF PvInv
<1>6. QED  BY <1>4, <1>5

\* A capture the user asked for begins with a read of the row.
LEMMA AdmitKeeps == ASSUME PvInv, NEW id \in Ids, admitCapture(id)  PROVE PvInv'
<1>1. /\ Spend("images") /\ manual' = [id |-> id, upd |-> rows[id].upd, img |-> rows[id].img]
      /\ UNCHANGED <<pv, rows, queue, worker, sweep, waiting, trash, bucket, missed>>
      /\ UNCHANGED <<jobs, scheduled, recovery, stalled, dropped, objects, keys>>
  BY DEF admitCapture, queue, missed, bucket
<1>2. PreviewTyped /\ Ids' = Ids /\ Pool' = Pool /\ Requests' = Requests /\ rows[id] \in LinkRows /\ id \in Nat
  BY <1>1, SameScenario, ScenarioFacts DEF PvInv, PreviewTyped, LinksTyped
<1>3. manual' \in [id : Nat, upd : Nat, img : Nat] /\ manual'.id = id /\ manual'.upd = rows[id].upd /\ manual'.img = rows[id].img
  BY <1>1, <1>2 DEF LinkRows
<1>4. left' \in [Counters -> Nat] /\ left'.losses = left.losses
  BY <1>1, <1>2, Spending DEF PreviewTyped, HandlersTyped, Counters
<1>5. PreviewTyped'
  BY <1>1, <1>2, <1>3, <1>4 DEF PreviewTyped, LinksTyped, QueueTyped, WorkersTyped, SweepTyped, HandlersTyped
<1>6. \A j \in Ids : Good(j)' => Good(j)  BY <1>1 DEF Good
<1>7. WorkKnown' /\ SlotsMatch' /\ AnswersCurrent' /\ AllCovered'  BY <1>1, <1>5, <1>6, UserWrites
<1>8. manual'.upd <= rows[id].upd  BY <1>2, <1>3 DEF LinkRows
<1>9. ImagesOwned'  BY <1>1, <1>2, <1>3, <1>8 DEF PvInv, ImagesOwned, Publishing
<1>10. ObjectsKept'  BY <1>1, <1>2, <1>4 DEF PvInv, ObjectsKept, Publishing
<1>11. QED  BY <1>5, <1>7, <1>9, <1>10 DEF PvInv

\* A replaced image is deleted: no row and no job has its key.
LEMMA DeleteKeeps == ASSUME PvInv, NEW k, deletePreviousLinkImage(k)  PROVE PvInv'
<1>1. /\ k \in trash /\ trash' = trash \ {k} /\ objects' = objects \ {k}
      /\ UNCHANGED <<pv, rows, queue, worker, sweep, waiting, manual, keys, missed, left>>
      /\ UNCHANGED <<jobs, scheduled, recovery, stalled, dropped>>
  BY DEF deletePreviousLinkImage, queue, missed
<1>2. PreviewTyped /\ Ids' = Ids /\ Pool' = Pool /\ Requests' = Requests
  BY <1>1, SameScenario DEF PvInv
<1>3. PreviewTyped'
  BY <1>1, <1>2 DEF PreviewTyped, LinksTyped, QueueTyped, WorkersTyped, SweepTyped, HandlersTyped
<1>4. \A j \in Ids : Good(j)' => Good(j)  BY <1>1 DEF Good
<1>5. WorkKnown' /\ SlotsMatch' /\ AnswersCurrent' /\ AllCovered'  BY <1>1, <1>3, <1>4, UserWrites
<1>6. ImagesOwned'  BY <1>1, <1>2 DEF PvInv, ImagesOwned, Publishing
<1>7. \A j \in Ids : rows[j].img # k  BY <1>1 DEF PvInv, ImagesOwned
<1>8. \A w \in Pool : Publishing(w) => worker[w].key # k  BY <1>1 DEF PvInv, ImagesOwned
<1>9. ObjectsKept'  BY <1>1, <1>2, <1>7, <1>8 DEF PvInv, ObjectsKept, Publishing
<1>10. QED  BY <1>3, <1>5, <1>6, <1>9 DEF PvInv

\* The store loses an object.
LEMMA LoseKeeps == ASSUME PvInv, NEW k, lose(k)  PROVE PvInv'
<1>1. /\ Spend("losses") /\ objects' = objects \ {k}
      /\ UNCHANGED <<pv, rows, queue, worker, sweep, handlers, keys, missed>>
      /\ UNCHANGED <<jobs, scheduled, recovery, stalled, dropped, waiting, manual, trash>>
  BY DEF lose, queue, missed, handlers
<1>2. PreviewTyped /\ Ids' = Ids /\ Pool' = Pool /\ Requests' = Requests
  BY <1>1, SameScenario DEF PvInv
<1>3. left' \in [Counters -> Nat] /\ left'.losses # left.losses /\ left'.losses <= left.losses /\ left'.losses \in Nat
  BY <1>1, <1>2, Spending DEF PreviewTyped, Counters
<1>4. PreviewTyped'
  BY <1>1, <1>2, <1>3 DEF PreviewTyped, LinksTyped, QueueTyped, WorkersTyped, SweepTyped, HandlersTyped
<1>5. \A j \in Ids : Good(j)' => Good(j)  BY <1>1 DEF Good
<1>6. WorkKnown' /\ SlotsMatch' /\ AnswersCurrent' /\ AllCovered'  BY <1>1, <1>4, <1>5, UserWrites
<1>7. ImagesOwned'  BY <1>1, <1>2 DEF PvInv, ImagesOwned, Publishing
<1>8. ObjectsKept'  BY <1>1, <1>2, <1>3, <1>4, ObjectsStay DEF PvInv, PreviewTyped
<1>9. QED  BY <1>4, <1>6, <1>7, <1>8 DEF PvInv

-----------------------------------------------------------------------------

\* A step that writes no row changes no version, no answer and no image.
LEMMA RowsKept ==
    ASSUME PvInv, UNCHANGED <<pv, rows>>
    PROVE  LinksTyped' /\ Moves /\ AnswersCurrent' /\ (\A id \in Ids : \A work : Snap(id, work) <=> Snap(id, work)')
BY SameScenario DEF PvInv, PreviewTyped, LinksTyped, Moves, RowMoves, AnswersCurrent, Snap

\* Images and objects, where a step touches none and no worker starts or ends a publish.
LEMMA ImagesKept ==
    ASSUME PvInv, UNCHANGED <<pv, rows, trash, keys, objects>>, left'.losses = left.losses,
           \A w \in Pool : Publishing(w)' => Publishing(w) /\ worker'[w].key = worker[w].key,
           manual' \in {manual, NoCapture}
    PROVE  ImagesOwned' /\ ObjectsKept'
<1>1. LinksTyped' /\ Moves /\ PreviewTyped  BY RowsKept DEF PvInv
<1>2. ImagesOwned'  BY <1>1, ImagesStay DEF PvInv
<1>3. ObjectsKept'  BY SameScenario DEF PvInv, ObjectsKept
<1>4. QED  BY <1>2, <1>3

\* A channel or a place that enqueue changed matches.
LEMMA EnqueueMatches ==
    ASSUME PvInv, NEW job \in Requests, NEW explicit \in BOOLEAN, enqueue(job, explicit), UNCHANGED <<pv, rows, worker>>
    PROVE  QueueTyped' /\ SlotsMatch' /\ (\A i \in DOMAIN jobs : i \in DOMAIN jobs' /\ jobs'[i] = jobs[i])
           /\ \A i \in DOMAIN jobs' : i \in DOMAIN jobs \/ jobs'[i] = job
<1>1. LinksTyped /\ QueueTyped /\ job.id \in Ids /\ job.claimed \in BOOLEAN /\ Ids' = Ids /\ Pool' = Pool /\ Requests' = Requests
  BY SameScenario DEF PvInv, PreviewTyped, Requests
<1>2. \A w \in Pool : Busy(w)' <=> Busy(w)  BY DEF Busy
<1>3. CASE /\ scheduled[job.id].in
           /\ \A id \in Ids : id # job.id => scheduled'[id] = scheduled[id]
           /\ scheduled' \in [Ids -> Slots] /\ scheduled'[job.id].in
           /\ scheduled'[job.id].running = scheduled[job.id].running /\ scheduled'[job.id].recovery = scheduled[job.id].recovery
           /\ UNCHANGED <<jobs, recovery>>
  <2>1. \A id \in Ids : /\ scheduled'[id].in = scheduled[id].in \/ (scheduled[id].in /\ scheduled'[id].in)
                        /\ scheduled'[id].running = scheduled[id].running /\ scheduled'[id].recovery = scheduled[id].recovery
    BY <1>3
  <2>2. \A i \in DOMAIN jobs : jobs[i].id \in Ids  BY <1>1, JobsTyped
  <2>3. \A w \in Pool : Busy(w) => worker[w].id \in Ids  BY DEF PvInv, PreviewTyped, WorkersTyped, Busy
  <2>4. \A i \in DOMAIN jobs : LET s == scheduled'[jobs[i].id] IN s.in /\ ~s.running /\ s.recovery = jobs[i].claimed
    BY <2>1, <2>2 DEF PvInv, SlotsMatch
  <2>5. \A w \in Pool : Busy(w) => LET s == scheduled'[worker[w].id]
                                   IN s.in /\ s.recovery = worker[w].claimed /\ (s.running <=> worker[w].pc # "start")
    BY <2>1, <2>3 DEF PvInv, SlotsMatch
  <2>6. \A id \in Ids : scheduled'[id].in => scheduled[id].in  BY <2>1, <1>3
  <2>7. SlotsMatch'  BY <1>1, <1>2, <1>3, <2>4, <2>5, <2>6 DEF PvInv, SlotsMatch
  <2>8. QED  BY <1>1, <1>3, <2>7 DEF QueueTyped
<1>4. CASE /\ ~scheduled[job.id].in /\ Room
           /\ \A id \in Ids : id # job.id => scheduled'[id] = scheduled[id]
           /\ scheduled' \in [Ids -> Slots] /\ scheduled'[job.id].in
           /\ ~scheduled'[job.id].running /\ scheduled'[job.id].recovery = job.claimed
           /\ jobs' = Append(jobs, job) /\ recovery' = recovery
  <2> DEFINE n == Len(jobs) + 1
  <2>1. /\ jobs' \in Seq(Requests) /\ n \in DOMAIN jobs' /\ jobs'[n] = job /\ n \notin DOMAIN jobs
        /\ \A i \in DOMAIN jobs : i \in DOMAIN jobs' /\ jobs'[i] = jobs[i]
        /\ \A i \in DOMAIN jobs' : i \in DOMAIN jobs \/ i = n
    <3>1. jobs \in Seq(Requests)  BY <1>1 DEF QueueTyped
    <3>2. QED  BY <1>4, <3>1, AppendOf
  <2> HIDE DEF n
  <2>2. \A i \in DOMAIN jobs : jobs[i].id \in Ids /\ jobs[i].id # job.id
    <3>1. \A i \in DOMAIN jobs : jobs[i].id \in Ids  BY <1>1, JobsTyped
    <3>2. \A i \in DOMAIN jobs : scheduled[jobs[i].id].in  BY DEF PvInv, SlotsMatch
    <3>3. QED  BY <1>4, <3>1, <3>2
  <2>3. \A w \in Pool : Busy(w) => worker[w].id \in Ids /\ worker[w].id # job.id
    <3>1. \A w \in Pool : Busy(w) => worker[w].id \in Ids  BY DEF PvInv, PreviewTyped, WorkersTyped, Busy
    <3>2. \A w \in Pool : Busy(w) => scheduled[worker[w].id].in  BY DEF PvInv, SlotsMatch
    <3>3. QED  BY <1>4, <3>1, <3>2
  <2>4. \A i \in DOMAIN jobs' : LET s == scheduled'[jobs'[i].id] IN s.in /\ ~s.running /\ s.recovery = jobs'[i].claimed
    BY <1>4, <2>1, <2>2 DEF PvInv, SlotsMatch
  <2>5. \A w \in Pool : Busy(w) => LET s == scheduled'[worker[w].id]
                                   IN s.in /\ s.recovery = worker[w].claimed /\ (s.running <=> worker[w].pc # "start")
    BY <1>4, <2>3 DEF PvInv, SlotsMatch
  <2>6. \A i, j \in DOMAIN jobs' : jobs'[i].id = jobs'[j].id => i = j  BY <2>1, <2>2 DEF PvInv, SlotsMatch
  <2>7. \A i \in DOMAIN jobs' : \A w \in Pool : Busy(w) => jobs'[i].id # worker[w].id
    BY <2>1, <2>3 DEF PvInv, SlotsMatch
  <2>8. ASSUME NEW id \in Ids, scheduled'[id].in
        PROVE  (\E i \in DOMAIN jobs' : jobs'[i].id = id) \/ (\E w \in Pool : Busy(w) /\ worker[w].id = id)
    <3>1. CASE id = job.id  BY <2>1, <3>1
    <3>2. CASE id # job.id
      <4>1. (\E i \in DOMAIN jobs : jobs[i].id = id) \/ (\E w \in Pool : Busy(w) /\ worker[w].id = id)
        BY <1>4, <2>8, <3>2 DEF PvInv, SlotsMatch
      <4>2. QED  BY <2>1, <4>1
    <3>3. QED  BY <3>1, <3>2
  <2>9. \A w, v \in Pool : Busy(w) /\ Busy(v) /\ worker[w].id = worker[v].id => w = v  BY DEF PvInv, SlotsMatch
  <2>10. SlotsMatch'  BY <1>1, <1>2, <2>4, <2>5, <2>6, <2>7, <2>8, <2>9 DEF SlotsMatch
  <2>11. QED  BY <1>1, <1>4, <2>1, <2>10 DEF QueueTyped
<1>5. CASE recovery' \in [needed : BOOLEAN, wake : BOOLEAN] /\ UNCHANGED <<jobs, scheduled>>
  <2>1. SlotsMatch'  BY <1>5, SlotsStay DEF PvInv
  <2>2. QED  BY <1>1, <1>5, <2>1 DEF QueueTyped
<1>6. QED  BY <1>1, <1>3, <1>4, <1>5, EnqueueEffect

\* Where the place of a link that is not running was not claimed by a sweep, a job waits that will read its row.
LEMMA UnclaimedWaits ==
    ASSUME PvInv, NEW id \in Ids, scheduled[id].in, ~scheduled[id].running, ~scheduled[id].recovery
    PROVE  (\E i \in DOMAIN jobs : jobs[i].id = id /\ ~jobs[i].claimed)
           \/ \E w \in Pool : worker[w].pc = "start" /\ worker[w].id = id /\ ~worker[w].claimed
<1>1. CASE \E i \in DOMAIN jobs : jobs[i].id = id
  <2>1. PICK i \in DOMAIN jobs : jobs[i].id = id  BY <1>1
  <2>2. jobs[i] \in Requests  BY ElementOfSeq DEF PvInv, PreviewTyped, QueueTyped
  <2>3. jobs[i].claimed \in BOOLEAN  BY <2>2 DEF Requests
  <2>4. scheduled[id].recovery = jobs[i].claimed  BY <2>1 DEF PvInv, SlotsMatch
  <2>5. QED  BY <2>1, <2>3, <2>4
<1>2. CASE \E w \in Pool : Busy(w) /\ worker[w].id = id
  <2>1. PICK w \in Pool : Busy(w) /\ worker[w].id = id  BY <1>2
  <2>2. scheduled[id].recovery = worker[w].claimed /\ (scheduled[id].running <=> worker[w].pc # "start")
    BY <2>1 DEF PvInv, SlotsMatch
  <2>3. worker[w].claimed \in BOOLEAN  BY DEF PvInv, PreviewTyped, WorkersTyped, Jobs
  <2>4. QED  BY <2>1, <2>2, <2>3
<1>3. QED  BY <1>1, <1>2 DEF PvInv, SlotsMatch

\* A request reaches the channel, the slot of its link, or a full channel.
LEMMA EnqueueKeeps == ASSUME PvInv, NEW id \in Ids, Enqueue(id)  PROVE PvInv'
<1>1. /\ waiting' = [waiting EXCEPT ![id] = waiting[id] - 1] /\ waiting[id] > 0
      /\ dropped' = IF ~scheduled[id].in /\ ~Room THEN dropped \cup {id} ELSE dropped
      /\ UNCHANGED <<pv, rows, worker, sweep, manual, trash, objects, keys, stalled, left>>
  BY DEF Enqueue, bucket
<1>2. PICK job : job = [id |-> id, claimed |-> FALSE, work |-> <<>>]  OBVIOUS
<1>3. job \in Requests /\ job.id = id /\ job.claimed = FALSE  BY <1>2 DEF Requests
<1>4. enqueue(job, TRUE)  BY <1>2 DEF Enqueue
<1>5. PreviewTyped /\ LinksTyped /\ QueueTyped /\ Ids' = Ids /\ Pool' = Pool /\ Requests' = Requests
  BY <1>1, SameScenario DEF PvInv, PreviewTyped
<1>6. QueueTyped' /\ SlotsMatch' /\ (\A i \in DOMAIN jobs : i \in DOMAIN jobs' /\ jobs'[i] = jobs[i])
      /\ \A i \in DOMAIN jobs' : i \in DOMAIN jobs \/ jobs'[i] = job
  BY <1>1, <1>3, <1>4, EnqueueMatches
<1>7. waiting' \in [Ids -> Nat]  BY <1>1, <1>5 DEF PreviewTyped, HandlersTyped
<1>8. PreviewTyped'
  BY <1>1, <1>5, <1>6, <1>7 DEF PreviewTyped, LinksTyped, WorkersTyped, SweepTyped, HandlersTyped
<1>9. LinksTyped' /\ Moves /\ AnswersCurrent'  BY <1>1, RowsKept
<1>10. WorkKnown'
  <2>1. \A i \in DOMAIN jobs' : jobs'[i].claimed => \E j \in DOMAIN jobs : jobs[j] = jobs'[i]  BY <1>3, <1>6
  <2>2. QED  BY <1>1, <1>5, <1>8, <1>9, <2>1, NextWork DEF PvInv
<1>11. ImagesOwned' /\ ObjectsKept'  BY <1>1, ImagesKept DEF Publishing
<1>12. ASSUME NEW j \in Ids, j # id  PROVE Covered(j)'
  <2>1. scheduled'[j] = scheduled[j] /\ (recovery' = recovery \/ (recovery'.needed /\ jobs' # <<>> /\ recovery'.wake = recovery.wake))
        /\ (jobs # <<>> => jobs' # <<>>)
    <3>1. jobs' = Append(jobs, job) => jobs' # <<>>  BY <1>3, <1>5, AppendOf DEF QueueTyped
    <3>2. QED  BY <1>3, <1>4, <1>5, <1>12, <3>1, EnqueueEffect
  <2>2. Recovering(j) => Recovering(j)'  BY <1>1, <2>1 DEF Recovering, Fresh
  <2>3. Good(j)' => Good(j)  BY <1>1, <1>5, <1>7, <1>12 DEF Good, PreviewTyped, HandlersTyped
  <2>4. Covered(j)  BY DEF PvInv, AllCovered
  <2>5. QED  BY <1>1, <1>6, <2>1, <2>2, <2>3, <2>4, CoverStays
<1>13. Covered(id)'
  <2>1. CASE ~scheduled[id].in /\ ~Room  BY <1>1, <2>1 DEF Covered, Good
  <2>2. CASE ~scheduled[id].in /\ Room
    <3>1. scheduled'[id].in /\ jobs' = Append(jobs, job)  BY <1>3, <1>4, <1>5, <2>2, EnqueueEffect
    <3>2. PICK i \in DOMAIN jobs' : jobs'[i] = job  BY <1>3, <1>5, <3>1, AppendOf DEF QueueTyped
    <3>3. Scheduled(id)'  BY <1>3, <3>2 DEF Scheduled, Fresh
    <3>4. QED  BY <3>1, <3>3 DEF Covered
  <2>3. CASE scheduled[id].in
    <3>1. scheduled'[id].in /\ UNCHANGED jobs
          /\ scheduled'[id].rerun = (scheduled[id].rerun \/ (scheduled[id].running \/ scheduled[id].recovery))
      BY <1>3, <1>4, <1>5, <2>3, EnqueueEffect
    <3>2. CASE scheduled[id].running \/ scheduled[id].recovery
      <4>1. Scheduled(id)'  BY <3>1, <3>2 DEF Scheduled
      <4>2. QED  BY <3>1, <4>1 DEF Covered
    <3>3. CASE ~scheduled[id].running /\ ~scheduled[id].recovery
      <4>1. CASE \E i \in DOMAIN jobs : jobs[i].id = id /\ ~jobs[i].claimed
        <5>1. Scheduled(id)'  BY <3>1, <4>1 DEF Scheduled, Fresh
        <5>2. QED  BY <3>1, <5>1 DEF Covered
      <4>2. CASE \E w \in Pool : worker[w].pc = "start" /\ worker[w].id = id /\ ~worker[w].claimed
        <5>1. PICK w \in Pool : worker[w].pc = "start" /\ worker[w].id = id /\ ~worker[w].claimed  BY <4>2
        <5>2. Works(w, id)'  BY <1>1, <5>1 DEF Works, Fresh
        <5>3. Scheduled(id)'  BY <1>5, <5>2 DEF Scheduled
        <5>4. QED  BY <3>1, <5>3 DEF Covered
      <4>3. QED  BY <2>3, <3>3, <4>1, <4>2, UnclaimedWaits
    <3>4. QED  BY <3>2, <3>3
  <2>4. QED  BY <2>1, <2>2, <2>3
<1>14. AllCovered'  BY <1>5, <1>12, <1>13 DEF AllCovered
<1>15. QED  BY <1>6, <1>8, <1>9, <1>10, <1>11, <1>14 DEF PvInv

\* The sweep starts, or notes that the channel has no place.
LEMMA RequeueKeeps == ASSUME PvInv, requeuePending  PROVE PvInv'
<1>1. /\ sweep.pc = "idle"
      /\ UNCHANGED <<pv, rows, jobs, scheduled, worker, handlers, objects, keys, missed, left>>
      /\ UNCHANGED <<waiting, manual, trash, stalled, dropped>>
  BY DEF requeuePending, handlers, bucket, missed
<1>2. PreviewTyped /\ LinksTyped /\ QueueTyped /\ Ids' = Ids /\ Pool' = Pool /\ Requests' = Requests
  BY <1>1, SameScenario DEF PvInv, PreviewTyped
<1>3. /\ recovery' \in [needed : BOOLEAN, wake : BOOLEAN] /\ SweepTyped'
      /\ (~Room /\ recovery'.needed /\ sweep' = sweep) \/ (sweep'.pc = "query" /\ sweep'.todo = {})
  <2>1. PICK woken : woken = [recovery EXCEPT !.wake = FALSE]  OBVIOUS
  <2>2. woken \in [needed : BOOLEAN, wake : BOOLEAN]  BY <1>2, <2>1 DEF QueueTyped
  <2>3. PICK required : required = [woken EXCEPT !.needed = TRUE]  OBVIOUS
  <2>4. required \in [needed : BOOLEAN, wake : BOOLEAN] /\ required.needed  BY <2>2, <2>3
  <2>5. Cardinality({id \in Ids : scheduled[id].in}) \in Nat
    <3>1. {id \in Ids : scheduled[id].in} \subseteq Ids /\ IsFiniteSet(Ids)  BY <1>2, ScenarioFacts
    <3>2. QED  BY <3>1, FS_Subset, FS_CardinalityType
  <2>6. Len(jobs) \in Nat /\ pv.workers \in Nat  BY <1>2, ScenarioFacts, LenProperties DEF QueueTyped
  <2>7. recoveryQueryLimit \in Nat /\ (recoveryQueryLimit = 0 => ~Room)
    BY <2>5, <2>6 DEF recoveryQueryLimit, Room
  <2>8. PICK s : s = [Asleep EXCEPT !.pc = "query", !.limit = recoveryQueryLimit]  OBVIOUS
  <2>9. s.pc = "query" /\ s.todo = {} /\ s \in [pc : {"idle", "query", "refill"}, limit : Nat, todo : SUBSET Requests, full : BOOLEAN]
    BY <2>7, <2>8 DEF Asleep
  <2>10. IF recoveryQueryLimit = 0 THEN recovery' = required /\ sweep' = sweep ELSE recovery' = woken /\ sweep' = s
    BY <2>1, <2>3, <2>8 DEF requeuePending
  <2>11. SweepTyped'  BY <1>2, <2>9, <2>10 DEF PreviewTyped, SweepTyped
  <2>12. QED  BY <2>2, <2>4, <2>7, <2>9, <2>10, <2>11
<1>4. PreviewTyped'
  BY <1>1, <1>2, <1>3 DEF PreviewTyped, LinksTyped, QueueTyped, WorkersTyped, HandlersTyped
<1>5. LinksTyped' /\ Moves /\ AnswersCurrent'  BY <1>1, RowsKept
<1>6. WorkKnown'
  <2>1. \A t \in sweep'.todo : t \in sweep.todo  BY <1>3
  <2>2. QED  BY <1>1, <1>2, <1>4, <1>5, <2>1, NextWork DEF PvInv
<1>7. SlotsMatch'  BY <1>1, SlotsStay DEF PvInv
<1>8. ImagesOwned' /\ ObjectsKept'  BY <1>1, ImagesKept DEF Publishing
<1>9. ASSUME NEW id \in Ids  PROVE Covered(id)'
  <2>1. Recovering(id)'
    <3>1. ~Room => jobs # <<>>  BY <1>2, FullChannel
    <3>2. QED  BY <1>1, <1>3, <3>1 DEF Recovering
  <2>2. Good(id)' => Good(id)  BY <1>1 DEF Good
  <2>3. \A t \in sweep'.todo : t.id = id => t \in sweep.todo  BY <1>3
  <2>4. Covered(id)  BY DEF PvInv, AllCovered
  <2>5. QED  BY <1>1, <2>1, <2>2, <2>3, <2>4, CoverStays
<1>10. AllCovered'  BY <1>2, <1>9 DEF AllCovered
<1>11. QED  BY <1>4, <1>5, <1>6, <1>7, <1>8, <1>10 DEF PvInv

\* The request a sweep makes of a row.
LEMMA ClaimedRow ==
    ASSUME NEW id \in Ids, NEW work \in LinkRows
    PROVE  LET t == [id |-> id, claimed |-> TRUE, work |-> work] IN t \in Requests /\ t.id = id /\ t.claimed /\ t.work = work
BY DEF Requests

\* The sweep reads the first pending rows, or fails, and then they wait for the ticker.
LEMMA QueryKeeps == ASSUME PvInv, SystemPendingPreviews  PROVE PvInv'
<1>1. /\ sweep.pc = "query"
      /\ UNCHANGED <<pv, rows, queue, worker, handlers, bucket, dropped>>
      /\ UNCHANGED <<jobs, scheduled, recovery, waiting, manual, trash, objects, keys>>
  BY DEF SystemPendingPreviews, queue, handlers, bucket
<1>2. PreviewTyped /\ LinksTyped /\ QueueTyped /\ Ids' = Ids /\ Pool' = Pool /\ Requests' = Requests
  BY <1>1, SameScenario DEF PvInv, PreviewTyped
<1> DEFINE Read == {[id |-> id, claimed |-> TRUE, work |-> rows[id]] : id \in firstPending(sweep.limit)}
<1>3. PICK full \in BOOLEAN : full <=> Cardinality(Pending) >= sweep.limit  OBVIOUS
<1>4. \/ sweep' = [sweep EXCEPT !.pc = "refill", !.full = full, !.todo = Read] /\ UNCHANGED <<stalled, left>>
      \/ Spend("faults") /\ stalled' = stalled \cup Pending /\ sweep' = Asleep
  <2>1. full = (Cardinality(Pending) >= sweep.limit)  BY <1>3
  <2>2. QED  BY <2>1 DEF SystemPendingPreviews
<1>5. left' \in [Counters -> Nat] /\ left'.losses = left.losses
  BY <1>2, <1>4, Spending DEF PreviewTyped, HandlersTyped, Counters
<1>6. \A t \in Read : t \in Requests /\ t.claimed /\ t.work = rows[t.id]
  <2>1. \A id \in firstPending(sweep.limit) : id \in Ids /\ rows[id] \in LinkRows
    BY <1>2 DEF firstPending, Pending, LinksTyped
  <2>2. QED  BY <2>1, ClaimedRow
<1> HIDE DEF Read
<1>7. SweepTyped' /\ (sweep' = Asleep \/ (sweep'.pc = "refill" /\ sweep'.todo = Read /\ sweep'.full = full))
  <2>1. sweep \in [pc : {"idle", "query", "refill"}, limit : Nat, todo : SUBSET Requests, full : BOOLEAN] /\ Read \in SUBSET Requests
    BY <1>2, <1>6 DEF PreviewTyped, SweepTyped
  <2>2. CASE sweep' = [sweep EXCEPT !.pc = "refill", !.full = full, !.todo = Read]  BY <1>2, <2>1, <2>2 DEF SweepTyped
  <2>3. CASE sweep' = Asleep  BY <1>2, <2>3 DEF SweepTyped, Asleep
  <2>4. QED  BY <1>4, <2>2, <2>3
<1>8. PreviewTyped'
  BY <1>1, <1>2, <1>5, <1>7 DEF PreviewTyped, LinksTyped, QueueTyped, WorkersTyped, HandlersTyped
<1>9. LinksTyped' /\ Moves /\ AnswersCurrent'  BY <1>1, RowsKept
<1>10. WorkKnown'
  <2>1. \A t \in Read : t.claimed /\ Snap(t.id, t.work)'
    BY <1>1, <1>2, <1>6 DEF Snap, LinksTyped, LinkRows, Requests
  <2>2. \A t \in sweep'.todo : t.claimed /\ Snap(t.id, t.work)'  BY <1>7, <2>1 DEF Asleep
  <2>3. QED  BY <1>1, <1>2, <1>8, <1>9, <2>2, NextWork DEF PvInv
<1>11. SlotsMatch'  BY <1>1, SlotsStay DEF PvInv
<1>12. ImagesOwned' /\ ObjectsKept'  BY <1>1, <1>5, ImagesKept DEF Publishing
<1>13. ASSUME NEW id \in Ids  PROVE Covered(id)'
  <2> SUFFICES ASSUME Good(id)'  PROVE IF scheduled[id].in THEN Scheduled(id)' ELSE TodoFresh(id)' /\ Recovering(id)'
    BY <1>1 DEF Covered
  <2>1. Good(id) /\ id \in Pending /\ id \notin stalled'  BY <1>1, <1>4 DEF Good, Pending
  <2>2. CASE scheduled[id].in
    <3>1. Scheduled(id)  BY <2>1, <2>2 DEF PvInv, AllCovered, Covered
    <3>2. QED  BY <1>1, <2>2, <3>1, ScheduledStays
  <2>3. CASE ~scheduled[id].in
    <3>1. sweep'.pc = "refill" /\ sweep'.todo = Read /\ sweep'.full = full
      <4>1. sweep' # Asleep
        <5>1. sweep' = [sweep EXCEPT !.pc = "refill", !.full = full, !.todo = Read]  BY <1>4, <2>1
        <5>2. sweep'.pc = "refill"  BY <1>2, <5>1 DEF PreviewTyped, SweepTyped
        <5>3. QED  BY <5>2 DEF Asleep
      <4>2. QED  BY <1>7, <4>1
    <3>2. TodoFresh(id)'  BY <1>1, <1>6, <3>1 DEF TodoFresh, Fresh
    <3>3. CASE full  BY <2>3, <3>1, <3>2, <3>3 DEF Recovering
    <3>4. CASE ~full
      <4>1. IsFiniteSet(Pending) /\ {j \in Pending : j < id} \subseteq Pending
        BY <1>2, ScenarioFacts, FS_Subset DEF Pending
      <4>2. /\ Cardinality(Pending) \in Nat /\ Cardinality({j \in Pending : j < id}) \in Nat
            /\ Cardinality({j \in Pending : j < id}) <= Cardinality(Pending)
        BY <4>1, FS_Subset, FS_CardinalityType
      <4>3. sweep.limit \in Nat  BY <1>2 DEF PreviewTyped, SweepTyped
      <4>4. id \in firstPending(sweep.limit)
        <5>1. ~(Cardinality(Pending) >= sweep.limit)  BY <1>3, <3>4
        <5>2. Cardinality({j \in Pending : j < id}) < sweep.limit  BY <4>2, <4>3, <5>1
        <5>3. QED  BY <2>1, <5>2 DEF firstPending
      <4>5. PICK t : t = [id |-> id, claimed |-> TRUE, work |-> rows[id]]  OBVIOUS
      <4>6. t \in Read /\ t.id = id  BY <4>4, <4>5 DEF Read
      <4>7. Fresh(id, t)'  BY <3>1, <3>2, <4>6 DEF TodoFresh
      <4>8. QED  BY <2>3, <3>1, <3>2, <4>6, <4>7 DEF Recovering
    <3>5. QED  BY <2>3, <3>2, <3>3, <3>4
  <2>4. QED  BY <2>2, <2>3
<1>14. AllCovered'  BY <1>2, <1>13 DEF AllCovered
<1>15. QED  BY <1>8, <1>9, <1>10, <1>11, <1>12, <1>14 DEF PvInv

\* The sweep puts a row in the channel, or finds it full and ends its round.
LEMMA RefillKeeps == ASSUME PvInv, enqueueRecovered  PROVE PvInv'
<1>1. PICK job \in sweep.todo :
         /\ enqueue(job, FALSE)
         /\ sweep' = [sweep EXCEPT !.todo = IF scheduled[job.id].in \/ Room THEN sweep.todo \ {job} ELSE {}]
  BY DEF enqueueRecovered
<1>2. /\ sweep.pc = "refill"
      /\ UNCHANGED <<pv, rows, worker, handlers, bucket, missed, left>>
      /\ UNCHANGED <<waiting, manual, trash, objects, keys, stalled, dropped>>
  BY DEF enqueueRecovered, handlers, bucket, missed
<1>3. PreviewTyped /\ LinksTyped /\ QueueTyped /\ Ids' = Ids /\ Pool' = Pool /\ Requests' = Requests
  BY <1>2, SameScenario DEF PvInv, PreviewTyped
<1>4. job \in Requests /\ job.id \in Ids /\ job.claimed
  <2>1. job \in Requests  BY <1>1, <1>3 DEF PreviewTyped, SweepTyped
  <2>2. QED  BY <1>1, <2>1 DEF PvInv, WorkKnown, Requests
<1>5. /\ SweepTyped' /\ sweep'.pc = "refill" /\ sweep'.full = sweep.full
      /\ sweep'.todo = IF scheduled[job.id].in \/ Room THEN sweep.todo \ {job} ELSE {}
  <2>1. PICK todo : todo = IF scheduled[job.id].in \/ Room THEN sweep.todo \ {job} ELSE {}  OBVIOUS
  <2>2. sweep' = [sweep EXCEPT !.todo = todo]  BY <1>1, <2>1
  <2>3. todo \subseteq sweep.todo  BY <2>1
  <2>4. sweep' \in [pc : {"idle", "query", "refill"}, limit : Nat, todo : SUBSET Requests, full : BOOLEAN]
        /\ sweep'.pc = "refill" /\ sweep'.full = sweep.full /\ sweep'.todo = todo
    BY <1>2, <1>3, <2>2, <2>3 DEF PreviewTyped, SweepTyped
  <2>5. QED  BY <1>3, <2>1, <2>4 DEF SweepTyped
<1>6. QueueTyped' /\ SlotsMatch' /\ (\A i \in DOMAIN jobs : i \in DOMAIN jobs' /\ jobs'[i] = jobs[i])
      /\ \A i \in DOMAIN jobs' : i \in DOMAIN jobs \/ jobs'[i] = job
  BY <1>1, <1>2, <1>4, EnqueueMatches
<1>7. PreviewTyped'
  BY <1>2, <1>3, <1>5, <1>6 DEF PreviewTyped, LinksTyped, WorkersTyped, HandlersTyped
<1>8. LinksTyped' /\ Moves /\ AnswersCurrent'  BY <1>2, RowsKept
<1>9. WorkKnown'
  <2>1. \A i \in DOMAIN jobs' : (\E j \in DOMAIN jobs : jobs[j] = jobs'[i]) \/ jobs'[i] \in sweep.todo  BY <1>1, <1>6
  <2>2. \A t \in sweep'.todo : t \in sweep.todo  BY <1>5
  <2>3. QED  BY <1>2, <1>3, <1>7, <1>8, <2>1, <2>2, NextWork DEF PvInv
<1>10. ImagesOwned' /\ ObjectsKept'  BY <1>2, ImagesKept DEF Publishing
<1>11. /\ \A j \in Ids : j # job.id => scheduled'[j] = scheduled[j]
       /\ recovery' = recovery \/ (recovery'.needed /\ recovery'.wake = recovery.wake /\ jobs' # <<>>)
       /\ (jobs # <<>> => jobs' # <<>>)
  <2>1. jobs' = Append(jobs, job) => jobs' # <<>>  BY <1>3, <1>4, AppendOf DEF QueueTyped
  <2>2. QED  BY <1>1, <1>3, <1>4, <2>1, EnqueueEffect
<1>12. ~scheduled[job.id].in /\ ~Room => recovery'.needed /\ jobs' # <<>>
  BY <1>1, <1>3, <1>4, EnqueueEffect
<1>13. ASSUME NEW j \in Ids, j # job.id  PROVE Covered(j)'
  <2>1. CASE sweep'.todo = sweep.todo \ {job}
    <3>1. \A t \in sweep.todo : Fresh(j, t) => t \in sweep'.todo  BY <1>13, <2>1 DEF Fresh
    <3>2. Recovering(j) => Recovering(j)'  BY <1>2, <1>5, <1>11, <3>1 DEF Recovering, Fresh
    <3>3. QED  BY <1>2, <1>6, <1>11, <1>13, <2>1, <3>2, CoverStays DEF PvInv, AllCovered, Good
  <2>2. CASE ~scheduled[job.id].in /\ ~Room /\ sweep'.todo = {}
    <3>1. Recovering(j)'  BY <1>12, <2>2 DEF Recovering
    <3>2. QED  BY <1>2, <1>6, <1>11, <1>13, <2>2, <3>1, CoverStays DEF PvInv, AllCovered, Good
  <2>3. QED  BY <1>5, <2>1, <2>2
<1>14. Covered(job.id)'
  <2> SUFFICES ASSUME Good(job.id)'
               PROVE  IF scheduled'[job.id].in THEN Scheduled(job.id)' ELSE TodoFresh(job.id)' /\ Recovering(job.id)'
    BY DEF Covered
  <2>1. Good(job.id) /\ Covered(job.id)  BY <1>2, <1>4 DEF Good, PvInv, AllCovered
  <2>2. CASE scheduled[job.id].in
    <3>1. scheduled'[job.id].in /\ UNCHANGED jobs /\ scheduled'[job.id].rerun = scheduled[job.id].rerun
      <4>1. \/ scheduled'[job.id].in /\ UNCHANGED jobs
               /\ scheduled'[job.id].rerun = (scheduled[job.id].rerun \/ (FALSE /\ (scheduled[job.id].running \/ scheduled[job.id].recovery)))
            \/ ~scheduled[job.id].in
        BY <1>1, <1>3, <1>4, EnqueueEffect
      <4>2. scheduled[job.id].rerun \in BOOLEAN  BY <1>3, <1>4 DEF QueueTyped, Slots
      <4>3. QED  BY <2>2, <4>1, <4>2
    <3>2. Scheduled(job.id)  BY <2>1, <2>2 DEF Covered
    <3>3. Scheduled(job.id)'  BY <1>2, <1>4, <3>1, <3>2, ScheduledStays
    <3>4. QED  BY <3>1, <3>3
  <2>3. CASE ~scheduled[job.id].in /\ Room
    <3>1. scheduled'[job.id].in /\ jobs' = Append(jobs, job)  BY <1>1, <1>3, <1>4, <2>3, EnqueueEffect
    <3>2. PICK i \in DOMAIN jobs' : jobs'[i] = job  BY <1>3, <1>4, <3>1, AppendOf DEF QueueTyped
    <3>3. Fresh(job.id, job)  BY <1>1, <2>1, <2>3 DEF Covered, TodoFresh
    <3>4. Fresh(job.id, job)'  BY <1>2, <3>3 DEF Fresh
    <3>5. Scheduled(job.id)'  BY <1>2, <3>2, <3>4 DEF Scheduled, Fresh
    <3>6. QED  BY <3>1, <3>5
  <2>4. CASE ~scheduled[job.id].in /\ ~Room
    <3>1. UNCHANGED scheduled /\ recovery'.needed /\ jobs' # <<>> /\ sweep'.todo = {}
      BY <1>1, <1>3, <1>4, <1>5, <2>4, EnqueueEffect
    <3>2. QED  BY <2>4, <3>1 DEF TodoFresh, Recovering
  <2>5. QED  BY <2>2, <2>3, <2>4
<1>15. AllCovered'  BY <1>3, <1>13, <1>14 DEF AllCovered
<1>16. QED  BY <1>6, <1>7, <1>8, <1>9, <1>10, <1>15 DEF PvInv

\* A round that read as many rows as it asked for leaves the rest to the next.
LEMMA RefilledKeeps == ASSUME PvInv, refilled  PROVE PvInv'
<1>1. /\ sweep.pc = "refill" /\ sweep.todo = {} /\ sweep' = Asleep
      /\ UNCHANGED <<pv, rows, jobs, scheduled, worker, handlers, objects, keys, missed, left>>
      /\ UNCHANGED <<waiting, manual, trash, stalled, dropped>>
  BY DEF refilled, handlers, bucket, missed
<1>2. PreviewTyped /\ LinksTyped /\ QueueTyped /\ Ids' = Ids /\ Pool' = Pool /\ Requests' = Requests
  BY <1>1, SameScenario DEF PvInv, PreviewTyped
<1>3. /\ recovery' \in [needed : BOOLEAN, wake : BOOLEAN]
      /\ (recovery.needed => recovery'.needed) /\ (recovery.wake => recovery'.wake)
      /\ sweep.full => IF jobs # <<>> THEN recovery'.needed ELSE recovery'.wake
  <2>1. recovery \in [needed : BOOLEAN, wake : BOOLEAN]  BY <1>2 DEF QueueTyped
  <2>2. PICK empty \in BOOLEAN : empty = (jobs = <<>>)  OBVIOUS
  <2>3. PICK req : req = requireRecovery(jobs)  OBVIOUS
  <2>4. req \in [needed : BOOLEAN, wake : BOOLEAN] /\ (req.needed <=> ~empty) /\ (req.wake <=> recovery.wake \/ empty)
    BY <2>1, <2>2, <2>3 DEF requireRecovery
  <2>5. PICK n \in BOOLEAN : n = (req.needed \/ recovery.needed)  OBVIOUS
  <2>6. PICK q : q = [requireRecovery(jobs) EXCEPT !.needed = @ \/ recovery.needed]  OBVIOUS
  <2>7. q = [req EXCEPT !.needed = n]  BY <2>3, <2>5, <2>6
  <2>8. q \in [needed : BOOLEAN, wake : BOOLEAN] /\ q.needed = n /\ q.wake = req.wake  BY <2>4, <2>7
  <2>9. recovery' = IF sweep.full THEN q ELSE recovery  BY <2>6 DEF refilled
  <2>10. CASE sweep.full
    <3>1. recovery' = q  BY <2>9, <2>10
    <3>2. q.needed <=> ~empty \/ recovery.needed  BY <2>4, <2>5, <2>8
    <3>3. QED  BY <2>2, <2>4, <2>8, <3>1, <3>2
  <2>11. CASE ~sweep.full  BY <2>1, <2>9, <2>11
  <2>12. QED  BY <2>10, <2>11
<1>4. SweepTyped'  BY <1>1, <1>2 DEF SweepTyped, Asleep
<1>5. PreviewTyped'
  BY <1>1, <1>2, <1>3, <1>4 DEF PreviewTyped, LinksTyped, QueueTyped, WorkersTyped, HandlersTyped
<1>6. LinksTyped' /\ Moves /\ AnswersCurrent'  BY <1>1, RowsKept
<1>7. \A t \in sweep'.todo : FALSE  BY <1>1 DEF Asleep
<1>8. WorkKnown'  BY <1>1, <1>2, <1>5, <1>6, <1>7, NextWork DEF PvInv
<1>9. SlotsMatch'  BY <1>1, SlotsStay DEF PvInv
<1>10. ImagesOwned' /\ ObjectsKept'  BY <1>1, ImagesKept DEF Publishing
<1>11. ASSUME NEW id \in Ids  PROVE Covered(id)'
  <2>1. Recovering(id) => (recovery.needed /\ jobs # <<>>) \/ recovery.wake \/ sweep.full  BY <1>1 DEF Recovering
  <2>2. (recovery'.needed /\ jobs' # <<>>) \/ recovery'.wake => Recovering(id)'  BY DEF Recovering
  <2>3. Recovering(id) => Recovering(id)'  BY <1>1, <1>3, <2>1, <2>2
  <2>4. QED  BY <1>1, <1>7, <2>3, CoverStays DEF PvInv, AllCovered, Good
<1>12. AllCovered'  BY <1>2, <1>11 DEF AllCovered
<1>13. QED  BY <1>5, <1>6, <1>8, <1>9, <1>10, <1>12 DEF PvInv

\* After a restart nothing is scheduled, and the first sweep is due.
LEMMA RestartKeeps == ASSUME PvInv, restartWorker  PROVE PvInv'
<1>1. /\ Spend("faults") /\ jobs' = <<>> /\ scheduled' = [id \in Ids |-> NotScheduled]
      /\ recovery' = [needed |-> FALSE, wake |-> TRUE] /\ worker' = [w \in Pool |-> Resting] /\ sweep' = Asleep
      /\ waiting' = [id \in Ids |-> 0] /\ manual' = NoCapture /\ trash' = {}
      /\ UNCHANGED <<pv, rows, objects, keys>>
  BY DEF restartWorker, bucket
<1>2. PreviewTyped /\ Ids' = Ids /\ Pool' = Pool /\ Requests' = Requests
  BY <1>1, SameScenario DEF PvInv
<1>3. left' \in [Counters -> Nat] /\ left'.losses = left.losses
  BY <1>1, <1>2, Spending DEF PreviewTyped, HandlersTyped, Counters
<1>4. NotScheduled \in Slots /\ Resting \in Jobs /\ NoCapture \in [id : Nat, upd : Nat, img : Nat]
  BY DEF NotScheduled, Slots, Resting, Jobs, Stages, NoCapture, NoImage
<1>5. Asleep \in [pc : {"idle", "query", "refill"}, limit : Nat, todo : SUBSET Requests, full : BOOLEAN]
  BY DEF Asleep
<1>6. \A w \in Pool : worker'[w].pc = "idle"  BY <1>1 DEF Resting
<1>7. \A id \in Ids : ~scheduled'[id].in  BY <1>1 DEF NotScheduled
<1>8. jobs' \in Seq(Requests) /\ DOMAIN jobs' = {}
  <2>1. <<>> \in Seq(Requests) /\ Len(<<>>) = 0  BY EmptySeq
  <2>2. DOMAIN <<>> = 1..0  BY <2>1
  <2>3. QED  BY <1>1, <2>1, <2>2
<1>9. LinksTyped' /\ Moves /\ AnswersCurrent'  BY <1>1, RowsKept
<1>10. QueueTyped'  BY <1>1, <1>2, <1>4, <1>8 DEF QueueTyped
<1>11. WorkersTyped'  BY <1>1, <1>2, <1>4, <1>6 DEF WorkersTyped
<1>12. PreviewTyped'
  BY <1>1, <1>2, <1>3, <1>4, <1>5, <1>9, <1>10, <1>11 DEF PreviewTyped, SweepTyped, HandlersTyped
<1>13. SlotsMatch'  BY <1>2, <1>6, <1>7, <1>8 DEF SlotsMatch, Busy
<1>14. WorkKnown'  BY <1>1, <1>2, <1>6, <1>8 DEF WorkKnown, Loaded, Bare, Asleep
<1>15. ImagesOwned'  BY <1>1, <1>2, <1>6 DEF PvInv, ImagesOwned, Publishing
<1>16. ObjectsKept'  BY <1>1, <1>2, <1>3, <1>6 DEF PvInv, ObjectsKept, Publishing
<1>17. AllCovered'
  <2>1. ASSUME NEW id \in Ids  PROVE Covered(id)'
    <3>1. Recovering(id)' /\ TodoFresh(id)'  BY <1>1 DEF Recovering, TodoFresh, Asleep
    <3>2. QED  BY <1>7, <3>1 DEF Covered
  <2>2. QED  BY <1>2, <2>1 DEF AllCovered
<1>18. QED  BY <1>9, <1>12, <1>13, <1>14, <1>15, <1>16, <1>17 DEF PvInv

-----------------------------------------------------------------------------

\* A step of a worker with its job that keeps what it stands for, unless its row is done or left to the ticker.
LEMMA JobMoves ==
    ASSUME PvInv, PreviewTyped', NEW w \in Pool, NEW id \in Ids, id = worker[w].id,
           UNCHANGED <<pv, jobs, scheduled, recovery, sweep, waiting, dropped>>, stalled \subseteq stalled',
           \A v \in Pool : v # w => worker'[v] = worker[v],
           worker[w].pc \notin {"idle", "start"}, worker'[w].pc \notin {"idle", "start"},
           worker'[w].id = id, worker'[w].claimed = worker[w].claimed,
           RowMoves(id), \A j \in Ids : j # id => rows'[j] = rows[j], WorkerKnows(w)',
           rows'[id] = rows[id] \/ rows'[id].status = "pending" \/ rows'[id].ans = rows'[id].asked,
           Good(id)' => Good(id) /\ (Works(w, id) => Works(w, id)')
    PROVE  WorkKnown' /\ SlotsMatch' /\ AnswersCurrent' /\ AllCovered'
<1>1. Ids' = Ids /\ Pool' = Pool /\ Requests' = Requests /\ PreviewTyped  BY SameScenario DEF PvInv
<1>2. Moves  BY DEF Moves, RowMoves
<1>3. WorkKnown'
  <2>1. \A v \in Pool : worker'[v] = worker[v] \/ WorkerKnows(v)'  OBVIOUS
  <2>2. QED  BY <1>1, <1>2, <2>1, NextWork DEF PvInv
<1>4. SlotsMatch'  BY <1>1, WorkerAdvances DEF PvInv
<1>5. AnswersCurrent'
  <2>1. \A j \in Ids : rows'[j] = rows[j] \/ rows'[j].status = "pending" \/ rows'[j].ans = rows'[j].asked  OBVIOUS
  <2>2. QED  BY <2>1, AnswersStay DEF PvInv
<1>6. ASSUME NEW j \in Ids, j # id  PROVE Covered(j)'
  <2>1. Good(j)' => Good(j)  BY <1>6 DEF Good
  <2>2. \A v \in Pool : Works(v, j) => worker'[v] = worker[v]
    <3>1. ~Works(w, j)  BY <1>6 DEF Works, Fresh
    <3>2. QED  BY <3>1
  <2>3. rows'[j] = rows[j] /\ Covered(j)  BY <1>6 DEF PvInv, AllCovered
  <2>4. Recovering(j) => Recovering(j)'  BY <2>3, RecoveringStays
  <2>5. QED  BY <2>1, <2>2, <2>3, <2>4, CoverStays
<1>7. Covered(id)'
  <2> SUFFICES ASSUME Good(id)'  PROVE IF scheduled[id].in THEN Scheduled(id)' ELSE TodoFresh(id)' /\ Recovering(id)'
    BY DEF Covered
  <2>1. scheduled[id].in /\ (\A i \in DOMAIN jobs : jobs[i].id # id) /\ \A v \in Pool : Busy(v) /\ worker[v].id = id => v = w
    <3>1. Busy(w)  BY DEF Busy
    <3>2. QED  BY <3>1 DEF PvInv, SlotsMatch
  <2>2. Scheduled(id)  BY <2>1 DEF PvInv, AllCovered, Covered
  <2>3. CASE scheduled[id].rerun  BY <2>1, <2>3 DEF Scheduled
  <2>4. CASE \E v \in Pool : Works(v, id)
    <3>1. PICK v \in Pool : Works(v, id)  BY <2>4
    <3>2. Busy(v) /\ worker[v].id = id  BY <3>1 DEF Works, Fresh, Busy
    <3>3. Works(w, id)'  BY <2>1, <3>1, <3>2
    <3>4. QED  BY <1>1, <2>1, <3>3 DEF Scheduled
  <2>5. CASE \E i \in DOMAIN jobs : Fresh(id, jobs[i])  BY <2>1, <2>5 DEF Fresh
  <2>6. QED  BY <2>2, <2>3, <2>4, <2>5 DEF Scheduled
<1>8. QED  BY <1>1, <1>3, <1>4, <1>5, <1>6, <1>7 DEF AllCovered

\* The worker of a step.
LEMMA WorkerSet ==
    ASSUME WorkersTyped, pv' = pv, NEW w \in Pool, NEW j \in Jobs, j.pc # "idle" => j.id \in Ids, worker' = [worker EXCEPT ![w] = j]
    PROVE  WorkersTyped' /\ worker'[w] = j /\ \A v \in Pool : v # w => worker'[v] = worker[v]
BY SameScenario DEF WorkersTyped

\* A worker's next stage.
LEMMA GoesTo ==
    ASSUME WorkersTyped, NEW w \in Pool, NEW pc \in Stages, NEW j, j = To(w, pc)
    PROVE  /\ j \in Jobs /\ j.pc = pc /\ j.id = worker[w].id /\ j.claimed = worker[w].claimed
           /\ j.work = worker[w].work /\ j.key = worker[w].key
<1>1. worker[w] \in Jobs  BY DEF WorkersTyped
<1>2. j = [worker[w] EXCEPT !.pc = pc]  BY DEF To
<1>3. QED  BY <1>1, <1>2 DEF Jobs

\* The step of a job that publishes nothing.
LEMMA JobSteps ==
    ASSUME PvInv, NEW w \in Pool, NEW id \in Ids, id = worker[w].id, NEW j \in Jobs, worker' = [worker EXCEPT ![w] = j],
           j.id = id, j.claimed = worker[w].claimed,
           worker[w].pc \notin {"idle", "start"}, j.pc \notin {"idle", "start", "publish"},
           UNCHANGED <<pv, queue, sweep, handlers, keys, dropped>>, stalled \subseteq stalled',
           left' \in [Counters -> Nat], left'.losses = left.losses,
           objects' \subseteq objects, \A k \in objects \ objects' : Publishing(w) /\ k = worker[w].key,
           LinksTyped', RowMoves(id), \A i \in Ids : i # id => rows'[i] = rows[i],
           rows'[id].img \in {rows[id].img, NoImage, Remote}, WorkerKnows(w)',
           rows'[id] = rows[id] \/ rows'[id].status = "pending" \/ rows'[id].ans = rows'[id].asked,
           Good(id)' => Good(id) /\ (Works(w, id) => Works(w, id)')
    PROVE  PvInv'
<1>1. Ids' = Ids /\ Pool' = Pool /\ Requests' = Requests /\ PreviewTyped /\ WorkersTyped
  BY SameScenario DEF PvInv, PreviewTyped
<1>2. UNCHANGED <<jobs, scheduled, recovery, waiting, manual, trash>>  BY DEF queue, handlers
<1>3. WorkersTyped' /\ worker'[w] = j /\ \A v \in Pool : v # w => worker'[v] = worker[v]  BY <1>1, WorkerSet
<1>4. objects' \subseteq 2..keys  BY <1>1 DEF PreviewTyped, HandlersTyped
<1>5. PreviewTyped'
  BY <1>1, <1>2, <1>3, <1>4 DEF PreviewTyped, QueueTyped, SweepTyped, HandlersTyped
<1>6. WorkKnown' /\ SlotsMatch' /\ AnswersCurrent' /\ AllCovered'  BY <1>2, <1>3, <1>5, JobMoves
<1>7. Moves  BY DEF Moves, RowMoves
<1>8. \A v \in Pool : Publishing(v)' => v # w /\ Publishing(v) /\ worker'[v].key = worker[v].key  BY <1>3 DEF Publishing
<1>9. \A i \in Ids : rows'[i].img \in {rows[i].img, NoImage, Remote}  OBVIOUS
<1>10. ImagesOwned'  BY <1>1, <1>2, <1>7, <1>8, <1>9, ImagesStay DEF PvInv
<1>11. ASSUME NEW k \in objects \ objects'
       PROVE  (\A i \in Ids : rows'[i].img # k) /\ \A v \in Pool : Publishing(v)' => worker'[v].key # k
  <2>1. Publishing(w) /\ k = worker[w].key  OBVIOUS
  <2>2. k \in 2..keys /\ \A i \in Ids : rows[i].img # k  BY <2>1 DEF PvInv, ImagesOwned
  <2>3. k # NoImage /\ k # Remote  BY <1>1, <2>2 DEF PreviewTyped, HandlersTyped, NoImage, Remote
  <2>4. \A i \in Ids : rows'[i].img # k  BY <1>9, <2>2, <2>3
  <2>5. \A v \in Pool : Publishing(v) /\ worker[v].key = k => v = w  BY <2>1 DEF PvInv, ImagesOwned
  <2>6. QED  BY <1>8, <2>4, <2>5
<1>12. ObjectsKept'
  <2>1. left'.losses \in Nat /\ left.losses \in Nat  BY <1>1 DEF Counters, PreviewTyped, HandlersTyped
  <2>2. left'.losses <= left.losses  BY <2>1
  <2>3. \A i \in Ids : rows'[i].img \in {rows[i].img, NoImage, Remote} \cup objects'  BY <1>9
  <2>4. \A v \in Pool : Publishing(v)' => worker'[v].key \in objects' \/ (Publishing(v) /\ worker'[v].key = worker[v].key)  BY <1>8
  <2>5. QED  BY <1>1, <1>11, <2>1, <2>2, <2>3, <2>4, ObjectsStay DEF PvInv
<1>13. QED  BY <1>5, <1>6, <1>10, <1>12 DEF PvInv

\* A job that has its row.
LEMMA AtWork ==
    ASSUME PvInv, NEW w \in Pool, worker[w].pc \in Loaded
    PROVE  /\ worker[w] \in Jobs /\ worker[w].id \in Ids /\ rows[worker[w].id] \in LinkRows /\ worker[w].work \in LinkRows
           /\ WorkerKnows(w) /\ Snap(worker[w].id, worker[w].work)
           /\ Works(w, worker[w].id) => /\ worker[w].work.gen = Row(w).gen
                                        /\ worker[w].pc # "look" => worker[w].work.upd = Row(w).upd
           /\ Good(worker[w].id) /\ Works(w, worker[w].id) /\ worker[w].pc # "look" => Unchanged(w)
<1>1. worker[w].pc \notin {"idle", "start", "load", "finish"}  BY DEF Loaded
<1>2. worker[w] \in Jobs /\ worker[w].id \in Ids  BY <1>1 DEF PvInv, PreviewTyped, WorkersTyped
<1>3. rows[worker[w].id] \in LinkRows  BY <1>2 DEF PvInv, PreviewTyped, LinksTyped
<1>4. WorkerKnows(w)  BY DEF PvInv, WorkKnown, WorkerKnows
<1>5. Snap(worker[w].id, worker[w].work)  BY <1>4 DEF WorkerKnows
<1>6. Works(w, worker[w].id) => /\ worker[w].work.gen = Row(w).gen
                                /\ worker[w].pc # "look" => worker[w].work.upd = Row(w).upd
  BY <1>1 DEF Works, Row
<1>7. worker[w].work \in LinkRows  BY <1>5 DEF Snap
<1>8. QED  BY <1>2, <1>3, <1>4, <1>5, <1>6, <1>7 DEF Good, Unchanged, Row

\* What a job writes if its row is unchanged is the answer to the row's latest request.
LEMMA AnswerWritten ==
    ASSUME PvInv, NEW w \in Pool, NEW id \in Ids, id = worker[w].id, worker[w].pc \in Loaded, Unchanged(w), pv' = pv,
           NEW st \in Statuses, NEW k \in Nat,
           rows' = [rows EXCEPT ![worker[w].id] = Answer(Row(w), worker[w].work.asked, st, k)],
           st # "pending" \/ k = rows[id].img
    PROVE  /\ LinksTyped' /\ RowMoves(id) /\ rows'[id].status = st /\ rows'[id].img = k /\ rows'[id].ans = rows'[id].asked
           /\ rows'[id].gen = rows[id].gen /\ rows'[id].upd = rows[id].upd + 1
           /\ \A i \in Ids : i # id => rows'[i] = rows[i]
<1>1. rows[id] \in LinkRows /\ worker[w].work \in LinkRows /\ Snap(id, worker[w].work)  BY AtWork
<1>2. worker[w].work.asked = rows[id].asked /\ worker[w].work.asked \in Nat /\ rows[id].status = "pending"
  BY <1>1 DEF Unchanged, Row, Snap, LinkRows
<1>3. PICK r : r = Answer(Row(w), worker[w].work.asked, st, k)  OBVIOUS
<1>4. r \in LinkRows /\ r.upd = rows[id].upd + 1 /\ r.status = st /\ r.img = k /\ r.gen = rows[id].gen
      /\ r.asked = rows[id].asked /\ r.ans = rows[id].asked
  <2>1. PICK a \in Nat : a = worker[w].work.asked  BY <1>2
  <2>2. PICK row \in LinkRows : row = rows[id]  BY <1>1
  <2>3. r = Answer(row, a, st, k)  BY <1>3, <2>1, <2>2 DEF Row
  <2>4. r \in LinkRows /\ r.upd = row.upd + 1 /\ r.status = st /\ r.img = k /\ r.gen = row.gen
        /\ r.asked = row.asked /\ r.ans = a
    BY <2>3, AnswerRow
  <2>5. QED  BY <1>2, <2>1, <2>2, <2>4
<1>5. rows' = [rows EXCEPT ![id] = r]  BY <1>3
<1>6. LinksTyped' /\ rows'[id] = r /\ \A i \in Ids : i # id => rows'[i] = rows[i]
  BY <1>4, <1>5, RowWritten DEF PvInv, PreviewTyped
<1>7. RowMoves(id)
  <2>1. rows'[id].upd > rows[id].upd  BY <1>1, <1>4, <1>6 DEF LinkRows
  <2>2. QED  BY <1>2, <1>4, <1>6, <2>1 DEF RowMoves
<1>8. QED  BY <1>4, <1>6, <1>7

-----------------------------------------------------------------------------

\* A job reads its row, or takes the one the sweep read.
LEMMA LoadKeeps == ASSUME PvInv, NEW w \in Pool, loadPendingPreview(w)  PROVE PvInv'
<1>1. /\ worker[w].pc = "load"
      /\ UNCHANGED <<pv, rows, queue, sweep, handlers, bucket, missed, left>> /\ UNCHANGED <<stalled, dropped, objects, keys, waiting>>
  BY DEF loadPendingPreview, missed, bucket, handlers
<1>2. PICK work : /\ work = IF worker[w].claimed THEN worker[w].work ELSE Row(w)
                  /\ worker' = [worker EXCEPT ![w] = [worker[w] EXCEPT !.work = work,
                        !.pc = IF work.status # "pending" THEN "finish" ELSE IF work.img # NoImage THEN "keep" ELSE "fetch"]]
  BY DEF loadPendingPreview, Becomes
<1>3. PICK pc : pc = IF work.status # "pending" THEN "finish" ELSE IF work.img # NoImage THEN "keep" ELSE "fetch"  OBVIOUS
<1>4. PICK j : j = [worker[w] EXCEPT !.work = work, !.pc = pc]  OBVIOUS
<1>5. PICK id \in Ids : id = worker[w].id  BY <1>1 DEF PvInv, PreviewTyped, WorkersTyped
<1>6. worker[w] \in Jobs /\ LinksTyped /\ rows[id] \in LinkRows  BY DEF PvInv, PreviewTyped, WorkersTyped, LinksTyped
<1>7. Snap(id, work)
  <2>1. CASE worker[w].claimed  BY <1>1, <1>2, <1>5, <2>1 DEF PvInv, WorkKnown
  <2>2. CASE ~worker[w].claimed  BY <1>2, <1>5, <1>6, <2>2 DEF Snap, Row, LinkRows
  <2>3. QED  BY <2>1, <2>2
<1>8. work \in LinkRows /\ pc \in {"finish", "keep", "fetch"}  BY <1>3, <1>7 DEF Snap
<1>9. j \in Jobs /\ j.pc = pc /\ j.id = id /\ j.claimed = worker[w].claimed /\ j.work = work
  BY <1>4, <1>5, <1>6, <1>8 DEF Jobs, Stages
<1>10. worker' = [worker EXCEPT ![w] = j] /\ worker'[w] = j
  BY <1>2, <1>3, <1>4 DEF PvInv, PreviewTyped, WorkersTyped
<1>11. Snap(id, work)' /\ LinksTyped'  BY <1>1, <1>5, <1>7, RowsKept
<1>12. WorkerKnows(w)'  BY <1>3, <1>8, <1>9, <1>10, <1>11 DEF WorkerKnows, Bare
<1>13. Good(id)' => Good(id) /\ (Works(w, id) => Works(w, id)')
  <2> SUFFICES ASSUME Good(id)', Works(w, id)  PROVE Works(w, id)'
    BY <1>1 DEF Good
  <2>1. work.upd = rows[id].upd /\ work.gen = rows[id].gen
    BY <1>1, <1>2, <1>5 DEF Works, Fresh, Row
  <2>2. work.status = "pending"  BY <1>1, <1>7, <2>1 DEF Snap, Good
  <2>3. pc \in {"keep", "fetch"}  BY <1>3, <2>2
  <2>4. QED  BY <1>1, <1>9, <1>10, <2>1, <2>3 DEF Works
<1>14. left' \in [Counters -> Nat]  BY <1>1 DEF PvInv, PreviewTyped, HandlersTyped
<1>15. RowMoves(id)  BY <1>1 DEF RowMoves
<1>16. QED  BY <1>1, <1>5, <1>8, <1>9, <1>10, <1>11, <1>12, <1>13, <1>14, <1>15, JobSteps

\* The row of a job that ends what it does: it has its answer, or it had changed.
LEMMA LastWrite ==
    ASSUME PvInv, NEW w \in Pool, NEW id \in Ids, id = worker[w].id, worker[w].pc \in Loaded \ {"look", "publish"},
           UNCHANGED <<pv, queue, sweep, handlers, bucket, missed, left>>,
           Becomes(w, To(w, "finish")),
           \/ rows' = rows /\ ~Unchanged(w)
           \/ /\ LinksTyped' /\ RowMoves(id) /\ rows'[id].status # "pending" /\ rows'[id].ans = rows'[id].asked
              /\ rows'[id].img \in {rows[id].img, NoImage, Remote} /\ \A i \in Ids : i # id => rows'[i] = rows[i]
    PROVE  PvInv'
<1>1. UNCHANGED <<objects, keys, stalled, dropped, waiting>>  BY DEF bucket, missed, handlers
<1>2. PICK j : j = To(w, "finish")  OBVIOUS
<1>3. WorkersTyped /\ "finish" \in Stages  BY DEF Stages, PvInv, PreviewTyped
<1>4. j \in Jobs /\ j.pc = "finish" /\ j.id = id /\ j.claimed = worker[w].claimed  BY <1>2, <1>3, GoesTo
<1>5. worker' = [worker EXCEPT ![w] = j] /\ worker'[w] = j  BY <1>2, <1>3 DEF Becomes, WorkersTyped
<1>6. WorkerKnows(w)'  BY <1>4, <1>5 DEF WorkerKnows, Loaded, Bare
<1>7. LinksTyped' /\ RowMoves(id) /\ \A i \in Ids : i # id => rows'[i] = rows[i]  BY RowsKept DEF RowMoves
<1>8. worker[w].pc \notin {"idle", "start"}  BY DEF Loaded
<1>9. Good(id)' => Good(id) /\ (Works(w, id) => Works(w, id)')
  <2>1. CASE rows' = rows /\ ~Unchanged(w)  BY <1>1, <2>1, AtWork DEF Good
  <2>2. CASE rows'[id].status # "pending"  BY <2>2 DEF Good
  <2>3. QED  BY <2>1, <2>2
<1>10. left' \in [Counters -> Nat]  BY DEF PvInv, PreviewTyped, HandlersTyped
<1>11. QED  BY <1>1, <1>4, <1>5, <1>6, <1>7, <1>8, <1>9, <1>10, JobSteps

\* An image already there is kept.
LEMMA ShortCircuitKeeps == ASSUME PvInv, NEW w \in Pool, shortCircuitExistingImage(w)  PROVE PvInv'
<1>1. /\ worker[w].pc = "keep" /\ Becomes(w, To(w, "finish")) /\ SystemUpdatePreviewIfUnchanged(w, "ok", NoImage)
      /\ UNCHANGED <<pv, queue, sweep, handlers, bucket, missed, left>>
  BY DEF shortCircuitExistingImage
<1>2. worker[w].pc \in Loaded \ {"look", "publish"}  BY <1>1 DEF Loaded
<1>3. PICK id \in Ids : id = worker[w].id  BY <1>2, AtWork
<1>4. rows[id].img \in Nat /\ NoImage \in Nat /\ "ok" \in Statuses  BY <1>2, <1>3, AtWork DEF NoImage, LinkRows, Statuses
<1>5. CASE Unchanged(w)
  <2>1. PICK st \in Statuses : st = "ok"  BY <1>4
  <2>2. PICK k \in Nat : k = IF Row(w).img = NoImage THEN NoImage ELSE Row(w).img  BY <1>3, <1>4 DEF Row
  <2>3. rows' = [rows EXCEPT ![worker[w].id] = Answer(Row(w), worker[w].work.asked, st, k)]
    BY <1>1, <1>5, <2>1, <2>2 DEF SystemUpdatePreviewIfUnchanged
  <2>4. st # "pending" \/ k = rows[id].img  BY <1>3, <2>1, <2>2 DEF Row
  <2>5. /\ LinksTyped' /\ RowMoves(id) /\ rows'[id].status = st /\ rows'[id].img = k /\ rows'[id].ans = rows'[id].asked
        /\ rows'[id].gen = rows[id].gen /\ rows'[id].upd = rows[id].upd + 1
        /\ \A i \in Ids : i # id => rows'[i] = rows[i]
    BY <1>1, <1>2, <1>3, <1>5, <2>3, <2>4, AnswerWritten
  <2>6. rows'[id].status # "pending" /\ rows'[id].img = rows[id].img
    BY <1>3, <2>1, <2>2, <2>5 DEF Row
  <2>7. QED  BY <1>1, <1>2, <1>3, <2>5, <2>6, LastWrite
<1>6. CASE ~Unchanged(w)
  <2>1. rows' = rows  BY <1>1, <1>6 DEF SystemUpdatePreviewIfUnchanged
  <2>2. QED  BY <1>1, <1>2, <1>3, <1>6, <2>1, LastWrite
<1>7. QED  BY <1>5, <1>6

\* A page without a picture is released.
LEMMA ReleaseKeeps == ASSUME PvInv, NEW w \in Pool, SystemFinishScreenshotFallback(w)  PROVE PvInv'
<1>1. /\ worker[w].pc = "release" /\ Becomes(w, To(w, "finish"))
      /\ rows' = IF Unchanged(w) /\ Row(w).img = NoImage
                 THEN [rows EXCEPT ![worker[w].id] = Answer(Row(w), worker[w].work.asked, "ok", NoImage)] ELSE rows
      /\ UNCHANGED <<pv, queue, sweep, handlers, bucket, missed, left>>
  BY DEF SystemFinishScreenshotFallback
<1>2. worker[w].pc \in Loaded \ {"look", "publish"} /\ worker[w].pc \in Bare  BY <1>1 DEF Loaded, Bare
<1>3. PICK id \in Ids : id = worker[w].id  BY <1>2, AtWork
<1>4. Unchanged(w) => Row(w).img = NoImage
  <2>1. Snap(id, worker[w].work) /\ worker[w].work.img = NoImage  BY <1>2, <1>3, AtWork DEF WorkerKnows
  <2>2. QED  BY <1>3, <2>1 DEF Unchanged, Snap, Row
<1>5. pv' = pv  BY <1>1
<1>6. CASE Unchanged(w)
  <2>1. PICK st \in Statuses : st = "ok"  BY DEF Statuses
  <2>2. PICK k \in Nat : k = NoImage  BY DEF NoImage
  <2>3. rows' = [rows EXCEPT ![worker[w].id] = Answer(Row(w), worker[w].work.asked, st, k)]
    BY <1>1, <1>4, <1>6, <2>1, <2>2
  <2>4. st # "pending" \/ k = rows[id].img  BY <2>1
  <2>5. /\ LinksTyped' /\ RowMoves(id) /\ rows'[id].status = st /\ rows'[id].img = k /\ rows'[id].ans = rows'[id].asked
        /\ rows'[id].gen = rows[id].gen /\ rows'[id].upd = rows[id].upd + 1
        /\ \A i \in Ids : i # id => rows'[i] = rows[i]
    BY <1>2, <1>3, <1>6, <1>5, <2>3, <2>4, AnswerWritten
  <2>6. rows'[id].status # "pending" /\ rows'[id].img = NoImage  BY <2>1, <2>2, <2>5
  <2>7. QED  BY <1>1, <1>2, <1>3, <2>5, <2>6, LastWrite
<1>7. CASE ~Unchanged(w)
  <2>1. rows' = rows  BY <1>1, <1>7
  <2>2. QED  BY <1>1, <1>2, <1>3, <1>7, <2>1, LastWrite
<1>8. QED  BY <1>6, <1>7

\* A page without an image is looked at again, if its row was still the one the job read.
LEMMA PublishPreviewKeeps == ASSUME PvInv, NEW w \in Pool, publishPreview(w)  PROVE PvInv'
<1>1. /\ worker[w].pc = "fetch" /\ UNCHANGED <<pv, queue, sweep, handlers, bucket, missed, left>>
      /\ UNCHANGED <<objects, keys, stalled, dropped, waiting>>
      /\ \/ Becomes(w, To(w, "finish")) /\ SystemUpdatePreviewIfUnchanged(w, "failed", NoImage)
         \/ Becomes(w, To(w, "finish")) /\ SystemUpdatePreviewIfUnchanged(w, "ok", Remote)
         \/ /\ SystemUpdatePreviewIfUnchanged(w, "pending", NoImage)
            /\ Becomes(w, To(w, IF rows' # rows THEN "look" ELSE "finish"))
  BY DEF publishPreview, bucket, missed, handlers
<1>2. worker[w].pc \in Loaded \ {"look", "publish"} /\ worker[w].pc \in Bare  BY <1>1 DEF Loaded, Bare
<1>3. PICK id \in Ids : id = worker[w].id  BY <1>2, AtWork
<1>4. rows[id] \in LinkRows /\ Snap(id, worker[w].work) /\ worker[w].work.img = NoImage
  BY <1>2, <1>3, AtWork DEF WorkerKnows
<1>5. Unchanged(w) => rows[id].img = NoImage  BY <1>3, <1>4 DEF Unchanged, Snap, Row
<1>6. PICK st \in Statuses, k \in {NoImage, Remote} :
         /\ SystemUpdatePreviewIfUnchanged(w, st, k)
         /\ \/ st # "pending" /\ Becomes(w, To(w, "finish"))
            \/ st = "pending" /\ k = NoImage /\ Becomes(w, To(w, IF rows' # rows THEN "look" ELSE "finish"))
  BY <1>1 DEF Statuses
<1>7. CASE ~Unchanged(w)
  <2>1. rows' = rows /\ Becomes(w, To(w, "finish"))  BY <1>6, <1>7 DEF SystemUpdatePreviewIfUnchanged
  <2>2. QED  BY <1>1, <1>2, <1>3, <1>7, <2>1, LastWrite
<1>8. CASE Unchanged(w)
  <2>1. k \in Nat /\ k = IF Row(w).img = NoImage THEN k ELSE Row(w).img
    BY <1>3, <1>5, <1>8 DEF Row, NoImage, Remote
  <2>2. rows' = [rows EXCEPT ![worker[w].id] = Answer(Row(w), worker[w].work.asked, st, k)]
    BY <1>6, <1>8, <2>1 DEF SystemUpdatePreviewIfUnchanged
  <2>3. st # "pending" \/ k = rows[id].img  BY <1>5, <1>6, <1>8
  <2>4. /\ LinksTyped' /\ RowMoves(id) /\ rows'[id].status = st /\ rows'[id].img = k /\ rows'[id].ans = rows'[id].asked
        /\ rows'[id].gen = rows[id].gen /\ rows'[id].upd = rows[id].upd + 1
        /\ \A i \in Ids : i # id => rows'[i] = rows[i]
    BY <1>1, <1>2, <1>3, <1>8, <2>1, <2>2, <2>3, AnswerWritten
  <2>5. CASE st # "pending"  BY <1>1, <1>2, <1>3, <1>6, <2>4, <2>5, LastWrite
  <2>6. CASE st = "pending"
    <3>1. rows' # rows  BY <1>4, <2>4 DEF LinkRows
    <3>2. PICK j : j = To(w, "look")  OBVIOUS
    <3>3. WorkersTyped /\ "look" \in Stages  BY DEF Stages, PvInv, PreviewTyped
    <3>4. j \in Jobs /\ j.pc = "look" /\ j.id = id /\ j.claimed = worker[w].claimed /\ j.work = worker[w].work
      BY <1>3, <3>2, <3>3, GoesTo
    <3>5. worker' = [worker EXCEPT ![w] = j] /\ worker'[w] = j
      BY <1>6, <2>6, <3>1, <3>2, <3>3 DEF Becomes, WorkersTyped
    <3>6. PICK work : work = worker[w].work  OBVIOUS
    <3>7. Snap(id, work)'  BY <1>1, <1>3, <1>4, <2>4, <3>6, SnapMoves DEF PvInv, PreviewTyped
    <3>8. WorkerKnows(w)'
      <4>1. rows'[id].img = NoImage  BY <1>6, <2>4, <2>6
      <4>2. QED  BY <1>4, <3>4, <3>5, <3>7, <3>6, <4>1 DEF WorkerKnows, Row
    <3>9. Good(id)' => Good(id) /\ (Works(w, id) => Works(w, id)')
      <4>1. Good(id)' => Good(id)  BY <1>1, <1>3, <1>8 DEF Good, Unchanged, Row
      <4>2. Works(w, id)'  BY <1>3, <1>8, <2>4, <3>4, <3>5 DEF Works, Unchanged, Row
      <4>3. QED  BY <4>1, <4>2
    <3>10. left' \in [Counters -> Nat]  BY <1>1 DEF PvInv, PreviewTyped, HandlersTyped
    <3>11. worker[w].pc \notin {"idle", "start"}  BY <1>1
    <3>12. QED  BY <1>1, <1>3, <1>6, <2>4, <2>6, <3>4, <3>5, <3>8, <3>9, <3>10, <3>11, JobSteps
  <2>7. QED  BY <2>5, <2>6
<1>9. QED  BY <1>7, <1>8

\* The second read of the row.
LEMMA LookKeeps == ASSUME PvInv, NEW w \in Pool, lookAgain(w)  PROVE PvInv'
<1>1. /\ worker[w].pc = "look"
      /\ UNCHANGED <<pv, rows, queue, sweep, handlers, bucket, missed, left>> /\ UNCHANGED <<stalled, dropped, objects, keys, waiting>>
  BY DEF lookAgain, missed, bucket, handlers
<1>2. worker[w].pc \in Loaded  BY <1>1 DEF Loaded
<1>3. PICK id \in Ids : id = worker[w].id  BY <1>2, AtWork
<1>4. PICK work : work = [Row(w) EXCEPT !.url = worker[w].work.url]  OBVIOUS
<1>5. PICK pc : pc = IF Row(w).gen # worker[w].work.gen \/ Row(w).status # "pending" \/ Row(w).img # NoImage
                     THEN "finish" ELSE "capture"
  OBVIOUS
<1>6. PICK j : j = [worker[w] EXCEPT !.work = work, !.pc = pc]  OBVIOUS
<1>7. worker' = [worker EXCEPT ![w] = j]  BY <1>4, <1>5, <1>6 DEF lookAgain, Becomes
<1>8. worker[w] \in Jobs /\ rows[id] \in LinkRows /\ worker[w].work \in LinkRows /\ WorkerKnows(w)  BY <1>2, <1>3, AtWork
<1>9. /\ work \in LinkRows /\ work.status = rows[id].status /\ work.img = rows[id].img /\ work.gen = rows[id].gen
      /\ work.upd = rows[id].upd /\ work.asked = rows[id].asked
  BY <1>3, <1>4, <1>8 DEF Row, LinkRows
<1>10. j \in Jobs /\ j.pc = pc /\ j.id = id /\ j.claimed = worker[w].claimed /\ j.work = work /\ pc \in {"finish", "capture"}
  BY <1>3, <1>5, <1>6, <1>8, <1>9 DEF Jobs, Stages
<1>11. worker'[w] = j  BY <1>7 DEF PvInv, PreviewTyped, WorkersTyped
<1>12. LinksTyped' /\ RowMoves(id)  BY <1>1, RowsKept DEF RowMoves
<1>13. WorkerKnows(w)'
  <2>1. Snap(id, work)'  BY <1>1, <1>8, <1>9 DEF Snap, LinkRows
  <2>2. pc = "capture" => work.img = NoImage  BY <1>3, <1>5, <1>9 DEF Row
  <2>3. QED  BY <1>10, <1>11, <2>1, <2>2 DEF WorkerKnows, Bare
<1>14. Good(id)' => Good(id) /\ (Works(w, id) => Works(w, id)')
  <2> SUFFICES ASSUME Good(id)', Works(w, id)  PROVE Works(w, id)'
    BY <1>1 DEF Good
  <2>1. worker[w].work.gen = rows[id].gen  BY <1>2, <1>3, AtWork DEF Row
  <2>2. rows[id].status = "pending"  BY <1>1 DEF Good
  <2>3. rows[id].img = NoImage  BY <1>1, <1>3, <1>8, <2>1, <2>2 DEF WorkerKnows, Row
  <2>4. pc = "capture"  BY <1>3, <1>5, <2>1, <2>2, <2>3 DEF Row
  <2>5. QED  BY <1>1, <1>9, <1>10, <1>11, <2>4 DEF Works
<1>15. left' \in [Counters -> Nat]  BY <1>1 DEF PvInv, PreviewTyped, HandlersTyped
<1>16. QED  BY <1>1, <1>3, <1>7, <1>10, <1>11, <1>12, <1>13, <1>14, <1>15, JobSteps

\* A job fails: its row is left to the ticker, or released.
LEMMA FailKeeps == ASSUME PvInv, NEW w \in Pool, jobFails(w)  PROVE PvInv'
<1>1. /\ Spend("faults") /\ worker[w].pc \notin {"idle", "start", "finish"}
      /\ objects' = IF worker[w].pc = "publish" THEN objects \ {worker[w].key} ELSE objects
      /\ stalled' = IF worker[w].pc = "publish" THEN stalled ELSE stalled \cup {worker[w].id}
      /\ UNCHANGED <<pv, rows, queue, sweep, handlers, keys, dropped>> /\ UNCHANGED waiting
  BY DEF jobFails, handlers
<1>2. PICK id \in Ids : id = worker[w].id  BY <1>1 DEF PvInv, PreviewTyped, WorkersTyped
<1>3. PICK pc : pc = IF worker[w].pc = "publish" THEN "release" ELSE "finish"  OBVIOUS
<1>4. worker[w] \in Jobs /\ worker \in [Pool -> Jobs]  BY DEF PvInv, PreviewTyped, WorkersTyped
<1>5. PICK j : j = [worker[w] EXCEPT !.pc = pc]  OBVIOUS
<1>6. j \in Jobs /\ j.pc = pc /\ j.id = id /\ j.claimed = worker[w].claimed /\ j.work = worker[w].work /\ pc \in {"release", "finish"}
  BY <1>2, <1>3, <1>4, <1>5 DEF Jobs, Stages
<1>7. worker' = [worker EXCEPT ![w] = j] /\ worker'[w] = j
  <2>1. worker' = [worker EXCEPT ![w].pc = pc]  BY <1>3 DEF jobFails
  <2>2. QED  BY <1>4, <1>5, <2>1
<1>8. left' \in [Counters -> Nat] /\ left'.losses = left.losses
  BY <1>1, Spending DEF Counters, PvInv, PreviewTyped
<1>9. LinksTyped' /\ RowMoves(id)  BY <1>1, RowsKept DEF RowMoves
<1>10. WorkerKnows(w)'
  <2>1. CASE worker[w].pc = "publish"
    <3>1. WorkerKnows(w)  BY <2>1, AtWork DEF Loaded
    <3>2. Snap(id, worker[w].work) /\ worker[w].work.img = NoImage  BY <1>2, <2>1, <3>1 DEF WorkerKnows, Loaded, Bare
    <3>3. PICK work : work = worker[w].work  OBVIOUS
    <3>4. Snap(id, work)'  BY <1>1, <1>2, <3>2, <3>3, RowsKept
    <3>5. QED  BY <1>6, <1>7, <3>2, <3>3, <3>4 DEF WorkerKnows
  <2>2. CASE worker[w].pc # "publish"  BY <1>3, <1>6, <1>7, <2>2 DEF WorkerKnows, Loaded, Bare
  <2>3. QED  BY <2>1, <2>2
<1>11. Good(id)' => Good(id) /\ (Works(w, id) => Works(w, id)')
  <2> SUFFICES ASSUME Good(id)'  PROVE Good(id) /\ (Works(w, id) => Works(w, id)')
    OBVIOUS
  <2>1. worker[w].pc = "publish" /\ Good(id)  BY <1>1, <1>2 DEF Good
  <2>2. pc = "release"  BY <1>3, <2>1
  <2>3. Works(w, id) => Works(w, id)'  BY <1>1, <1>2, <1>6, <1>7, <2>1, <2>2 DEF Works
  <2>4. QED  BY <2>1, <2>3
<1>12. \A k \in objects \ objects' : Publishing(w) /\ k = worker[w].key  BY <1>1 DEF Publishing
<1>13. QED  BY <1>1, <1>2, <1>6, <1>7, <1>8, <1>9, <1>10, <1>11, <1>12, JobSteps

-----------------------------------------------------------------------------

\* A captured page is stored under a key nobody has, or released.
LEMMA CaptureKeeps == ASSUME PvInv, NEW w \in Pool, capture(w)  PROVE PvInv'
<1>1. /\ worker[w].pc = "capture" /\ UNCHANGED <<pv, rows, queue, sweep, handlers, missed, left>>
      /\ UNCHANGED <<stalled, dropped, jobs, scheduled, recovery, waiting, manual, trash>>
      /\ \/ Becomes(w, To(w, "release")) /\ UNCHANGED <<objects, keys>>
         \/ /\ Becomes(w, [worker[w] EXCEPT !.pc = "publish", !.key = keys + 1])
            /\ objects' = objects \cup {keys + 1} /\ keys' = keys + 1
  BY DEF capture, missed, handlers, queue, storeKey
<1>2. worker[w].pc \in Loaded  BY <1>1 DEF Loaded
<1>3. PICK id \in Ids : id = worker[w].id  BY <1>2, AtWork
<1>4. worker[w] \in Jobs /\ WorkerKnows(w) /\ worker \in [Pool -> Jobs] /\ WorkersTyped /\ PreviewTyped
  BY <1>2, AtWork DEF PvInv, PreviewTyped, WorkersTyped
<1>5. LinksTyped' /\ RowMoves(id) /\ Moves  BY <1>1, RowsKept DEF RowMoves
<1>6. left' \in [Counters -> Nat] /\ keys \in Nat /\ keys >= 1 /\ objects \subseteq 2..keys /\ trash \subseteq 2..keys
  BY <1>1, <1>4 DEF PreviewTyped, HandlersTyped
<1>7. ASSUME NEW j, worker'[w] = j, j.id = id, j.work = worker[w].work, j.pc \in {"release", "publish"}
      PROVE  WorkerKnows(w)' /\ (Good(id)' => Good(id) /\ (Works(w, id) => Works(w, id)'))
  <2>1. PICK work : work = worker[w].work  OBVIOUS
  <2>2. Snap(id, work) /\ work.img = NoImage  BY <1>1, <1>3, <1>4, <2>1 DEF WorkerKnows, Loaded, Bare
  <2>3. Snap(id, work)'  BY <1>1, <1>3, <2>2, RowsKept
  <2>4. WorkerKnows(w)'  BY <1>7, <2>1, <2>2, <2>3 DEF WorkerKnows
  <2>5. Good(id)' => Good(id)  BY <1>1 DEF Good
  <2>6. Works(w, id) => Works(w, id)'  BY <1>1, <1>7 DEF Works
  <2>7. QED  BY <2>4, <2>5, <2>6
<1>8. CASE Becomes(w, To(w, "release")) /\ UNCHANGED <<objects, keys>>
  <2>1. PICK j : j = To(w, "release")  OBVIOUS
  <2>2. j \in Jobs /\ j.pc = "release" /\ j.id = id /\ j.claimed = worker[w].claimed /\ j.work = worker[w].work
    BY <1>3, <1>4, <2>1, GoesTo DEF Stages
  <2>3. worker' = [worker EXCEPT ![w] = j] /\ worker'[w] = j  BY <1>4, <1>8, <2>1 DEF Becomes
  <2>4. WorkerKnows(w)' /\ (Good(id)' => Good(id) /\ (Works(w, id) => Works(w, id)'))  BY <1>7, <2>2, <2>3
  <2>5. QED  BY <1>1, <1>3, <1>5, <1>6, <1>8, <2>2, <2>3, <2>4, JobSteps
<1>9. CASE /\ Becomes(w, [worker[w] EXCEPT !.pc = "publish", !.key = keys + 1])
           /\ objects' = objects \cup {keys + 1} /\ keys' = keys + 1
  <2>1. PICK j : j = [worker[w] EXCEPT !.pc = "publish", !.key = keys + 1]  OBVIOUS
  <2>2. j \in Jobs /\ j.pc = "publish" /\ j.id = id /\ j.claimed = worker[w].claimed /\ j.work = worker[w].work /\ j.key = keys + 1
    <3>1. PICK key \in Nat : key = keys + 1  BY <1>6
    <3>2. j = [worker[w] EXCEPT !.pc = "publish", !.key = key]  BY <2>1, <3>1
    <3>3. j \in Jobs /\ j.pc = "publish" /\ j.id = id /\ j.claimed = worker[w].claimed /\ j.work = worker[w].work /\ j.key = key
      BY <1>3, <1>4, <3>1, <3>2 DEF Jobs, Stages
    <3>4. QED  BY <3>1, <3>3
  <2>3. worker' = [worker EXCEPT ![w] = j]  BY <1>9, <2>1 DEF Becomes
  <2>4. WorkersTyped' /\ worker'[w] = j /\ \A v \in Pool : v # w => worker'[v] = worker[v]
    BY <1>1, <1>3, <1>4, <2>2, <2>3, WorkerSet
  <2>5. Ids' = Ids /\ Pool' = Pool /\ Requests' = Requests  BY <1>1, SameScenario
  <2>6. keys' \in Nat \ {0} /\ trash \subseteq 2..keys' /\ objects' \subseteq 2..keys' /\ keys + 1 \in 2..keys'
        /\ keys + 1 \notin trash /\ \A k \in 0..keys : k # keys + 1 /\ k \in 0..keys'
    <3>1. keys' \in Nat \ {0} /\ keys + 1 \in 2..keys' /\ keys + 1 \notin 2..keys
          /\ (\A k \in 2..keys : k \in 2..keys') /\ \A k \in 0..keys : k # keys + 1 /\ k \in 0..keys'
      BY <1>6, <1>9
    <3>2. QED  BY <1>6, <1>9, <3>1
  <2>7. PreviewTyped'
    BY <1>1, <1>4, <1>5, <2>4, <2>5, <2>6 DEF PreviewTyped, QueueTyped, SweepTyped, HandlersTyped
  <2>8. WorkerKnows(w)' /\ (Good(id)' => Good(id) /\ (Works(w, id) => Works(w, id)'))  BY <1>7, <2>2, <2>4
  <2>9. WorkKnown' /\ SlotsMatch' /\ AnswersCurrent' /\ AllCovered'
    BY <1>1, <1>3, <1>5, <2>2, <2>4, <2>7, <2>8, JobMoves
  <2>10. \A v \in Pool : Publishing(v)' => \/ v = w /\ worker'[v].key = keys + 1
                                           \/ v # w /\ Publishing(v) /\ worker'[v].key = worker[v].key /\ worker[v].key \in 2..keys
    <3>1. \A v \in Pool : Publishing(v) => worker[v].key \in 2..keys  BY DEF PvInv, ImagesOwned
    <3>2. QED  BY <2>2, <2>4, <3>1 DEF Publishing
  <2>11. ImagesOwned'
    <3>1. \A i \in Ids : rows[i].img \in 0..keys /\ rows[i].img \notin trash  BY DEF PvInv, ImagesOwned
    <3>2. \A i \in Ids : rows[i].img \in (0..keys') \ trash /\ rows[i].img # keys + 1  BY <2>6, <3>1
    <3>3. \A v \in Pool : Publishing(v)' => /\ worker'[v].key \in (2..keys') \ trash
                                            /\ \A i \in Ids : rows[i].img # worker'[v].key
      <4>1. \A v \in Pool : Publishing(v) => /\ worker[v].key \in (2..keys) \ trash
                                             /\ \A i \in Ids : rows[i].img # worker[v].key
        BY DEF PvInv, ImagesOwned
      <4>2. \A k \in 2..keys : k \in 2..keys'  BY <1>6, <1>9
      <4>3. QED  BY <2>6, <2>10, <3>2, <4>1, <4>2
    <3>4. \A u, v \in Pool : Publishing(u)' /\ Publishing(v)' /\ worker'[u].key = worker'[v].key => u = v
      <4>1. \A u, v \in Pool : Publishing(u) /\ Publishing(v) /\ worker[u].key = worker[v].key => u = v
        BY DEF PvInv, ImagesOwned
      <4>2. keys + 1 \notin 2..keys  BY <1>6
      <4>3. QED  BY <2>10, <4>1, <4>2
    <3>5. QED  BY <1>1, <2>5, <3>2, <3>3, <3>4 DEF PvInv, ImagesOwned
  <2>12. ObjectsKept'  BY <1>1, <1>9, <2>5, <2>10 DEF PvInv, ObjectsKept
  <2>13. QED  BY <2>7, <2>9, <2>11, <2>12 DEF PvInv
<1>10. QED  BY <1>1, <1>8, <1>9

\* The picture a worker had to publish is shown, and no other worker publishes it.
LEMMA PictureShown ==
    ASSUME PvInv, NEW w \in Pool, Publishing(w), NEW id \in Ids, LinksTyped', Moves, UNCHANGED <<pv, trash, keys, manual>>,
           rows'[id].img = worker[w].key, \A i \in Ids : i # id => rows'[i] = rows[i],
           ~Publishing(w)', \A v \in Pool : v # w => worker'[v] = worker[v]
    PROVE  ImagesOwned'
<1>1. Ids' = Ids /\ Pool' = Pool /\ PreviewTyped  BY SameScenario DEF PvInv
<1>2. worker[w].key \in (2..keys) \ trash /\ (\A i \in Ids : rows[i].img # worker[w].key) /\ keys \in Nat
  BY <1>1 DEF PvInv, ImagesOwned, PreviewTyped, HandlersTyped
<1>3. \A i \in Ids : rows'[i].img \in (0..keys) \ trash
  <2>1. \A i \in Ids : rows[i].img \in (0..keys) \ trash  BY DEF PvInv, ImagesOwned
  <2>2. \A k \in 2..keys : k \in 0..keys  BY <1>2
  <2>3. QED  BY <1>2, <2>1, <2>2
<1>4. \A i, j \in Ids : i # j /\ rows'[i].img = rows'[j].img => rows'[i].img \in {NoImage, Remote}
  <2>1. \A i, j \in Ids : i # j /\ rows[i].img = rows[j].img => rows[i].img \in {NoImage, Remote}  BY DEF PvInv, ImagesOwned
  <2>2. QED  BY <1>2, <2>1
<1>5. manual # NoCapture => /\ manual.upd <= rows'[manual.id].upd
                            /\ manual.upd = rows'[manual.id].upd => manual.img = rows'[manual.id].img
  <2> SUFFICES ASSUME manual # NoCapture  PROVE /\ manual.upd <= rows'[manual.id].upd
                                                /\ manual.upd = rows'[manual.id].upd => manual.img = rows'[manual.id].img
    OBVIOUS
  <2>1. manual.id \in Ids /\ manual.upd \in Nat  BY <1>1 DEF PreviewTyped, HandlersTyped
  <2>2. rows[manual.id].upd \in Nat /\ rows'[manual.id].upd \in Nat /\ RowMoves(manual.id)
    BY <1>1, <2>1 DEF PreviewTyped, LinksTyped, LinkRows, Moves
  <2>3. manual.upd <= rows[manual.id].upd /\ (manual.upd = rows[manual.id].upd => manual.img = rows[manual.id].img)
    BY DEF PvInv, ImagesOwned
  <2>4. QED  BY <2>1, <2>2, <2>3 DEF RowMoves
<1>6. \A v \in Pool : Publishing(v)' => v # w /\ Publishing(v) /\ worker'[v] = worker[v] /\ worker[v].key # worker[w].key
  <2>1. \A v \in Pool : Publishing(v) /\ worker[v].key = worker[w].key => v = w  BY DEF PvInv, ImagesOwned
  <2>2. QED  BY <2>1 DEF Publishing
<1>7. \A v \in Pool : Publishing(v)' => /\ worker'[v].key \in (2..keys) \ trash
                                        /\ \A i \in Ids : rows'[i].img # worker'[v].key
  <2>1. \A v \in Pool : Publishing(v) => /\ worker[v].key \in (2..keys) \ trash
                                         /\ \A i \in Ids : rows[i].img # worker[v].key
    BY DEF PvInv, ImagesOwned
  <2>2. QED  BY <1>6, <2>1
<1>8. \A u, v \in Pool : Publishing(u)' /\ Publishing(v)' /\ worker'[u].key = worker'[v].key => u = v
  BY <1>6 DEF PvInv, ImagesOwned
<1>9. QED  BY <1>1, <1>3, <1>4, <1>5, <1>7, <1>8 DEF ImagesOwned

\* A picture is published, or deleted because its row changed.
LEMMA OGImageKeeps == ASSUME PvInv, NEW w \in Pool, SystemUpdateOGImage(w)  PROVE PvInv'
<1>1. /\ worker[w].pc = "publish" /\ Becomes(w, To(w, "finish"))
      /\ UNCHANGED <<pv, queue, sweep, handlers, keys, missed, left>>
      /\ UNCHANGED <<stalled, dropped, jobs, scheduled, recovery, waiting, manual, trash>>
  BY DEF SystemUpdateOGImage, missed, handlers, queue
<1>2. worker[w].pc \in Loaded /\ worker[w].pc \in Bare /\ Publishing(w)  BY <1>1 DEF Loaded, Bare, Publishing
<1>3. PICK id \in Ids : id = worker[w].id  BY <1>2, AtWork
<1>4. worker \in [Pool -> Jobs] /\ WorkersTyped /\ PreviewTyped  BY DEF PvInv, PreviewTyped, WorkersTyped
<1>5. PICK j : j = To(w, "finish")  OBVIOUS
<1>6. j \in Jobs /\ j.pc = "finish" /\ j.id = id /\ j.claimed = worker[w].claimed /\ j.key = worker[w].key
  BY <1>3, <1>4, <1>5, GoesTo DEF Stages
<1>7. worker' = [worker EXCEPT ![w] = j]  BY <1>1, <1>5 DEF Becomes
<1>8. WorkersTyped' /\ worker'[w] = j /\ \A v \in Pool : v # w => worker'[v] = worker[v]
  BY <1>1, <1>3, <1>4, <1>6, <1>7, WorkerSet
<1>9. WorkerKnows(w)' /\ ~Publishing(w)'  BY <1>6, <1>8 DEF WorkerKnows, Loaded, Bare, Publishing
<1>10. Unchanged(w) => Row(w).img = NoImage
  <2>1. Snap(id, worker[w].work) /\ worker[w].work.img = NoImage  BY <1>2, <1>3, AtWork DEF WorkerKnows
  <2>2. QED  BY <1>3, <2>1 DEF Unchanged, Snap, Row
<1>11. CASE Unchanged(w)
  <2>1. PICK st \in Statuses : st = "ok"  BY DEF Statuses
  <2>2. PICK k \in Nat : k = worker[w].key  BY <1>4 DEF Jobs
  <2>3. rows' = [rows EXCEPT ![worker[w].id] = Answer(Row(w), worker[w].work.asked, st, k)] /\ UNCHANGED objects
    BY <1>10, <1>11, <2>1, <2>2 DEF SystemUpdateOGImage
  <2>4. st # "pending" \/ k = rows[id].img  BY <2>1
  <2>5. /\ LinksTyped' /\ RowMoves(id) /\ rows'[id].status = st /\ rows'[id].img = k /\ rows'[id].ans = rows'[id].asked
        /\ rows'[id].gen = rows[id].gen /\ rows'[id].upd = rows[id].upd + 1
        /\ \A i \in Ids : i # id => rows'[i] = rows[i]
    BY <1>1, <1>2, <1>3, <1>11, <2>3, <2>4, AnswerWritten
  <2>6. ~Good(id)' /\ Moves /\ rows'[id].img = worker[w].key  BY <2>1, <2>2, <2>5 DEF Good, Moves, RowMoves
  <2>7. PreviewTyped'
    BY <1>1, <1>4, <1>8, <2>3, <2>5, SameScenario DEF PreviewTyped, QueueTyped, SweepTyped, HandlersTyped
  <2>8. WorkKnown' /\ SlotsMatch' /\ AnswersCurrent' /\ AllCovered'
    BY <1>1, <1>3, <1>6, <1>8, <1>9, <2>5, <2>6, <2>7, JobMoves
  <2>9. ImagesOwned'  BY <1>1, <1>2, <1>3, <1>8, <1>9, <2>5, <2>6, PictureShown
  <2>10. ObjectsKept'
    <3>1. Ids' = Ids /\ Pool' = Pool  BY <1>1, SameScenario
    <3>2. left.losses = pv.losses => worker[w].key \in objects  BY <1>2 DEF PvInv, ObjectsKept
    <3>3. \A v \in Pool : Publishing(v)' => Publishing(v) /\ worker'[v] = worker[v]  BY <1>8, <1>9 DEF Publishing
    <3>4. QED  BY <1>1, <2>3, <2>5, <2>6, <3>1, <3>2, <3>3 DEF PvInv, ObjectsKept
  <2>11. QED  BY <2>7, <2>8, <2>9, <2>10 DEF PvInv
<1>12. CASE ~Unchanged(w)
  <2>1. objects' = objects \ {worker[w].key} /\ UNCHANGED rows  BY <1>12 DEF SystemUpdateOGImage
  <2>2. LinksTyped' /\ RowMoves(id)  BY <1>1, <2>1, RowsKept DEF RowMoves
  <2>3. Good(id)' => Good(id) /\ (Works(w, id) => Works(w, id)')
    BY <1>1, <1>2, <1>3, <1>12, <2>1, AtWork DEF Good
  <2>4. left' \in [Counters -> Nat]  BY <1>1, <1>4 DEF PreviewTyped, HandlersTyped
  <2>5. \A k \in objects \ objects' : Publishing(w) /\ k = worker[w].key  BY <1>2, <2>1
  <2>6. QED  BY <1>1, <1>3, <1>6, <1>7, <1>9, <2>1, <2>2, <2>3, <2>4, <2>5, JobSteps
<1>13. QED  BY <1>11, <1>12

\* The picture is on the row and its object goes: one of the losses.
LEMMA UnansweredKeeps == ASSUME PvInv, NEW w \in Pool, publishUnanswered(w)  PROVE PvInv'
<1>1. /\ worker[w].pc = "publish" /\ Spend("losses") /\ Unchanged(w) /\ Becomes(w, To(w, "release"))
      /\ objects' = objects \ {worker[w].key}
      /\ UNCHANGED <<pv, queue, sweep, handlers, keys, missed>>
      /\ UNCHANGED <<stalled, dropped, jobs, scheduled, recovery, waiting, manual, trash>>
  BY DEF publishUnanswered, missed, handlers, queue
<1>2. worker[w].pc \in Loaded /\ worker[w].pc \in Bare /\ Publishing(w)  BY <1>1 DEF Loaded, Bare, Publishing
<1>3. PICK id \in Ids : id = worker[w].id  BY <1>2, AtWork
<1>4. worker \in [Pool -> Jobs] /\ WorkersTyped /\ PreviewTyped  BY DEF PvInv, PreviewTyped, WorkersTyped
<1>5. PICK j : j = To(w, "release")  OBVIOUS
<1>6. j \in Jobs /\ j.pc = "release" /\ j.id = id /\ j.claimed = worker[w].claimed /\ j.work = worker[w].work
  BY <1>3, <1>4, <1>5, GoesTo DEF Stages
<1>7. worker' = [worker EXCEPT ![w] = j]  BY <1>1, <1>5 DEF Becomes
<1>8. WorkersTyped' /\ worker'[w] = j /\ \A v \in Pool : v # w => worker'[v] = worker[v]
  BY <1>1, <1>3, <1>4, <1>6, <1>7, WorkerSet
<1>9. PICK st \in Statuses : st = "ok"  BY DEF Statuses
<1>10. PICK k \in Nat : k = worker[w].key  BY <1>4 DEF Jobs
<1>11. rows' = [rows EXCEPT ![worker[w].id] = Answer(Row(w), worker[w].work.asked, st, k)]
  BY <1>9, <1>10 DEF publishUnanswered
<1>12. st # "pending" \/ k = rows[id].img  BY <1>9
<1>13. /\ LinksTyped' /\ RowMoves(id) /\ rows'[id].status = st /\ rows'[id].img = k /\ rows'[id].ans = rows'[id].asked
       /\ rows'[id].gen = rows[id].gen /\ rows'[id].upd = rows[id].upd + 1
       /\ \A i \in Ids : i # id => rows'[i] = rows[i]
  BY <1>1, <1>2, <1>3, <1>11, <1>12, AnswerWritten
<1>14. ~Good(id)' /\ Moves /\ rows'[id].img = worker[w].key  BY <1>9, <1>10, <1>13 DEF Good, Moves, RowMoves
<1>15. WorkerKnows(w)' /\ ~Publishing(w)'
  <2>1. PICK work : work = worker[w].work  OBVIOUS
  <2>2. Snap(id, work) /\ work.img = NoImage  BY <1>2, <1>3, <2>1, AtWork DEF WorkerKnows
  <2>3. Snap(id, work)'  BY <1>1, <1>3, <1>4, <1>13, <2>2, SnapMoves DEF PreviewTyped
  <2>4. QED  BY <1>6, <1>8, <2>1, <2>2, <2>3 DEF WorkerKnows, Publishing
<1>16. left' \in [Counters -> Nat] /\ left'.losses # left.losses /\ left'.losses <= left.losses /\ left'.losses \in Nat
  BY <1>1, <1>4, Spending DEF PreviewTyped, Counters
<1>17. PreviewTyped'
  BY <1>1, <1>4, <1>8, <1>13, <1>16, SameScenario DEF PreviewTyped, QueueTyped, SweepTyped, HandlersTyped
<1>18. WorkKnown' /\ SlotsMatch' /\ AnswersCurrent' /\ AllCovered'
  BY <1>1, <1>3, <1>6, <1>8, <1>13, <1>14, <1>15, <1>17, JobMoves
<1>19. ImagesOwned'  BY <1>1, <1>2, <1>3, <1>8, <1>13, <1>14, <1>15, PictureShown
<1>20. ObjectsKept'  BY <1>1, <1>4, <1>13, <1>16, ObjectsStay DEF PvInv
<1>21. QED  BY <1>17, <1>18, <1>19, <1>20 DEF PvInv

-----------------------------------------------------------------------------

\* The channel's first job becomes the worker's.
LEMMA ReceiveKeeps == ASSUME PvInv, NEW w \in Pool, receive(w)  PROVE PvInv'
<1>1. /\ jobs # <<>> /\ worker[w].pc = "idle" /\ jobs' = Tail(jobs) /\ recovery' = wakeRecoveryIfNeeded(jobs')
      /\ UNCHANGED <<pv, rows, scheduled, sweep, handlers, bucket, missed, left>>
      /\ UNCHANGED <<waiting, manual, trash, objects, keys, stalled, dropped>>
  BY DEF receive, handlers, bucket, missed
<1>2. PreviewTyped /\ LinksTyped /\ QueueTyped /\ WorkersTyped /\ Ids' = Ids /\ Pool' = Pool /\ Requests' = Requests
  BY <1>1, SameScenario DEF PvInv, PreviewTyped
<1>3. /\ jobs' \in Seq(Requests) /\ 1 \in DOMAIN jobs /\ Head(jobs) = jobs[1] /\ Head(jobs) \in Requests
      /\ \A i \in DOMAIN jobs' : i \in Nat /\ i + 1 # 1 /\ i + 1 \in DOMAIN jobs /\ jobs'[i] = jobs[i + 1]
      /\ \A i \in DOMAIN jobs : i # 1 => \E k \in DOMAIN jobs' : k + 1 = i
  <2>1. jobs \in Seq(Requests) /\ jobs # <<>>  BY <1>1, <1>2 DEF QueueTyped
  <2>2. FirstAndRest(Requests, jobs, Head(jobs), Tail(jobs))  BY <2>1, TailOf
  <2>3. PICK t : t = Tail(jobs)  OBVIOUS
  <2>4. FirstAndRest(Requests, jobs, Head(jobs), t)  BY <2>2, <2>3
  <2>5. jobs' = t  BY <1>1, <2>3
  <2>6. QED  BY <2>4, <2>5 DEF FirstAndRest
<1>4. PICK job \in Requests : job = jobs[1] /\ job = Head(jobs)  BY <1>3
<1>5. PICK j : j = [pc |-> "start", id |-> job.id, claimed |-> job.claimed, work |-> job.work, key |-> 0]  OBVIOUS
<1>6. job.id \in Ids /\ job.id \in Nat /\ job.claimed \in BOOLEAN /\ job.work \in LinkRows \cup {<<>>}
  BY <1>2, <1>4, ScenarioFacts DEF Requests
<1>7. j \in Jobs /\ j.pc = "start" /\ j.id = job.id /\ j.claimed = job.claimed /\ j.work = job.work
  BY <1>5, <1>6 DEF Jobs, Stages
<1>8. worker' = [worker EXCEPT ![w] = j]  BY <1>4, <1>5 DEF receive, Becomes
<1>9. WorkersTyped' /\ worker'[w] = j /\ \A v \in Pool : v # w => worker'[v] = worker[v]
  BY <1>1, <1>2, <1>6, <1>7, <1>8, WorkerSet
<1>10. recovery' \in [needed : BOOLEAN, wake : BOOLEAN] /\ (recovery.wake => recovery'.wake)
       /\ (recovery.needed => IF jobs' = <<>> THEN recovery'.wake ELSE recovery'.needed)
  <2>1. recovery \in [needed : BOOLEAN, wake : BOOLEAN]  BY <1>2 DEF QueueTyped
  <2>2. CASE jobs' = <<>> /\ recovery.needed
    <3>1. recovery' = [needed |-> FALSE, wake |-> TRUE]  BY <1>1, <2>2 DEF wakeRecoveryIfNeeded
    <3>2. recovery' \in [needed : BOOLEAN, wake : BOOLEAN] /\ recovery'.wake  BY <3>1
    <3>3. QED  BY <2>2, <3>2
  <2>3. CASE ~(jobs' = <<>> /\ recovery.needed)
    <3>1. recovery' = recovery  BY <1>1, <2>3 DEF wakeRecoveryIfNeeded
    <3>2. QED  BY <2>1, <2>3, <3>1
  <2>4. QED  BY <2>2, <2>3
<1>11. PreviewTyped'
  BY <1>1, <1>2, <1>3, <1>9, <1>10 DEF PreviewTyped, LinksTyped, QueueTyped, SweepTyped, HandlersTyped
<1>12. LinksTyped' /\ Moves /\ AnswersCurrent'  BY <1>1, RowsKept
<1>13. WorkKnown'
  <2>1. \A i \in DOMAIN jobs' : \E k \in DOMAIN jobs : jobs[k] = jobs'[i]  BY <1>3
  <2>2. WorkerKnows(w)'
    <3>1. PICK id, work : id = job.id /\ work = job.work  OBVIOUS
    <3>2. job.claimed => Snap(id, work)  BY <1>3, <1>4, <3>1 DEF PvInv, WorkKnown
    <3>3. job.claimed => Snap(id, work)'  BY <1>1, <1>6, <3>1, <3>2, RowsKept
    <3>4. QED  BY <1>7, <1>9, <3>1, <3>3 DEF WorkerKnows, Loaded, Bare
  <2>3. \A v \in Pool : worker'[v] = worker[v] \/ WorkerKnows(v)'  BY <1>9, <2>2
  <2>4. QED  BY <1>1, <1>2, <1>11, <1>12, <2>1, <2>3, NextWork DEF PvInv
<1>14. ImagesOwned' /\ ObjectsKept'
  <2>1. \A v \in Pool : Publishing(v)' => Publishing(v) /\ worker'[v].key = worker[v].key  BY <1>7, <1>9 DEF Publishing
  <2>2. QED  BY <1>1, <2>1, ImagesKept
<1>15. \A v \in Pool : Busy(v)' <=> v = w \/ Busy(v)  BY <1>7, <1>9 DEF Busy
<1>16. ~Busy(w)  BY <1>1 DEF Busy
<1>17. \A v \in Pool : Busy(v) => v # w /\ worker'[v] = worker[v] /\ worker[v].id # job.id
  BY <1>3, <1>4, <1>9, <1>16 DEF PvInv, SlotsMatch
<1>18. \A i \in DOMAIN jobs' : jobs'[i].id # job.id
  BY <1>3, <1>4 DEF PvInv, SlotsMatch
<1>19. SlotsMatch'
  <2>1. \A i \in DOMAIN jobs' : LET s == scheduled[jobs'[i].id] IN s.in /\ ~s.running /\ s.recovery = jobs'[i].claimed
    BY <1>3 DEF PvInv, SlotsMatch
  <2>2. \A v \in Pool : Busy(v)' => LET s == scheduled[worker'[v].id]
                                    IN s.in /\ s.recovery = worker'[v].claimed /\ (s.running <=> worker'[v].pc # "start")
    <3>1. LET s == scheduled[job.id] IN s.in /\ ~s.running /\ s.recovery = job.claimed
      BY <1>3, <1>4 DEF PvInv, SlotsMatch
    <3>2. \A v \in Pool : Busy(v) => LET s == scheduled[worker[v].id]
                                     IN s.in /\ s.recovery = worker[v].claimed /\ (s.running <=> worker[v].pc # "start")
      BY DEF PvInv, SlotsMatch
    <3>3. QED  BY <1>7, <1>9, <1>15, <1>17, <3>1, <3>2
  <2>3. ASSUME NEW i \in DOMAIN jobs', NEW k \in DOMAIN jobs', jobs'[i].id = jobs'[k].id  PROVE i = k
    <3>1. i + 1 = k + 1  BY <1>3, <2>3 DEF PvInv, SlotsMatch
    <3>2. i \in Nat /\ k \in Nat  BY <1>3
    <3>3. QED  BY <3>1, <3>2
  <2>4. \A i \in DOMAIN jobs' : \A v \in Pool : Busy(v)' => jobs'[i].id # worker'[v].id
    <3>1. \A i \in DOMAIN jobs : \A v \in Pool : Busy(v) => jobs[i].id # worker[v].id  BY DEF PvInv, SlotsMatch
    <3>2. QED  BY <1>3, <1>7, <1>9, <1>15, <1>17, <1>18, <3>1
  <2>5. \A u, v \in Pool : Busy(u)' /\ Busy(v)' /\ worker'[u].id = worker'[v].id => u = v
    <3>1. \A u, v \in Pool : Busy(u) /\ Busy(v) /\ worker[u].id = worker[v].id => u = v  BY DEF PvInv, SlotsMatch
    <3>2. QED  BY <1>7, <1>9, <1>15, <1>17, <3>1
  <2>6. ASSUME NEW id \in Ids, scheduled[id].in
        PROVE  (\E i \in DOMAIN jobs' : jobs'[i].id = id) \/ (\E v \in Pool : Busy(v)' /\ worker'[v].id = id)
    <3>1. (\E i \in DOMAIN jobs : jobs[i].id = id) \/ (\E v \in Pool : Busy(v) /\ worker[v].id = id)
      BY <2>6 DEF PvInv, SlotsMatch
    <3>2. CASE \E i \in DOMAIN jobs : jobs[i].id = id
      <4>1. PICK i \in DOMAIN jobs : jobs[i].id = id  BY <3>2
      <4>2. CASE i = 1  BY <1>4, <1>7, <1>9, <1>15, <4>1, <4>2
      <4>3. CASE i # 1
        <5>1. PICK k \in DOMAIN jobs' : k + 1 = i  BY <1>3, <4>3
        <5>2. jobs'[k].id = id  BY <1>3, <4>1, <5>1
        <5>3. QED  BY <5>2
      <4>4. QED  BY <4>2, <4>3
    <3>3. CASE \E v \in Pool : Busy(v) /\ worker[v].id = id  BY <1>15, <1>17, <3>3
    <3>4. QED  BY <3>1, <3>2, <3>3
  <2>7. QED  BY <1>1, <1>2, <2>1, <2>2, <2>3, <2>4, <2>5, <2>6 DEF SlotsMatch
<1>20. ASSUME NEW id \in Ids  PROVE Covered(id)'
  <2> SUFFICES ASSUME Good(id)'  PROVE IF scheduled[id].in THEN Scheduled(id)' ELSE TodoFresh(id)' /\ Recovering(id)'
    BY <1>1 DEF Covered
  <2>1. Good(id) /\ Covered(id)  BY <1>1 DEF Good, PvInv, AllCovered
  <2>2. CASE ~scheduled[id].in
    <3>1. TodoFresh(id) /\ Recovering(id)  BY <2>1, <2>2 DEF Covered
    <3>2. TodoFresh(id)'  BY <1>1, <3>1 DEF TodoFresh, Fresh
    <3>3. (recovery.needed /\ jobs # <<>>) \/ recovery.wake => (recovery'.needed /\ jobs' # <<>>) \/ recovery'.wake
      BY <1>10
    <3>4. Recovering(id)'  BY <1>1, <3>1, <3>3 DEF Recovering, Fresh
    <3>5. QED  BY <2>2, <3>2, <3>4
  <2>3. CASE scheduled[id].in
    <3>1. Scheduled(id)  BY <2>1, <2>3 DEF Covered
    <3>2. CASE \E i \in DOMAIN jobs : Fresh(id, jobs[i])
      <4>1. PICK i \in DOMAIN jobs : Fresh(id, jobs[i])  BY <3>2
      <4>2. CASE i = 1
        <5>1. Works(w, id)'  BY <1>1, <1>4, <1>7, <1>9, <4>1, <4>2 DEF Works, Fresh
        <5>2. QED  BY <1>2, <2>3, <5>1 DEF Scheduled
      <4>3. CASE i # 1
        <5>1. PICK k \in DOMAIN jobs' : k + 1 = i  BY <1>3, <4>3
        <5>2. jobs'[k] = jobs[i]  BY <1>3, <5>1
        <5>3. QED  BY <1>1, <2>3, <4>1, <5>2 DEF Scheduled, Fresh
      <4>4. QED  BY <4>2, <4>3
    <3>3. CASE \E v \in Pool : Works(v, id)
      <4>1. PICK v \in Pool : Works(v, id)  BY <3>3
      <4>2. Busy(v)  BY <4>1 DEF Works, Busy
      <4>3. worker'[v] = worker[v]  BY <1>17, <4>2
      <4>4. Works(v, id)'  BY <1>1, <4>1, <4>3 DEF Works, Fresh
      <4>5. QED  BY <1>2, <2>3, <4>4 DEF Scheduled
    <3>4. CASE scheduled[id].rerun  BY <1>1, <2>3, <3>4 DEF Scheduled
    <3>5. QED  BY <3>1, <3>2, <3>3, <3>4 DEF Scheduled
  <2>4. QED  BY <2>2, <2>3
<1>21. AllCovered'  BY <1>2, <1>20 DEF AllCovered
<1>22. QED  BY <1>11, <1>12, <1>13, <1>14, <1>19, <1>21 DEF PvInv

\* From now on a request of the link asks for a rerun.
LEMMA StartKeeps == ASSUME PvInv, NEW w \in Pool, startJob(w)  PROVE PvInv'
<1>1. /\ worker[w].pc = "start" /\ Becomes(w, To(w, "load"))
      /\ UNCHANGED <<pv, rows, jobs, recovery, sweep, handlers, bucket, missed, left>>
      /\ UNCHANGED <<waiting, manual, trash, objects, keys, stalled, dropped>>
  BY DEF startJob, handlers, bucket, missed
<1>2. PreviewTyped /\ LinksTyped /\ QueueTyped /\ WorkersTyped /\ Ids' = Ids /\ Pool' = Pool /\ Requests' = Requests
  BY <1>1, SameScenario DEF PvInv, PreviewTyped
<1>3. PICK id \in Ids : id = worker[w].id  BY <1>1, <1>2 DEF WorkersTyped
<1>4. PICK j : j = To(w, "load")  OBVIOUS
<1>5. j \in Jobs /\ j.pc = "load" /\ j.id = id /\ j.claimed = worker[w].claimed /\ j.work = worker[w].work
  BY <1>2, <1>3, <1>4, GoesTo DEF Stages
<1>6. worker' = [worker EXCEPT ![w] = j]  BY <1>1, <1>4 DEF Becomes
<1>7. WorkersTyped' /\ worker'[w] = j /\ \A v \in Pool : v # w => worker'[v] = worker[v]
  BY <1>1, <1>2, <1>3, <1>5, <1>6, WorkerSet
<1>8. PICK s : s = [scheduled[id] EXCEPT !.running = TRUE]  OBVIOUS
<1>9. s \in Slots /\ s.running /\ s.rerun = scheduled[id].rerun /\ s.recovery = scheduled[id].recovery /\ s.in = scheduled[id].in
  <2>1. scheduled[id] \in Slots  BY <1>2, <1>3 DEF QueueTyped
  <2>2. QED  BY <1>8, <2>1 DEF Slots
<1>10. scheduled' \in [Ids -> Slots] /\ scheduled'[id] = s /\ \A i \in Ids : i # id => scheduled'[i] = scheduled[i]
  <2>1. scheduled \in [Ids -> Slots]  BY <1>2 DEF QueueTyped
  <2>2. scheduled' = [scheduled EXCEPT ![id] = s]  BY <1>3, <1>8, <2>1 DEF startJob
  <2>3. QED  BY <1>3, <1>9, <2>1, <2>2
<1>11. PreviewTyped'
  BY <1>1, <1>2, <1>7, <1>10 DEF PreviewTyped, LinksTyped, QueueTyped, SweepTyped, HandlersTyped
<1>12. LinksTyped' /\ Moves /\ AnswersCurrent'  BY <1>1, RowsKept
<1>13. WorkKnown'
  <2>1. WorkerKnows(w)'
    <3>1. PICK work : work = worker[w].work  OBVIOUS
    <3>2. worker[w].claimed => Snap(id, work)  BY <1>1, <1>3, <3>1 DEF PvInv, WorkKnown
    <3>3. worker[w].claimed => Snap(id, work)'  BY <1>1, <1>3, <3>2, RowsKept
    <3>4. QED  BY <1>5, <1>7, <3>1, <3>3 DEF WorkerKnows, Loaded, Bare
  <2>2. \A v \in Pool : worker'[v] = worker[v] \/ WorkerKnows(v)'  BY <1>7, <2>1
  <2>3. QED  BY <1>1, <1>2, <1>11, <1>12, <2>2, NextWork DEF PvInv
<1>14. ImagesOwned' /\ ObjectsKept'
  <2>1. \A v \in Pool : Publishing(v)' => Publishing(v) /\ worker'[v].key = worker[v].key  BY <1>5, <1>7 DEF Publishing
  <2>2. QED  BY <1>1, <2>1, ImagesKept
<1>15. /\ Busy(w) /\ (\A v \in Pool : Busy(v)' <=> Busy(v)) /\ \A v \in Pool : worker'[v].id = worker[v].id
  BY <1>1, <1>3, <1>5, <1>7 DEF Busy
<1>16. (\A v \in Pool : Busy(v) /\ v # w => worker[v].id \in Ids /\ worker[v].id # id)
       /\ \A i \in DOMAIN jobs : jobs[i].id \in Ids /\ jobs[i].id # id
  <2>1. \A v \in Pool : Busy(v) => worker[v].id \in Ids  BY <1>2 DEF WorkersTyped, Busy
  <2>2. \A i \in DOMAIN jobs : jobs[i].id \in Ids  BY <1>2, JobsTyped
  <2>3. QED  BY <1>3, <1>15, <2>1, <2>2 DEF PvInv, SlotsMatch
<1>17. SlotsMatch'
  <2>1. \A i \in DOMAIN jobs : LET q == scheduled'[jobs[i].id] IN q.in /\ ~q.running /\ q.recovery = jobs[i].claimed
    BY <1>10, <1>16 DEF PvInv, SlotsMatch
  <2>2. \A v \in Pool : Busy(v) => LET q == scheduled'[worker'[v].id]
                                   IN q.in /\ q.recovery = worker'[v].claimed /\ (q.running <=> worker'[v].pc # "start")
    <3>1. \A v \in Pool : Busy(v) => LET q == scheduled[worker[v].id]
                                     IN q.in /\ q.recovery = worker[v].claimed /\ (q.running <=> worker[v].pc # "start")
      BY DEF PvInv, SlotsMatch
    <3>2. s.in /\ s.recovery = j.claimed  BY <1>3, <1>5, <1>9, <1>15, <3>1
    <3>3. QED  BY <1>3, <1>5, <1>7, <1>9, <1>10, <1>16, <3>1, <3>2
  <2>3. \A i \in Ids : scheduled'[i].in => scheduled[i].in  BY <1>9, <1>10
  <2>4. QED  BY <1>1, <1>2, <1>15, <2>1, <2>2, <2>3 DEF PvInv, SlotsMatch
<1>18. ASSUME NEW i \in Ids  PROVE Covered(i)'
  <2>1. Good(i)' => Good(i)  BY <1>1 DEF Good
  <2>2. Covered(i)  BY DEF PvInv, AllCovered
  <2>3. CASE i # id
    <3>1. \A v \in Pool : Works(v, i) => worker'[v] = worker[v]  BY <1>3, <1>7, <2>3 DEF Works, Fresh
    <3>2. Recovering(i) => Recovering(i)'  BY <1>1, RecoveringStays
    <3>3. QED  BY <1>1, <1>10, <2>1, <2>2, <2>3, <3>1, <3>2, CoverStays
  <2>4. CASE i = id
    <3>1. scheduled[id].in /\ scheduled'[id].in /\ scheduled'[id].rerun = scheduled[id].rerun
      BY <1>3, <1>9, <1>10, <1>15 DEF PvInv, SlotsMatch
    <3>2. SUFFICES ASSUME Good(id)'  PROVE Scheduled(id)'
      BY <2>4, <3>1 DEF Covered
    <3>3. Scheduled(id)  BY <2>1, <2>2, <2>4, <3>1, <3>2 DEF Covered
    <3>4. CASE scheduled[id].rerun  BY <3>1, <3>4 DEF Scheduled
    <3>5. CASE \E k \in DOMAIN jobs : Fresh(id, jobs[k])  BY <1>16, <3>5 DEF Fresh
    <3>6. CASE \E v \in Pool : Works(v, id)
      <4>1. PICK v \in Pool : Works(v, id)  BY <3>6
      <4>2. Busy(v) /\ worker[v].id = id  BY <4>1 DEF Works, Fresh, Busy
      <4>3. v = w  BY <1>16, <4>2
      <4>4. Works(w, id)'  BY <1>1, <1>5, <1>7, <4>1, <4>3 DEF Works, Fresh
      <4>5. QED  BY <1>2, <4>4 DEF Scheduled
    <3>7. QED  BY <3>3, <3>4, <3>5, <3>6 DEF Scheduled
  <2>5. QED  BY <2>3, <2>4
<1>19. AllCovered'  BY <1>2, <1>18 DEF AllCovered
<1>20. QED  BY <1>11, <1>12, <1>13, <1>14, <1>17, <1>19 DEF PvInv

\* A job that ended runs again if it was asked to and the channel has a place.
LEMMA FinishKeeps == ASSUME PvInv, NEW w \in Pool, finishJob(w)  PROVE PvInv'
<1>1. /\ worker[w].pc = "finish" /\ worker' = [worker EXCEPT ![w] = Resting]
      /\ UNCHANGED <<pv, rows, sweep, handlers, bucket, stalled, left>>
      /\ UNCHANGED <<waiting, manual, trash, objects, keys>>
  BY DEF finishJob, handlers, bucket
<1>2. PreviewTyped /\ LinksTyped /\ QueueTyped /\ WorkersTyped /\ Ids' = Ids /\ Pool' = Pool /\ Requests' = Requests
  BY <1>1, SameScenario DEF PvInv, PreviewTyped
<1>3. PICK id \in Ids : id = worker[w].id  BY <1>1, <1>2 DEF WorkersTyped
<1>4. Resting \in Jobs /\ Resting.pc = "idle"  BY DEF Resting, Jobs, Stages
<1>5. WorkersTyped' /\ worker'[w] = Resting /\ \A v \in Pool : v # w => worker'[v] = worker[v]
  BY <1>1, <1>2, <1>4, WorkerSet
<1>6. PICK job : job = [id |-> id, claimed |-> FALSE, work |-> <<>>]  OBVIOUS
<1>7. job \in Requests /\ job.id = id /\ job.claimed = FALSE  BY <1>3, <1>6 DEF Requests
<1>8. PICK again : again = [NotScheduled EXCEPT !.in = TRUE]  OBVIOUS
<1>9. /\ NotScheduled \in Slots /\ ~NotScheduled.in
      /\ again \in Slots /\ again.in /\ ~again.running /\ again.recovery = FALSE
  BY <1>8 DEF NotScheduled, Slots
<1>10. PICK rerun \in BOOLEAN : rerun = scheduled[id].rerun  BY <1>2, <1>3 DEF QueueTyped, Slots
<1>11. \/ /\ rerun /\ Room /\ scheduled' = [scheduled EXCEPT ![id] = again] /\ jobs' = Append(jobs, job)
          /\ recovery' = recovery /\ dropped' = dropped
       \/ /\ rerun /\ ~Room /\ scheduled' = [scheduled EXCEPT ![id] = NotScheduled] /\ jobs' = jobs
          /\ recovery' = requireRecovery(jobs) /\ dropped' = dropped \cup {id}
       \/ /\ ~rerun /\ scheduled' = [scheduled EXCEPT ![id] = NotScheduled] /\ jobs' = jobs
          /\ recovery' = recovery /\ dropped' = dropped
  BY <1>3, <1>6, <1>8, <1>10 DEF finishJob
<1>12. PICK s \in Slots : /\ scheduled' = [scheduled EXCEPT ![id] = s]
                          /\ \/ rerun /\ Room /\ s = again
                             \/ ~(rerun /\ Room) /\ s = NotScheduled
  BY <1>9, <1>11
<1>13. scheduled' \in [Ids -> Slots] /\ scheduled'[id] = s /\ \A i \in Ids : i # id => scheduled'[i] = scheduled[i]
  BY <1>2, <1>3, <1>12 DEF QueueTyped
<1>14. /\ recovery' \in [needed : BOOLEAN, wake : BOOLEAN] /\ (recovery.wake => recovery'.wake)
       /\ (recovery.needed => recovery'.needed)
  <2>1. recovery \in [needed : BOOLEAN, wake : BOOLEAN]  BY <1>2 DEF QueueTyped
  <2>2. CASE rerun /\ ~Room
    <3>1. jobs # <<>>  BY <1>2, <2>2, FullChannel
    <3>2. recovery' = requireRecovery(jobs)  BY <1>11, <2>2
    <3>3. recovery' = [needed |-> TRUE, wake |-> recovery.wake]  BY <2>1, <3>1, <3>2 DEF requireRecovery
    <3>4. recovery' \in [needed : BOOLEAN, wake : BOOLEAN] /\ recovery'.needed /\ recovery'.wake = recovery.wake
      BY <2>1, <3>3
    <3>5. QED  BY <3>4
  <2>3. CASE ~(rerun /\ ~Room)
    <3>1. recovery' = recovery  BY <1>11, <2>3
    <3>2. QED  BY <2>1, <3>1
  <2>4. QED  BY <2>2, <2>3
<1>15. /\ jobs' \in Seq(Requests) /\ (jobs # <<>> => jobs' # <<>>)
       /\ \A i \in DOMAIN jobs : i \in DOMAIN jobs' /\ jobs'[i] = jobs[i]
       /\ \A i \in DOMAIN jobs' : i \in DOMAIN jobs \/ (rerun /\ Room /\ jobs'[i] = job)
       /\ \A i, k \in DOMAIN jobs' : i \notin DOMAIN jobs /\ k \notin DOMAIN jobs => i = k
       /\ (rerun /\ Room => \E i \in DOMAIN jobs' : jobs'[i] = job)
  <2>1. jobs \in Seq(Requests)  BY <1>2 DEF QueueTyped
  <2>2. CASE ~(rerun /\ Room)
    <3>1. jobs' = jobs  BY <1>11, <2>2
    <3>2. QED  BY <2>1, <2>2, <3>1
  <2>3. CASE rerun /\ Room
    <3>1. jobs' = Append(jobs, job)  BY <1>11, <2>3
    <3>2. PICK n : n = Len(jobs) + 1  OBVIOUS
    <3>3. /\ jobs' \in Seq(Requests) /\ jobs' # <<>> /\ n \in DOMAIN jobs' /\ jobs'[n] = job /\ n \notin DOMAIN jobs
          /\ \A i \in DOMAIN jobs : i \in DOMAIN jobs' /\ jobs'[i] = jobs[i]
          /\ \A i \in DOMAIN jobs' : i \in DOMAIN jobs \/ i = n
      BY <1>7, <2>1, <3>1, <3>2, AppendOf
    <3>4. QED  BY <2>3, <3>3
  <2>4. QED  BY <2>2, <2>3
<1>16. PreviewTyped'
  BY <1>1, <1>2, <1>5, <1>13, <1>14, <1>15 DEF PreviewTyped, LinksTyped, QueueTyped, SweepTyped, HandlersTyped
<1>17. LinksTyped' /\ Moves /\ AnswersCurrent'  BY <1>1, RowsKept
<1>18. WorkKnown'
  <2>1. \A i \in DOMAIN jobs' : jobs'[i].claimed => \E k \in DOMAIN jobs : jobs[k] = jobs'[i]  BY <1>7, <1>15
  <2>2. WorkerKnows(w)'  BY <1>4, <1>5 DEF WorkerKnows, Loaded, Bare
  <2>3. \A v \in Pool : worker'[v] = worker[v] \/ WorkerKnows(v)'  BY <1>5, <2>2
  <2>4. QED  BY <1>1, <1>2, <1>16, <1>17, <2>1, <2>3, NextWork DEF PvInv
<1>19. ImagesOwned' /\ ObjectsKept'
  <2>1. \A v \in Pool : Publishing(v)' => Publishing(v) /\ worker'[v].key = worker[v].key  BY <1>4, <1>5 DEF Publishing
  <2>2. QED  BY <1>1, <2>1, ImagesKept
<1>20. \A v \in Pool : Busy(v)' <=> Busy(v) /\ v # w  BY <1>4, <1>5 DEF Busy
<1>21. (\A v \in Pool : Busy(v) /\ v # w => worker[v].id \in Ids /\ worker[v].id # id)
       /\ \A i \in DOMAIN jobs : jobs[i].id \in Ids /\ jobs[i].id # id
  <2>1. \A v \in Pool : Busy(v) => worker[v].id \in Ids  BY <1>2 DEF WorkersTyped, Busy
  <2>2. \A i \in DOMAIN jobs : jobs[i].id \in Ids  BY <1>2, JobsTyped
  <2>3. Busy(w)  BY <1>1 DEF Busy
  <2>4. QED  BY <1>3, <2>1, <2>2, <2>3 DEF PvInv, SlotsMatch
<1>22. SlotsMatch'
  <2>1. \A i \in DOMAIN jobs' : LET q == scheduled'[jobs'[i].id] IN q.in /\ ~q.running /\ q.recovery = jobs'[i].claimed
    <3>1. \A i \in DOMAIN jobs : LET q == scheduled[jobs[i].id] IN q.in /\ ~q.running /\ q.recovery = jobs[i].claimed
      BY DEF PvInv, SlotsMatch
    <3>2. rerun /\ Room => s.in /\ ~s.running /\ s.recovery = job.claimed  BY <1>7, <1>9, <1>12
    <3>3. QED  BY <1>7, <1>13, <1>15, <1>21, <3>1, <3>2
  <2>2. \A v \in Pool : Busy(v)' => LET q == scheduled'[worker'[v].id]
                                    IN q.in /\ q.recovery = worker'[v].claimed /\ (q.running <=> worker'[v].pc # "start")
    <3>1. \A v \in Pool : Busy(v) => LET q == scheduled[worker[v].id]
                                     IN q.in /\ q.recovery = worker[v].claimed /\ (q.running <=> worker[v].pc # "start")
      BY DEF PvInv, SlotsMatch
    <3>2. QED  BY <1>5, <1>13, <1>20, <1>21, <3>1
  <2>3. \A i, k \in DOMAIN jobs' : jobs'[i].id = jobs'[k].id => i = k
    <3>1. \A i, k \in DOMAIN jobs : jobs[i].id = jobs[k].id => i = k  BY DEF PvInv, SlotsMatch
    <3>2. QED  BY <1>7, <1>15, <1>21, <3>1
  <2>4. \A i \in DOMAIN jobs' : \A v \in Pool : Busy(v)' => jobs'[i].id # worker'[v].id
    <3>1. \A i \in DOMAIN jobs : \A v \in Pool : Busy(v) => jobs[i].id # worker[v].id  BY DEF PvInv, SlotsMatch
    <3>2. QED  BY <1>5, <1>7, <1>15, <1>20, <1>21, <3>1
  <2>5. \A u, v \in Pool : Busy(u)' /\ Busy(v)' /\ worker'[u].id = worker'[v].id => u = v
    BY <1>5, <1>20 DEF PvInv, SlotsMatch
  <2>6. ASSUME NEW i \in Ids, scheduled'[i].in
        PROVE  (\E k \in DOMAIN jobs' : jobs'[k].id = i) \/ (\E v \in Pool : Busy(v)' /\ worker'[v].id = i)
    <3>1. CASE i = id
      <4>1. rerun /\ Room  BY <1>9, <1>12, <1>13, <2>6, <3>1
      <4>2. QED  BY <1>7, <1>15, <3>1, <4>1
    <3>2. CASE i # id
      <4>1. (\E k \in DOMAIN jobs : jobs[k].id = i) \/ (\E v \in Pool : Busy(v) /\ worker[v].id = i)
        BY <1>13, <2>6, <3>2 DEF PvInv, SlotsMatch
      <4>2. QED  BY <1>3, <1>5, <1>15, <1>20, <3>2, <4>1
    <3>3. QED  BY <3>1, <3>2
  <2>7. QED  BY <1>2, <2>1, <2>2, <2>3, <2>4, <2>5, <2>6 DEF SlotsMatch
<1>23. ASSUME NEW i \in Ids  PROVE Covered(i)'
  <2>1. CASE i # id
    <3>1. Good(i)' => Good(i)  BY <1>1, <1>11 DEF Good
    <3>2. \A v \in Pool : Works(v, i) => worker'[v] = worker[v]  BY <1>3, <1>5, <2>1 DEF Works, Fresh
    <3>3. Recovering(i) => Recovering(i)'  BY <1>1, <1>14, <1>15 DEF Recovering, Fresh
    <3>4. \A k \in DOMAIN jobs : jobs[k].id = i => \E m \in DOMAIN jobs' : jobs'[m] = jobs[k]  BY <1>15
    <3>5. Covered(i)  BY DEF PvInv, AllCovered
    <3>6. QED  BY <1>1, <1>13, <2>1, <3>1, <3>2, <3>3, <3>4, <3>5, CoverStays
  <2>2. CASE i = id /\ rerun /\ Room
    <3>1. scheduled'[id].in  BY <1>9, <1>12, <1>13, <2>2
    <3>2. PICK k \in DOMAIN jobs' : jobs'[k] = job  BY <1>15, <2>2
    <3>3. Scheduled(id)'  BY <1>7, <3>2 DEF Scheduled, Fresh
    <3>4. QED  BY <2>2, <3>1, <3>3 DEF Covered
  <2>3. CASE i = id /\ rerun /\ ~Room  BY <1>11, <2>3 DEF Covered, Good
  <2>4. CASE i = id /\ ~rerun
    <3>1. scheduled[id].in  BY <1>1, <1>3 DEF PvInv, SlotsMatch, Busy
    <3>2. ~Scheduled(id)
      <4>1. \A k \in DOMAIN jobs : ~Fresh(id, jobs[k])  BY <1>21 DEF Fresh
      <4>2. ASSUME NEW v \in Pool, Works(v, id)  PROVE FALSE
        <5>1. Busy(v) /\ worker[v].id = id /\ worker[v].pc # "finish"  BY <4>2 DEF Works, Fresh, Busy
        <5>2. QED  BY <1>1, <1>21, <5>1
      <4>3. QED  BY <1>10, <2>4, <4>1, <4>2 DEF Scheduled
    <3>3. ~Good(id)  BY <1>3, <3>1, <3>2 DEF PvInv, AllCovered, Covered
    <3>4. ~Good(id)'  BY <1>1, <1>11, <2>4, <3>3 DEF Good
    <3>5. QED  BY <2>4, <3>4 DEF Covered
  <2>5. QED  BY <2>1, <2>2, <2>3, <2>4
<1>24. AllCovered'  BY <1>2, <1>23 DEF AllCovered
<1>25. QED  BY <1>16, <1>17, <1>18, <1>19, <1>22, <1>24 DEF PvInv

-----------------------------------------------------------------------------

\* The program starts with empty hands and a wake-up.
LEMMA PreviewStart == ASSUME PreviewInit  PROVE PvInv
<1>1. /\ pv.status \in Seq(Statuses) /\ pv.workers \in Nat \ {0}
      /\ {pv.refreshes, pv.edits, pv.images, pv.losses, pv.faults} \subseteq Nat
  BY PreviewAssumption DEF PreviewInit
<1>2. rows \in [Ids -> LinkRows] /\ \A id \in Ids : rows[id].img = NoImage /\ rows[id].ans = rows[id].asked
  <2>1. \A id \in Ids : pv.status[id] \in Statuses
    <3>1. \A id \in DOMAIN pv.status : pv.status[id] \in Statuses  BY <1>1, ElementOfSeq
    <3>2. QED  BY <3>1 DEF Ids
  <2>2. QED  BY <2>1 DEF PreviewInit, LinkRows, NoImage
<1>3. LinksTyped  BY <1>2 DEF PreviewInit, LinksTyped
<1>4. jobs = <<>> /\ jobs \in Seq(Requests) /\ DOMAIN jobs = {}
  <2>1. <<>> \in Seq(Requests) /\ Len(<<>>) = 0  BY EmptySeq
  <2>2. DOMAIN <<>> = 1..0  BY <2>1
  <2>3. QED  BY <2>1, <2>2 DEF PreviewInit
<1>5. NotScheduled \in Slots /\ ~NotScheduled.in /\ Resting \in Jobs /\ Resting.pc = "idle"
      /\ NoCapture \in [id : Nat, upd : Nat, img : Nat]
  BY DEF NotScheduled, Slots, Resting, Jobs, Stages, NoCapture, NoImage
<1>6. QueueTyped
  <2>1. recovery \in [needed : BOOLEAN, wake : BOOLEAN]  BY DEF PreviewInit
  <2>2. QED  BY <1>4, <1>5, <2>1 DEF PreviewInit, QueueTyped
<1>7. WorkersTyped /\ \A w \in Pool : worker[w].pc = "idle"  BY <1>5 DEF PreviewInit, WorkersTyped
<1>8. SweepTyped /\ sweep.todo = {}  BY DEF PreviewInit, SweepTyped, Asleep
<1>9. left \in [Counters -> Nat] /\ left.losses = pv.losses
  BY <1>1 DEF PreviewInit, Counters
<1>10. HandlersTyped  BY <1>5, <1>9 DEF PreviewInit, HandlersTyped
<1>11. PreviewTyped  BY <1>3, <1>6, <1>7, <1>8, <1>10 DEF PreviewTyped
<1>12. WorkKnown  BY <1>4, <1>7, <1>8 DEF WorkKnown, Loaded, Bare
<1>13. SlotsMatch
  <2>1. \A id \in Ids : ~scheduled[id].in  BY <1>5 DEF PreviewInit
  <2>2. QED  BY <1>4, <1>7, <2>1 DEF SlotsMatch, Busy
<1>14. ImagesOwned
  <2>1. keys = 1 /\ trash = {} /\ manual = NoCapture  BY DEF PreviewInit
  <2>2. NoImage \in (0..keys) \ trash  BY <2>1 DEF NoImage
  <2>3. QED  BY <1>2, <1>7, <2>1, <2>2 DEF ImagesOwned, Publishing
<1>15. ObjectsKept
  <2>1. pv.losses \in Nat  BY <1>1
  <2>2. QED  BY <1>2, <1>7, <1>9, <2>1 DEF ObjectsKept, Publishing
<1>16. AnswersCurrent  BY <1>2 DEF AnswersCurrent
<1>17. AllCovered
  <2>1. \A id \in Ids : ~scheduled[id].in  BY <1>5 DEF PreviewInit
  <2>2. recovery.wake  BY DEF PreviewInit
  <2>3. QED  BY <1>8, <2>1, <2>2 DEF AllCovered, Covered, TodoFresh, Recovering
<1>18. QED  BY <1>11, <1>12, <1>13, <1>14, <1>15, <1>16, <1>17 DEF PvInv

\* Nothing happens.
LEMMA PreviewIdle == ASSUME PvInv, UNCHANGED previewVars  PROVE PvInv'
<1>1. /\ UNCHANGED <<pv, rows, queue, worker, sweep, handlers, bucket, missed, left>>
      /\ UNCHANGED <<jobs, scheduled, recovery, waiting, manual, trash, objects, keys, stalled, dropped>>
  BY DEF previewVars, queue, handlers, bucket, missed
<1>2. PreviewTyped /\ Ids' = Ids /\ Pool' = Pool /\ Requests' = Requests  BY <1>1, SameScenario DEF PvInv
<1>3. PreviewTyped'
  BY <1>1, <1>2 DEF PreviewTyped, LinksTyped, QueueTyped, WorkersTyped, SweepTyped, HandlersTyped
<1>4. \A id \in Ids : rows'[id] = rows[id] /\ (Good(id)' => Good(id))  BY <1>1 DEF Good
<1>5. WorkKnown' /\ SlotsMatch' /\ AnswersCurrent' /\ AllCovered'  BY <1>1, <1>3, <1>4, UserWrites
<1>6. ImagesOwned' /\ ObjectsKept'  BY <1>1, ImagesKept DEF Publishing
<1>7. QED  BY <1>3, <1>5, <1>6 DEF PvInv

\* Every step keeps the invariant.
LEMMA PreviewStep == ASSUME PvInv, [PreviewNext]_previewVars  PROVE PvInv'
<1>1. CASE UNCHANGED previewVars  BY <1>1, PreviewIdle
<1>2. ASSUME NEW w \in Pool, Work(w)  PROVE PvInv'
  BY <1>2, ReceiveKeeps, StartKeeps, LoadKeeps, ShortCircuitKeeps, PublishPreviewKeeps, LookKeeps, CaptureKeeps,
     OGImageKeeps, ReleaseKeeps, FinishKeeps DEF Work
<1>3. ASSUME NEW w \in Pool, jobFails(w) \/ publishUnanswered(w)  PROVE PvInv'
  BY <1>3, FailKeeps, UnansweredKeeps
<1>4. CASE requeuePending \/ Sweep \/ publishScreenshot \/ restartWorker
  BY <1>4, RequeueKeeps, QueryKeeps, RefillKeeps, RefilledKeeps, PublishKeeps, RestartKeeps DEF Sweep
<1>5. ASSUME NEW id \in Ids, refreshPreview(id) \/ Enqueue(id) \/ editLink(id) \/ UploadImage(id) \/ admitCapture(id)
      PROVE  PvInv'
  BY <1>5, RefreshKeeps, EnqueueKeeps, EditKeeps, UploadKeeps, AdmitKeeps
<1>6. ASSUME NEW k \in 2..keys, lose(k) \/ deletePreviousLinkImage(k) \/ \E id \in Ids : healMissingObject(id, k)
      PROVE  PvInv'
  BY <1>6, LoseKeeps, DeleteKeeps, HealKeeps
<1>7. QED  BY <1>1, <1>2, <1>3, <1>4, <1>5, <1>6 DEF PreviewNext

\* The invariant of every run.
LEMMA PreviewInvariant == PreviewSpec => []PvInv
<1>1. PreviewInit => PvInv  BY PreviewStart
<1>2. PvInv /\ [PreviewNext]_previewVars => PvInv'  BY PreviewStep
<1> QED BY <1>1, <1>2, PTL DEF PreviewSpec

\* A refresh the channel took is not forgotten, whatever runs, ends or is requeued in between
\* (preview/worker.go: enqueue, finishJob and requeuePending): while its row waits, a job, a rerun or a
\* sweep that the next free slot starts stands for it.  And a row that is not pending has the answer
\* to its latest request: no job writes the answer to an earlier one (links/repository.go:
\* SystemUpdatePreviewIfUnchanged, on the row as the job read it).
THEOREM RequestsAreAnswered == PreviewSpec => []RequestsAnswered
<1>1. PvInv => RefreshCovered  BY DEF PvInv, AllCovered, Covered, Good, RefreshCovered
<1>2. PvInv => AnswersCurrent  BY DEF PvInv
<1> QED BY <1>1, <1>2, PreviewInvariant, PTL DEF RequestsAnswered

\* Until the store loses an object, the image a link shows is there: no cleanup of a picture that was
\* replaced, or that found its row changed, deletes it.
THEOREM ShownObjectsExist == PreviewSpec => []ShownObjectExists
<1>1. PvInv => ShownObjectExists  BY DEF PvInv, ObjectsKept, ShownObjectExists
<1> QED BY <1>1, PreviewInvariant, PTL

-----------------------------------------------------------------------------

AskedKept == \A id \in Ids : rows'[id].asked = rows[id].asked

\* An answer is no request.
LEMMA AnswerAsksNothing ==
    ASSUME LinksTyped, NEW id \in Ids, NEW a, NEW st, NEW k, rows' = [rows EXCEPT ![id] = Answer(rows[id], a, st, k)]
    PROVE  AskedKept
<1>1. rows[id] \in LinkRows  BY DEF LinksTyped
<1>2. PICK s : s = Stamp(rows[id])  OBVIOUS
<1>3. s \in LinkRows /\ s.asked = rows[id].asked  BY <1>1, <1>2 DEF Stamp, LinkRows
<1>4. PICK r : r = Answer(rows[id], a, st, k)  OBVIOUS
<1>5. r = [s EXCEPT !.ans = a, !.status = st, !.img = k]  BY <1>2, <1>4 DEF Answer
<1>6. r.asked = rows[id].asked  BY <1>3, <1>5 DEF LinkRows
<1>7. rows' = [rows EXCEPT ![id] = r]  BY <1>4
<1>8. \A j \in Ids : rows'[j] = IF j = id THEN r ELSE rows[j]  BY <1>7 DEF LinksTyped
<1>9. QED  BY <1>6, <1>8 DEF AskedKept

\* Nor is an edit.
LEMMA EditAsksNothing ==
    ASSUME LinksTyped, NEW id \in Ids, editLink(id)  PROVE AskedKept
<1>1. rows[id] \in LinkRows  BY DEF LinksTyped
<1>2. PICK q \in LinkRows : rows' = [rows EXCEPT ![id] = Stamp(q)] /\ q.asked = rows[id].asked
  <2>1. CASE rows' = [rows EXCEPT ![id] = Stamp([rows[id] EXCEPT !.url = @ + 1])]
    <3>1. PICK q : q = [rows[id] EXCEPT !.url = @ + 1]  OBVIOUS
    <3>2. q \in LinkRows /\ q.asked = rows[id].asked  BY <1>1, <3>1 DEF LinkRows
    <3>3. QED  BY <2>1, <3>1, <3>2
  <2>2. CASE rows' = [rows EXCEPT ![id] = Stamp([rows[id] EXCEPT !.img = NoImage])]
    <3>1. PICK q : q = [rows[id] EXCEPT !.img = NoImage]  OBVIOUS
    <3>2. q \in LinkRows /\ q.asked = rows[id].asked  BY <1>1, <3>1 DEF LinkRows, NoImage
    <3>3. QED  BY <2>2, <3>1, <3>2
  <2>3. QED  BY <2>1, <2>2 DEF editLink
<1>3. PICK r : r = Stamp(q)  OBVIOUS
<1>4. r.asked = rows[id].asked  BY <1>2, <1>3 DEF Stamp, LinkRows
<1>5. rows' = [rows EXCEPT ![id] = r]  BY <1>2, <1>3
<1>6. \A j \in Ids : rows'[j] = IF j = id THEN r ELSE rows[j]  BY <1>5 DEF LinksTyped
<1>7. QED  BY <1>4, <1>6 DEF AskedKept

\* A job asks for nothing.
LEMMA WorkAsksNothing ==
    ASSUME PvInv, NEW w \in Pool, Work(w) \/ jobFails(w) \/ publishUnanswered(w)  PROVE AskedKept
<1>1. LinksTyped  BY DEF PvInv, PreviewTyped
<1>2. CASE UNCHANGED rows  BY <1>2 DEF AskedKept
<1>3. ASSUME worker[w].pc \in Loaded, NEW st, NEW k, SystemUpdatePreviewIfUnchanged(w, st, k)  PROVE AskedKept
  <2>1. worker[w].id \in Ids  BY <1>3, AtWork
  <2>2. CASE Unchanged(w)
    <3>1. PICK image : rows' = [rows EXCEPT ![worker[w].id] = Answer(rows[worker[w].id], worker[w].work.asked, st, image)]
      BY <1>3, <2>2 DEF SystemUpdatePreviewIfUnchanged, Row
    <3>2. QED  BY <1>1, <2>1, <3>1, AnswerAsksNothing
  <2>3. CASE ~Unchanged(w)  BY <1>2, <1>3, <2>3 DEF SystemUpdatePreviewIfUnchanged
  <2>4. QED  BY <2>2, <2>3
<1>4. CASE shortCircuitExistingImage(w)  BY <1>3, <1>4 DEF shortCircuitExistingImage, Loaded
<1>5. CASE publishPreview(w)  BY <1>3, <1>5 DEF publishPreview, Loaded
<1>6. ASSUME worker[w].pc \in Loaded, NEW k, rows' = [rows EXCEPT ![worker[w].id] = Answer(Row(w), worker[w].work.asked, "ok", k)]
      PROVE  AskedKept
  BY <1>1, <1>6, AtWork, AnswerAsksNothing DEF Row
<1>7. CASE SystemUpdateOGImage(w) \/ SystemFinishScreenshotFallback(w) \/ publishUnanswered(w)
  BY <1>2, <1>6, <1>7 DEF SystemUpdateOGImage, SystemFinishScreenshotFallback, publishUnanswered, Loaded
<1>8. CASE receive(w) \/ startJob(w) \/ loadPendingPreview(w) \/ lookAgain(w) \/ capture(w) \/ finishJob(w) \/ jobFails(w)
  BY <1>2, <1>8 DEF receive, startJob, loadPendingPreview, lookAgain, capture, finishJob, jobFails
<1>9. QED  BY <1>4, <1>5, <1>7, <1>8 DEF Work

\* Only a refresh and a read of a missing object ask again.
LEMMA WhatAsks ==
    ASSUME PvInv, [PreviewNext]_previewVars
    PROVE  AskedKept \/ (\E id \in Ids : refreshPreview(id)) \/ \E id \in Ids : \E k \in 2..keys : healMissingObject(id, k)
<1>1. LinksTyped /\ HandlersTyped  BY DEF PvInv, PreviewTyped
<1>2. UNCHANGED rows => AskedKept  BY DEF AskedKept
<1>3. CASE UNCHANGED previewVars  BY <1>2, <1>3 DEF previewVars
<1>4. CASE \E w \in Pool : Work(w) \/ jobFails(w) \/ publishUnanswered(w)  BY <1>4, WorkAsksNothing
<1>5. CASE requeuePending \/ Sweep \/ restartWorker
  BY <1>2, <1>5 DEF requeuePending, Sweep, SystemPendingPreviews, enqueueRecovered, refilled, restartWorker
<1>6. CASE publishScreenshot
  <2>1. manual.id \in Ids  BY <1>1, <1>6 DEF publishScreenshot, HandlersTyped
  <2>2. UNCHANGED rows \/ rows' = [rows EXCEPT ![manual.id] = Answer(rows[manual.id], rows[manual.id].asked, "ok", storeKey(manual.id))]
    BY <1>6 DEF publishScreenshot
  <2>3. QED  BY <1>1, <1>2, <2>1, <2>2, AnswerAsksNothing
<1>7. ASSUME NEW id \in Ids, UploadImage(id)  PROVE AskedKept
  BY <1>1, <1>7, AnswerAsksNothing DEF UploadImage
<1>8. ASSUME NEW id \in Ids, Enqueue(id) \/ admitCapture(id)  PROVE AskedKept
  BY <1>2, <1>8 DEF Enqueue, admitCapture
<1>9. ASSUME NEW id \in Ids, editLink(id)  PROVE AskedKept
  BY <1>1, <1>9, EditAsksNothing
<1>10. ASSUME NEW k \in 2..keys, lose(k) \/ deletePreviousLinkImage(k)  PROVE AskedKept
  BY <1>2, <1>10 DEF lose, deletePreviousLinkImage
<1>11. QED  BY <1>3, <1>4, <1>5, <1>6, <1>7, <1>8, <1>9, <1>10 DEF PreviewNext

\* A refresh is a new generation of the row; a read that found no object resets the row that names
\* this object, and no other.
LEMMA HealsItsOwn ==
    ASSUME PvInv, [PreviewNext]_previewVars, NEW id \in Ids, rows'[id].asked # rows[id].asked, rows'[id].gen = rows[id].gen
    PROVE  rows[id].img \notin objects
<1>1. LinksTyped /\ rows[id] \in LinkRows  BY DEF PvInv, PreviewTyped, LinksTyped
<1>2. ~AskedKept  BY DEF AskedKept
<1>3. ASSUME NEW j \in Ids, refreshPreview(j)  PROVE FALSE
  <2>1. PICK q : q = Request(rows[j])  OBVIOUS
  <2>2. PICK r : r = [q EXCEPT !.gen = @ + 1]  OBVIOUS
  <2>3. rows' = [rows EXCEPT ![j] = r]  BY <1>3, <2>1, <2>2 DEF refreshPreview
  <2>4. \A i \in Ids : rows'[i] = IF i = j THEN r ELSE rows[i]  BY <1>1, <2>3 DEF LinksTyped
  <2>5. j = id  BY <2>4
  <2>6. q \in LinkRows /\ q.gen = rows[id].gen  BY <1>1, <2>1, <2>5, RequestRow
  <2>7. r.gen = rows[id].gen + 1  BY <2>2, <2>6 DEF LinkRows
  <2>8. rows[id].gen \in Nat  BY <1>1 DEF LinkRows
  <2>9. QED  BY <2>4, <2>5, <2>7, <2>8
<1>4. ASSUME NEW j \in Ids, NEW k, healMissingObject(j, k)  PROVE rows[id].img \notin objects
  <2>1. PICK r : r = [Request(rows[j]) EXCEPT !.img = NoImage]  OBVIOUS
  <2>2. rows' = [rows EXCEPT ![j] = r] /\ k \notin objects /\ rows[j].img = k  BY <1>4, <2>1 DEF healMissingObject
  <2>3. \A i \in Ids : rows'[i] = IF i = j THEN r ELSE rows[i]  BY <1>1, <2>2 DEF LinksTyped
  <2>4. QED  BY <2>2, <2>3
<1>5. QED  BY <1>2, <1>3, <1>4, WhatAsks

\* A row is asked for again by a refresh, or by a read of the very image it names: a reader of an
\* object that is gone resets no row that names a newer one (healMissingObject, a conditional update).
THEOREM HealingSparesNewer == PreviewSpec => HealSparesNewer
<1>1. PvInv /\ [PreviewNext]_previewVars =>
         [\A id \in Ids : rows'[id].asked # rows[id].asked /\ rows'[id].gen = rows[id].gen => rows[id].img \notin objects]_previewVars
  BY HealsItsOwn
<1> QED BY <1>1, PreviewInvariant, PTL DEF PreviewSpec, HealSparesNewer

===============================================================================

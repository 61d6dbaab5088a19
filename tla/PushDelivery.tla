----------------------------- MODULE PushDelivery -----------------------------
(***************************************************************************)
(* Web push.  An endpoint is a browser's channel and belongs to the        *)
(* account that subscribed it last.  A notification is sent to the         *)
(* channels its owner had when it was listed, and the ones the push        *)
(* service calls gone are deleted afterwards, while browsers subscribe.    *)
(***************************************************************************)
EXTENDS FiniteSets, Integers

CONSTANTS
    Endpoints,
    MaxSubscriptionsPerUser,
    PushScenarios           \* [clients: client -> its account, first: account -> its endpoints, senders, removals, status]

\* A scenario has finitely many endpoints; its browsers belong to its accounts, which start within the limit.
ASSUME SubscriptionsAssumption ==
    /\ MaxSubscriptionsPerUser \in Nat \ {0} /\ IsFiniteSet(Endpoints)
    /\ \A p \in PushScenarios :
          /\ p.clients \in [DOMAIN p.clients -> DOMAIN p.first]
          /\ \A u \in DOMAIN p.first :
                u # "none" /\ p.first[u] \subseteq Endpoints /\ Cardinality(p.first[u]) <= MaxSubscriptionsPerUser

VARIABLES
    ps,       \* the scenario
    subs,     \* endpoint -> [user, id], or NoSub
    client,   \* client -> [pc, ep]: a Save between its two statements
    fan,      \* sender -> [pc, user, todo, gone]: a notification's fan-out
    active,   \* accounts that are active
    dead,     \* endpoints the push service no longer knows
    ids,      \* row ids given so far
    quota     \* remaining unsubscribes and changes of an account's status

pushVars == <<ps, subs, client, fan, active, dead, ids, quota>>

Clients == DOMAIN ps.clients
Users == DOMAIN ps.first
Senders == 1..ps.senders
NoSub == [user |-> "none", id |-> 0]
NoSave == [pc |-> "idle", ep |-> "none"]
Owned(u) == {e \in Endpoints : subs[e].user = u}

PushInit ==
    /\ ps \in PushScenarios
    /\ subs \in [Endpoints -> {NoSub} \cup [user : Users, id : 1..Cardinality(Endpoints)]]
    /\ \A e \in Endpoints : \A u \in Users : subs[e].user = u <=> e \in ps.first[u]
    /\ \A e, f \in Endpoints : e # f /\ subs[e] # NoSub => subs[e].id # subs[f].id
    /\ client = [c \in Clients |-> NoSave]
    /\ fan = [n \in Senders |-> [pc |-> "idle", user |-> "none", todo |-> {}, gone |-> {}]]
    /\ active = Users /\ dead = {} /\ ids = Cardinality(Endpoints)
    /\ quota = [removals |-> ps.removals, status |-> ps.status]

Use(what) == quota[what] > 0 /\ quota' = [quota EXCEPT ![what] = @ - 1]

\* Mutant: the account's row is not locked.
slotUnlocked(c, e) ==
    /\ client[c].pc = "idle"
    /\ e \in Owned(ps.clients[c]) \/ Cardinality(Owned(ps.clients[c])) < MaxSubscriptionsPerUser
    /\ client' = [client EXCEPT ![c] = [pc |-> "reserved", ep |-> e]]
    /\ UNCHANGED <<ps, subs, fan, active, dead, ids, quota>>

\* Under the account's row lock: a known endpoint, or room for one more.
reserveSubscriptionSlot(c, e) ==
    /\ client[c].pc = "idle"
    /\ \A d \in Clients : ps.clients[d] = ps.clients[c] => client[d].pc # "reserved"
    /\ e \in Owned(ps.clients[c]) \/ Cardinality(Owned(ps.clients[c])) < MaxSubscriptionsPerUser
    /\ client' = [client EXCEPT ![c] = [pc |-> "reserved", ep |-> e]]
    /\ UNCHANGED <<ps, subs, fan, active, dead, ids, quota>>

\* The upsert takes the endpoint from whoever had it, and the row keeps its id.
Save(c) ==
    /\ client[c].pc = "reserved"
    /\ client' = [client EXCEPT ![c].pc = "saved"]
    /\ LET e == client[c].ep
       IN  IF subs[e] = NoSub
           THEN subs' = [subs EXCEPT ![e] = [user |-> ps.clients[c], id |-> ids + 1]] /\ ids' = ids + 1
           ELSE subs' = [subs EXCEPT ![e].user = ps.clients[c]] /\ UNCHANGED ids
    /\ UNCHANGED <<ps, fan, active, dead, quota>>

DeleteByEndpointForUser(u, e) ==
    /\ Use("removals") /\ subs[e].user = u
    /\ subs' = [subs EXCEPT ![e] = NoSub]
    /\ UNCHANGED <<ps, client, fan, active, dead, ids>>

expire(e) ==
    /\ e \notin dead /\ dead' = dead \cup {e}
    /\ UNCHANGED <<ps, subs, client, fan, active, ids, quota>>

setStatus(u) ==
    /\ Use("status") /\ active' = IF u \in active THEN active \ {u} ELSE active \cup {u}
    /\ UNCHANGED <<ps, subs, client, fan, dead, ids>>

-----------------------------------------------------------------------------
(* The sender *)

\* Notify: the channels of an owner who is active now.
List(n, u) ==
    /\ fan[n].pc = "idle" /\ u \in active /\ Owned(u) # {}
    /\ fan' = [fan EXCEPT ![n] = [pc |-> "send", user |-> u, todo |-> {[id |-> subs[e].id, ep |-> e] : e \in Owned(u)},
                                  gone |-> {}]]
    /\ UNCHANGED <<ps, subs, client, active, dead, ids, quota>>

\* fanOut, in any order; a network error changes nothing.
sendOne(n) ==
    /\ fan[n].pc = "send"
    /\ \E s \in fan[n].todo, heard \in BOOLEAN :
          fan' = [fan EXCEPT ![n].todo = @ \ {s}, ![n].gone = IF heard /\ s.ep \in dead THEN @ \cup {s.id} ELSE @]
    /\ UNCHANGED <<ps, subs, client, active, dead, ids, quota>>

\* Mutant: the rows by their ids alone.
deleteByIds(n) ==
    /\ fan[n].pc = "send" /\ fan[n].todo = {}
    /\ fan' = [fan EXCEPT ![n].pc = "done"]
    /\ subs' = [e \in Endpoints |-> IF subs[e].id \in fan[n].gone THEN NoSub ELSE subs[e]]
    /\ UNCHANGED <<ps, client, active, dead, ids, quota>>

\* persistResults: the rows that are still the owner's.
DeleteGone(n) ==
    /\ fan[n].pc = "send" /\ fan[n].todo = {}
    /\ fan' = [fan EXCEPT ![n].pc = "done"]
    /\ subs' = [e \in Endpoints |-> IF subs[e].id \in fan[n].gone /\ subs[e].user = fan[n].user THEN NoSub ELSE subs[e]]
    /\ UNCHANGED <<ps, client, active, dead, ids, quota>>

PushNext ==
    \/ \E c \in Clients : Save(c) \/ \E e \in Endpoints : reserveSubscriptionSlot(c, e)
    \/ \E e \in Endpoints : expire(e) \/ \E u \in Users : DeleteByEndpointForUser(u, e)
    \/ \E n \in Senders : sendOne(n) \/ DeleteGone(n) \/ \E u \in Users : List(n, u)
    \/ \E u \in Users : setStatus(u)
PushSpec == PushInit /\ [][PushNext]_pushVars

-----------------------------------------------------------------------------
(* Properties *)

\* Browsers that subscribe at the same time keep an account within its limit.
SubscriptionCap == \A u \in Users : Cardinality(Owned(u)) <= MaxSubscriptionsPerUser

\* A channel that moved to another account during a fan-out is not deleted by it.
MovedChannelKept ==
    [][\A n \in Senders, e \in Endpoints :
          fan[n].pc = "send" /\ fan'[n].pc = "done" /\ subs[e] # subs'[e] => subs[e].user = fan[n].user]_pushVars

\* An account keeps at most its limit of channels, and each of them until its own owner's fan-out
\* finds it gone.
ChannelsKept == []SubscriptionCap /\ MovedChannelKept
=============================================================================

--------------------------- MODULE BindingInvariant ---------------------------
(***************************************************************************)
(* The inductive invariants of Binding.  IInv is behind QuietAfterRelease  *)
(* and DeletedAlone: which poll threads live, who refers to them, and what *)
(* has been let go before the Java object is deleted.  DInv is behind      *)
(* Delivered: where the results of a request and its callback are.         *)
(***************************************************************************)
EXTENDS Binding

\* The poll threads that run, each with a global reference to the Java object.
Live == {p \in Pollers : poller[p].pc \notin {"none", "done"}}

\* The poll threads and the places they can be in.
ThreadTypes ==
    /\ poller = [p \in Pollers |-> poller[p]]
    /\ \A p \in Pollers : poller[p].pc \in
            {"none", "poll", "leave", "done", "get", "invoke", "remove"}
    /\ caller = [c \in Callers |-> caller[c]]
    /\ handle \in Pollers \cup {NoOne}
    /\ control \in {"idle", "release", "hung", "join", "delete"}
    /\ object \in {"used", "dropped", "deleted"}
    /\ open \in BOOLEAN /\ doubled \in BOOLEAN

\* refs counts the poll threads that run, a prepare() too many or not.
RefsCount == IsFiniteSet(Live) /\ refs = Cardinality(Live)

\* With no prepare() too many, the thread in the handle is the only one.
HandleFollows ==
    /\ ~doubled => \A p \in Live : p = handle
    /\ (~open /\ control \notin {"release", "hung", "join"}) => handle = NoOne
    /\ control = "join" => handle # NoOne
    /\ control # "idle" => ~open

\* The lock is held only between the two steps of a request.
LockFollows == lock # NoOne => lock \in Callers /\ caller[lock].pc = "put"

\* An object is let go when no request is under way, and released for deletion
\* when no reference is left; none comes back.
ObjectFollows ==
    /\ object # "used" => \A c \in Callers : caller[c].pc = "idle"
    /\ (object = "dropped" /\ control # "idle") => refs = 0
    /\ control = "delete" => object = "dropped"
    /\ object = "deleted" => refs = 0 /\ control = "idle" /\ ~open

IInv ==
    ThreadTypes /\ RefsCount /\ HandleFollows /\ LockFollows /\ ObjectFollows

-----------------------------------------------------------------------------
(* The way of the results.                                                 *)

Responses == [req : Requests, n : Nat, last : BOOLEAN]

\* A poll thread has a result in hand.
Holds(p) == poller[p].pc \in {"get", "invoke"}

\* A caller has its request from the SDK and not yet its callback in the map.
Puts(c) == caller[c].pc = "put"

DataTypes ==
    /\ session \in 0 .. Sessions /\ nextId \in 0 .. Ids
    /\ pending \in Seq(Requests) /\ results \in Seq(Responses)
    /\ given \in [Requests -> Nat] /\ told \in [Requests -> Seq(Responses)]
    /\ \A p \in Pollers : Holds(p) => poller[p].res \in Responses
    /\ \A p \in Pollers : poller[p].pc = "invoke" => poller[p].cb \in Requests
    /\ \A c \in Callers : Puts(c) => caller[c].req \in Requests
    /\ \A i \in DOMAIN callbacks : callbacks[i] \in Requests /\ callbacks[i].id = i

\* The callback of r is still to be looked up, for a result of r.
Coming(r) ==
    \/ \E i \in DOMAIN pending : pending[i] = r
    \/ \E i \in DOMAIN results : results[i].req = r
    \/ \E p \in Pollers : poller[p].pc = "get" /\ poller[p].res.req = r

\* r was given out, in this session or one before.
GivenOut(r) == r.session <= session /\ (r.session = session => r.id <= nextId)

SessionsFollow ==
    /\ open => session # 0
    /\ \A r \in Requests : Coming(r) => GivenOut(r)
    /\ \A c \in Callers : Puts(c) => GivenOut(caller[c].req)
    /\ \A i \in DOMAIN callbacks : callbacks[i].session <= session
    /\ \A p \in Pollers : poller[p].pc = "invoke" =>
            GivenOut(poller[p].res.req) /\ poller[p].cb.session <= session
    /\ \A r \in Requests : r.session > session => given[r] = 0 /\ told[r] = <<>>

\* The SDK works on the requests of its session, in the order of their ids.
PendingFollow ==
    /\ ~open => pending = <<>>
    /\ \A i \in DOMAIN pending : pending[i].session = session
    /\ \A i, j \in DOMAIN pending : i < j => pending[i].id < pending[j].id

\* A result is never looked up under a callback of an older request: a newer
\* one has replaced that, or is about to with the lock held.
CallbacksFollow ==
    /\ \A c \in Callers : Puts(c) => lock = c
    /\ \A c \in Callers : Puts(c) =>
            \A r \in Requests : Coming(r) => r.session <= caller[c].req.session
    /\ \A r \in Requests : Coming(r) /\ r.id \in DOMAIN callbacks =>
            \/ callbacks[r.id].session >= r.session
            \/ \E c \in Callers : Puts(c) /\ caller[c].req.id = r.id

\* A callback is told the results of its request, or of one before its session.
ToldOwn ==
    /\ \A r \in Requests : \A i \in DOMAIN told[r] :
            told[r][i].req = r \/ told[r][i].req.session < r.session
    /\ \A p \in Pollers : poller[p].pc = "invoke" =>
            /\ poller[p].res.req.id = poller[p].cb.id
            /\ \/ poller[p].res.req = poller[p].cb
               \/ poller[p].res.req.session < poller[p].cb.session

\* res is the last result of its request, if that is one of this session.
IsEnd(res) ==
    res.req.session = session =>
        /\ \A i \in DOMAIN pending : pending[i] # res.req
        /\ res.n = given[res.req]

\* Nothing of a request comes after its last result.
LastFollows ==
    open =>
        /\ \A i \in DOMAIN results : IsLast(results[i]) => IsEnd(results[i])
        /\ \A p \in Pollers : Holds(p) /\ IsLast(poller[p].res) => IsEnd(poller[p].res)

\* The requests Delivered is about.
Regular(r) ==
    open /\ r.session = session /\ ~doubled /\ r \notin threw /\ r \notin stale

\* The callback of r is in the map, or will be before the lock is free.
Registered(r) ==
    \/ r.id \in DOMAIN callbacks /\ callbacks[r.id] = r
    \/ \E c \in Callers : Puts(c) /\ caller[c].req = r

\* The results of a regular request find its callback, which stays in the map
\* until the last of them.
RegularFollow ==
    /\ \A r \in Requests : Regular(r) /\ Coming(r) => Registered(r)
    /\ \A p \in Pollers : ~doubled /\ Holds(p) =>
            \/ poller[p].res.req.session = session
            \/ [session |-> session, id |-> poller[p].res.req.id] \in stale
    /\ \A p \in Pollers : poller[p].pc = "remove" =>
            \A r \in Requests : Regular(r) /\ r.id = poller[p].id => ~Coming(r) /\ GivenOut(r)

InOrder ==
    \A r \in Requests : Regular(r) =>
        \E k \in 0 .. given[r] : \E m \in k .. given[r] :
            /\ Carries(told[r], r, 0, k)
            /\ Carries(InHand, r, k, m)
            /\ Carries(results, r, m, given[r])

DInv ==
    /\ DataTypes /\ SessionsFollow /\ PendingFollow /\ CallbacksFollow
    /\ ToldOwn /\ LastFollows /\ RegularFollow /\ InOrder
=============================================================================

---------------------------- MODULE StreamQueue ----------------------------
(***************************************************************************)
(* The operations of StreamQueue<T, A> (src/common/pending_queue.h) on its *)
(* value: a sequence of streams in the order they were started.  The class *)
(* keeps the value in one flat std::list plus an index (StreamQueueList.tla*)
(* models that representation and shows it implements this one).           *)
(*                                                                         *)
(* A stream is its tag item and the data items queued before the tag.  The *)
(* content carried by a tag (the payload of POP_TYPE_END), the option      *)
(* argument and the error code are not distinguished: a stream is erased   *)
(* with an error or without one.                                           *)
(***************************************************************************)
EXTENDS Naturals, Sequences

NoItem == "none"

TagTypes == {"uncompleted", "completed", "deleted", "error"}

Streams(Id, Data) ==
    [id : Id, type : TagTypes, polling : {0, 1}, data : Seq(Data)]

Queues(Id, Data) == Seq(Streams(Id, Data))

Has(q, id) == \E i \in DOMAIN q : q[i].id = id

\* No two tags of the queue carry the same id: item_tags_ is a map.
DistinctIds(q) ==
    \A i \in DOMAIN q, j \in DOMAIN q : q[i].id = q[j].id => i = j

Start(q, id) ==
    IF Has(q, id)
    THEN q
    ELSE Append(q, [id      |-> id,      type |-> "uncompleted",
                    polling |-> 0,       data |-> <<>>])

Accepts(q, id) ==
    \E i \in DOMAIN q : q[i].id = id /\ q[i].type = "uncompleted"

Stream(q, id, d) ==
    [i \in DOMAIN q |->
        IF q[i].id = id /\ q[i].type = "uncompleted"
        THEN [q[i] EXCEPT !.data = Append(@, d)]
        ELSE q[i]]

\* end() looks the tag up and sets its type, whatever the type was before.
End(q, id) ==
    [i \in DOMAIN q |->
        IF q[i].id = id THEN [q[i] EXCEPT !.type = "completed"] ELSE q[i]]

\* erase(id) and erase(id, err): the data goes, the tag stays to be popped.
Erase(q, id, type) ==
    [i \in DOMAIN q |->
        IF q[i].id = id
        THEN [q[i] EXCEPT !.type = type, !.data = <<>>]
        ELSE q[i]]

Clear(q) ==
    [i \in DOMAIN q |-> [q[i] EXCEPT !.type = "deleted", !.data = <<>>]]

Live(s) == s.type \in {"uncompleted", "completed"}

\* What pop() returns.
PopType(q) ==
    IF q = <<>> THEN "EMPTY"
    ELSE LET s == q[1] IN
         CASE s.type = "deleted"              -> "REMOVED"
           [] s.type = "error"                -> "ERROR"
           [] Live(s) /\ s.polling = 0         -> "START"
           [] Live(s) /\ s.polling = 1 /\ s.data # <<>> -> "DATA"
           [] s.type = "completed" /\ s.polling = 1 /\ s.data = <<>> -> "END"
           [] OTHER                           -> "EMPTY"

\* The queue that pop() leaves.
Popped(q) ==
    CASE PopType(q) = "EMPTY" -> q
      [] PopType(q) = "START" -> [q EXCEPT ![1].polling = 1]
      [] PopType(q) = "DATA"  -> [q EXCEPT ![1].data = Tail(@)]
      [] OTHER                -> Tail(q)

\* available(): there is something to pop.
Available(q) ==
    /\ q # <<>>
    /\ ~ /\ q[1].type = "uncompleted"
         /\ q[1].polling = 1
         /\ q[1].data = <<>>
=============================================================================

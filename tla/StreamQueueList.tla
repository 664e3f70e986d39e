-------------------------- MODULE StreamQueueList --------------------------
(***************************************************************************)
(* The representation of StreamQueue<T, A> in src/common/pending_queue.h:  *)
(* one flat list of items in which the data items of a stream precede its  *)
(* tag, a list of iterators to the tags in start order, and a map from id  *)
(* to tag.  A data item does not know its stream: everything rests on where*)
(* it is inserted and on which items erase() and pop() take.               *)
(*                                                                         *)
(* An iterator to a tag stays valid while other items come and go, so it   *)
(* is represented by the tag's id; the owner of the queue calls every      *)
(* operation with one mutex held, so each operation is one action.         *)
(***************************************************************************)
EXTENDS StreamQueue, SequencesExt, FiniteSets, Integers

CONSTANTS
    Ids,        \* stream ids
    Data,       \* data items
    MaxItems    \* bound: stream() is not called on a longer list

VARIABLES
    queue,      \* queue_: the flat list
    tagQueue,   \* tag_queue_: the tags in start order
    itemTags,   \* item_tags_: the ids that have a tag
    popped      \* what the last pop() returned

vars == <<queue, tagQueue, itemTags, popped>>

Nothing == [type |-> "EMPTY", id |-> 0, data |-> NoItem]

DataItem(d) == [type |-> "data", polling |-> 0, id |-> 0, content |-> d]

TagItem(id) ==
    [type |-> "uncompleted", polling |-> 0, id |-> id, content |-> NoItem]

IsTag(item) == item.type # "data"

\* The position in the list q that an iterator to the tag of id denotes.
Pos(q, id) == CHOOSE k \in DOMAIN q : IsTag(q[k]) /\ q[k].id = id

\* The position of the first data item right before position k (or k).
FirstDataBefore(q, k) ==
    CHOOSE j \in 1..k :
        /\ \A n \in j..(k - 1) : ~IsTag(q[n])
        /\ j = 1 \/ IsTag(q[j - 1])

Tags(q) == {k \in DOMAIN q : IsTag(q[k])}

\* at gives the positions of the tags of q, from the front on.
ListsTags(q, at) ==
    /\ \A k \in DOMAIN q : IsTag(q[k]) <=> \E i \in DOMAIN at : at[i] = k
    /\ \A i, j \in DOMAIN at : i < j => at[i] < at[j]

Init ==
    /\ queue = <<>>
    /\ tagQueue = <<>>
    /\ itemTags = {}
    /\ popped = Nothing

StartOp(id) ==
    /\ id \notin itemTags
    /\ queue' = Append(queue, TagItem(id))
    /\ itemTags' = itemTags \union {id}
    /\ tagQueue' = Append(tagQueue, id)
    /\ UNCHANGED popped

\* Variant: the data goes to the end of the list, not before its tag.
StreamOpAtEnd(id, d) ==
    /\ Len(queue) < MaxItems
    /\ id \in itemTags
    /\ queue[Pos(queue, id)].type = "uncompleted"
    /\ queue' = Append(queue, DataItem(d))
    /\ UNCHANGED <<tagQueue, itemTags, popped>>

StreamOp(id, d) ==
    /\ Len(queue) < MaxItems
    /\ id \in itemTags
    /\ queue[Pos(queue, id)].type = "uncompleted"
    /\ queue' = InsertAt(queue, Pos(queue, id), DataItem(d))
    /\ UNCHANGED <<tagQueue, itemTags, popped>>

EndOp(id) ==
    /\ id \in itemTags
    /\ queue' = [queue EXCEPT ![Pos(queue, id)].type = "completed"]
    /\ UNCHANGED <<tagQueue, itemTags, popped>>

EraseOp(id, type) ==
    /\ id \in itemTags
    /\ LET last  == Pos(queue, id)
           first == FirstDataBefore(queue, last)
           tag   == [queue[last] EXCEPT !.type = type]
       IN queue' = SubSeq(queue, 1, first - 1) \o <<tag>>
                   \o SubSeq(queue, last + 1, Len(queue))
    /\ UNCHANGED <<tagQueue, itemTags, popped>>

\* The walk along the list leaves the tags, in their order.
ClearOp ==
    /\ \E at \in [1..Cardinality(Tags(queue)) -> Tags(queue)] :
        /\ ListsTags(queue, at)
        /\ queue' = [i \in DOMAIN at |->
                        [queue[at[i]] EXCEPT !.type = "deleted"]]
    /\ UNCHANGED <<tagQueue, itemTags, popped>>

CloseOp ==
    /\ queue' = <<>>
    /\ tagQueue' = <<>>
    /\ itemTags' = {}
    /\ UNCHANGED popped

\* Variant: the id stays in the map.
PopFrontTagKeepsId(type, id) ==
    /\ tagQueue' = Tail(tagQueue)
    /\ queue' = Tail(queue)
    /\ popped' = [type |-> type, id |-> id, data |-> NoItem]
    /\ UNCHANGED itemTags

\* The exits of pop() that drop the front tag; the list item they drop is
\* whatever is at the front of the list.
PopFrontTag(type, id) ==
    /\ itemTags' = itemTags \ {id}
    /\ tagQueue' = Tail(tagQueue)
    /\ queue' = Tail(queue)
    /\ popped' = [type |-> type, id |-> id, data |-> NoItem]

PopEmpty ==
    /\ \/ tagQueue = <<>>
       \/ /\ tagQueue # <<>>
          /\ Pos(queue, Head(tagQueue)) = 1
          /\ queue[1].type = "uncompleted" /\ queue[1].polling = 1
    /\ popped' = Nothing
    /\ UNCHANGED <<queue, tagQueue, itemTags>>

PopStart ==
    /\ tagQueue # <<>>
    /\ LET id == Head(tagQueue)  ip == Pos(queue, id) IN
        /\ queue[ip].type \in {"uncompleted", "completed"}
        /\ queue[ip].polling = 0
        /\ queue' = [queue EXCEPT ![ip].polling = 1]
        /\ popped' = [type |-> "START", id |-> id, data |-> NoItem]
    /\ UNCHANGED <<tagQueue, itemTags>>

PopEnd ==
    /\ tagQueue # <<>>
    /\ LET id == Head(tagQueue)  ip == Pos(queue, id) IN
        /\ queue[ip].type = "completed" /\ queue[ip].polling = 1
        /\ ip = 1
        /\ PopFrontTag("END", id)

PopData ==
    /\ tagQueue # <<>>
    /\ LET id == Head(tagQueue)  ip == Pos(queue, id) IN
        /\ queue[ip].type \in {"uncompleted", "completed"}
        /\ queue[ip].polling = 1
        /\ ip # 1
        /\ queue' = Tail(queue)
        /\ popped' = [type |-> "DATA", id |-> id, data |-> queue[1].content]
    /\ UNCHANGED <<tagQueue, itemTags>>

PopErased ==
    /\ tagQueue # <<>>
    /\ LET id == Head(tagQueue)  ip == Pos(queue, id) IN
        \/ queue[ip].type = "deleted" /\ PopFrontTag("REMOVED", id)
        \/ queue[ip].type = "error"   /\ PopFrontTag("ERROR", id)

Next ==
    \/ \E id \in Ids :
        \/ StartOp(id)
        \/ \E d \in Data : StreamOp(id, d)
        \/ EndOp(id)
        \/ EraseOp(id, "deleted")
        \/ EraseOp(id, "error")
    \/ ClearOp
    \/ CloseOp
    \/ PopEmpty
    \/ PopStart
    \/ PopEnd
    \/ PopData
    \/ PopErased

Spec == Init /\ [][Next]_vars

-----------------------------------------------------------------------------
\* The stream of the tag at position k of the list q.
StreamAt(q, k) ==
    LET first == FirstDataBefore(q, k) IN
    [id      |-> q[k].id,
     type    |-> q[k].type,
     polling |-> q[k].polling,
     data    |-> [n \in 1..(k - first) |-> q[first + n - 1].content]]

\* The refinement mapping: the tags in start order, each with the run of data
\* items before it.
AbsStreams == [i \in DOMAIN tagQueue |-> StreamAt(queue, Pos(queue, tagQueue[i]))]

\* The index agrees with the list: the tags of queue_ are, in this order, the
\* iterators of tag_queue_, and item_tags_ has exactly their ids, each of one
\* tag only; no data item is left behind the last tag (pop() would never reach
\* it).  The assertions of erase(), available() and pop()
\* (pending_queue.h:307,373,391) rest on it.
IndexAgrees ==
    /\ \E at \in [DOMAIN tagQueue -> DOMAIN queue] :
        /\ ListsTags(queue, at)
        /\ \A i \in DOMAIN tagQueue : queue[at[i]].id = tagQueue[i]
    /\ itemTags = Range(tagQueue)
    /\ IsInjective(tagQueue)
    /\ queue # <<>> => IsTag(Last(queue))

Abstract == INSTANCE StreamQueueSpec
                WITH streams <- AbsStreams, result <- popped

\* The flat list implements the queue of streams: a stream's data comes out
\* under its own id, in order, between its START and its END, and erasing one
\* stream leaves the others alone (pending_queue.h:198-449).
ImplementsStreams == Abstract!SpecSpec
=============================================================================

----------------------------- MODULE ClientLemmas -----------------------------
(***************************************************************************)
(* Lemmas on the classes that SpeechImpl and TtsImpl have in common.  On   *)
(* StreamQueue: each operator keeps a queue a queue, and leaves which tags, *)
(* polled or not.  On OperationController: what each method does to the    *)
(* operations, whoever calls it.                                           *)
(***************************************************************************)
EXTENDS OperationController, StreamQueue, TLAPS

-----------------------------------------------------------------------------
(* StreamQueue                                                             *)

\* Two queues with the same tags in the same order, polled alike.
SameTags(q, r) ==
    /\ Len(r) = Len(q)
    /\ \A i \in 1..Len(q) : r[i].id = q[i].id /\ r[i].polling = q[i].polling

SameTypes(q, r) == \A i \in 1..Len(q) : r[i].type = q[i].type

\* A sequence rewritten in place is a sequence of the same length.
LEMMA RewriteInPlace ==
    ASSUME NEW S, NEW s \in Seq(S), NEW r,
           r = [i \in DOMAIN s |-> r[i]],
           \A i \in DOMAIN s : r[i] \in S
    PROVE  /\ r \in Seq(S)
           /\ Len(r) = Len(s)
           /\ DOMAIN r = 1..Len(s)
<1>1. DOMAIN s = 1..Len(s) /\ Len(s) \in Nat
  OBVIOUS
<1>2. r \in [1..Len(s) -> S]
  BY <1>1
<1> QED
  BY <1>1, <1>2

\* A stream that is polled now is a stream.
LEMMA StreamPolled ==
    ASSUME NEW Id, NEW Data, NEW s \in Streams(Id, Data), NEW t,
           t = [s EXCEPT !.polling = 1]
    PROVE  /\ t \in Streams(Id, Data) /\ t.id = s.id /\ t.polling = 1
           /\ t.type = s.type
  BY DEF Streams

\* start() adds at most one tag, at the end, not polled yet; a queue keeps
\* its type.
LEMMA StartLemma ==
    ASSUME NEW Id, NEW Data, NEW q \in Queues(Id, Data), NEW id \in Id
    PROVE  /\ Start(q, id) \in Queues(Id, Data)
           /\ Len(Start(q, id)) \in {Len(q), Len(q) + 1}
           /\ \A i \in 1..Len(q) : Start(q, id)[i] = q[i]
           /\ Len(Start(q, id)) = Len(q) + 1 =>
                /\ Start(q, id)[Len(q) + 1].id = id
                /\ Start(q, id)[Len(q) + 1].polling = 0
                /\ Start(q, id)[Len(q) + 1].type = "uncompleted"
           /\ Len(Start(q, id)) = Len(q) <=> Has(q, id)
<1> DEFINE s == [id |-> id, type |-> "uncompleted", polling |-> 0,
                 data |-> <<>>]
<1>1. s \in Streams(Id, Data)
  BY DEF Streams, TagTypes
<1>2. Append(q, s) \in Queues(Id, Data) /\ Len(Append(q, s)) = Len(q) + 1
  BY <1>1 DEF Queues
<1>3. \A i \in 1..Len(q) : Append(q, s)[i] = q[i]
  BY <1>1 DEF Queues
<1>4. Append(q, s)[Len(q) + 1] = s
  BY <1>1 DEF Queues
<1>5. Start(q, id) = IF Has(q, id) THEN q ELSE Append(q, s)
  BY DEF Start
<1>6. CASE Has(q, id)
  <2>1. Len(q) \in Nat /\ Len(q) # Len(q) + 1
    BY DEF Queues
  <2> QED BY <1>5, <1>6, <2>1
<1>7. CASE ~Has(q, id)
  <2> HIDE DEF s
  <2>1. s.id = id /\ s.polling = 0 /\ s.type = "uncompleted"
    BY DEF s
  <2>2. Len(q) \in Nat /\ Len(q) # Len(q) + 1
    BY DEF Queues
  <2> QED BY <1>5, <1>7, <1>2, <1>3, <1>4, <2>1, <2>2
<1> QED
  BY <1>6, <1>7

\* stream() changes no tag.
LEMMA StreamLemma ==
    ASSUME NEW Id, NEW Data, NEW q \in Queues(Id, Data), NEW id \in Id,
           NEW d \in Data
    PROVE  /\ Stream(q, id, d) \in Queues(Id, Data)
           /\ SameTags(q, Stream(q, id, d))
           /\ SameTypes(q, Stream(q, id, d))
<1> DEFINE r == Stream(q, id, d)
<1>1. \A i \in DOMAIN q : q[i] \in Streams(Id, Data)
  BY DEF Queues
<1>2. ASSUME NEW i \in DOMAIN q
      PROVE  /\ r[i] \in Streams(Id, Data)
             /\ r[i].id = q[i].id /\ r[i].polling = q[i].polling
             /\ r[i].type = q[i].type
  <2>1. r[i] = q[i] \/ r[i] = [q[i] EXCEPT !.data = Append(@, d)]
    BY DEF Stream
  <2>2. Append(q[i].data, d) \in Seq(Data)
    BY <1>1 DEF Streams
  <2> QED
    BY <1>1, <2>1, <2>2 DEF Streams
<1>3. q \in Seq(Streams(Id, Data)) /\ r = [i \in DOMAIN q |-> r[i]]
  BY DEF Queues, Stream
<1>4. DOMAIN q = 1..Len(q)
  BY DEF Queues
<1> HIDE DEF r
<1>5. r \in Seq(Streams(Id, Data)) /\ Len(r) = Len(q)
  BY <1>2, <1>3, RewriteInPlace
<1>6. /\ r \in Queues(Id, Data) /\ SameTags(q, r)
      /\ SameTypes(q, r)
  BY <1>2, <1>4, <1>5 DEF Queues, SameTags, SameTypes
<1> QED
  BY <1>6 DEF r

\* end() changes the type of a tag only.
LEMMA EndLemma ==
    ASSUME NEW Id, NEW Data, NEW q \in Queues(Id, Data), NEW id \in Id
    PROVE  /\ End(q, id) \in Queues(Id, Data)
           /\ SameTags(q, End(q, id))
           /\ \A i \in 1..Len(q) :
                End(q, id)[i].type =
                    IF q[i].id = id THEN "completed" ELSE q[i].type
<1> DEFINE r == End(q, id)
<1>1. \A i \in DOMAIN q : q[i] \in Streams(Id, Data)
  BY DEF Queues
<1>2. ASSUME NEW i \in DOMAIN q
      PROVE  /\ r[i] \in Streams(Id, Data)
             /\ r[i].id = q[i].id /\ r[i].polling = q[i].polling
             /\ r[i].type = IF q[i].id = id THEN "completed" ELSE q[i].type
  <2>1. r[i] = IF q[i].id = id THEN [q[i] EXCEPT !.type = "completed"] ELSE q[i]
    BY DEF End
  <2> QED
    BY <1>1, <2>1 DEF Streams, TagTypes
<1>3. q \in Seq(Streams(Id, Data)) /\ r = [i \in DOMAIN q |-> r[i]]
  BY DEF Queues, End
<1>4. DOMAIN q = 1..Len(q)
  BY DEF Queues
<1> HIDE DEF r
<1>5. r \in Seq(Streams(Id, Data)) /\ Len(r) = Len(q)
  BY <1>2, <1>3, RewriteInPlace
<1>6. /\ r \in Queues(Id, Data) /\ SameTags(q, r)
      /\ \A i \in 1..Len(q) :
            r[i].type = IF q[i].id = id THEN "completed" ELSE q[i].type
  BY <1>2, <1>4, <1>5 DEF Queues, SameTags
<1> QED
  BY <1>6 DEF r

\* erase() changes the type of a tag and drops its data.
LEMMA EraseLemma ==
    ASSUME NEW Id, NEW Data, NEW q \in Queues(Id, Data), NEW id,
           NEW type \in {"deleted", "error"}
    PROVE  /\ Erase(q, id, type) \in Queues(Id, Data)
           /\ SameTags(q, Erase(q, id, type))
<1> DEFINE r == Erase(q, id, type)
<1>1. \A i \in DOMAIN q : q[i] \in Streams(Id, Data)
  BY DEF Queues
<1>2. ASSUME NEW i \in DOMAIN q
      PROVE  /\ r[i] \in Streams(Id, Data)
             /\ r[i].id = q[i].id /\ r[i].polling = q[i].polling
  <2>1. PICK d : d = <<>>
    OBVIOUS
  <2>2. r[i] = q[i] \/ r[i] = [q[i] EXCEPT !.type = type, !.data = d]
    BY <2>1 DEF Erase
  <2>3. d \in Seq(Data) /\ type \in TagTypes
    BY <2>1 DEF TagTypes
  <2>4. q[i] \in Streams(Id, Data)
    BY <1>1
  <2> HIDE DEF r
  <2> QED
    BY <2>2, <2>3, <2>4 DEF Streams
<1>3. q \in Seq(Streams(Id, Data)) /\ r = [i \in DOMAIN q |-> r[i]]
  BY DEF Queues, Erase
<1>4. DOMAIN q = 1..Len(q)
  BY DEF Queues
<1> HIDE DEF r
<1>5. r \in Seq(Streams(Id, Data)) /\ Len(r) = Len(q)
  BY <1>2, <1>3, RewriteInPlace
<1>6. r \in Queues(Id, Data) /\ SameTags(q, r)
  BY <1>2, <1>4, <1>5 DEF Queues, SameTags
<1> QED
  BY <1>6 DEF r

\* It changes the type of the tags with that id only.
LEMMA EraseTypes ==
    ASSUME NEW Id, NEW Data, NEW q \in Queues(Id, Data), NEW id, NEW type
    PROVE  \A i \in 1..Len(q) :
                Erase(q, id, type)[i].type =
                    IF q[i].id = id THEN type ELSE q[i].type
<1> SUFFICES ASSUME NEW i \in 1..Len(q)
             PROVE  Erase(q, id, type)[i].type =
                        IF q[i].id = id THEN type ELSE q[i].type
  OBVIOUS
<1>1. q[i] \in Streams(Id, Data) /\ i \in DOMAIN q
  BY DEF Queues
<1>2. PICK d : d = <<>>
  OBVIOUS
<1>3. Erase(q, id, type)[i] =
        IF q[i].id = id THEN [q[i] EXCEPT !.type = type, !.data = d] ELSE q[i]
  BY <1>1, <1>2 DEF Erase
<1> QED
  BY <1>1, <1>3 DEF Streams

\* clear() changes the type of every tag and drops the data.
LEMMA ClearLemma ==
    ASSUME NEW Id, NEW Data, NEW q \in Queues(Id, Data)
    PROVE  Clear(q) \in Queues(Id, Data) /\ SameTags(q, Clear(q))
<1> DEFINE r == Clear(q)
<1>1. \A i \in DOMAIN q : q[i] \in Streams(Id, Data)
  BY DEF Queues
<1>2. ASSUME NEW i \in DOMAIN q
      PROVE  /\ r[i] \in Streams(Id, Data)
             /\ r[i].id = q[i].id /\ r[i].polling = q[i].polling
  <2>1. PICK d : d = <<>>
    OBVIOUS
  <2>2. r[i] = [q[i] EXCEPT !.type = "deleted", !.data = d]
    BY <2>1 DEF Clear
  <2>3. d \in Seq(Data) /\ "deleted" \in TagTypes
    BY <2>1 DEF TagTypes
  <2>4. q[i] \in Streams(Id, Data)
    BY <1>1
  <2> HIDE DEF r
  <2> QED
    BY <2>2, <2>3, <2>4 DEF Streams
<1>3. q \in Seq(Streams(Id, Data)) /\ r = [i \in DOMAIN q |-> r[i]]
  BY DEF Queues, Clear
<1>4. DOMAIN q = 1..Len(q)
  BY DEF Queues
<1> HIDE DEF r
<1>5. r \in Seq(Streams(Id, Data)) /\ Len(r) = Len(q)
  BY <1>2, <1>3, RewriteInPlace
<1>6. r \in Queues(Id, Data) /\ SameTags(q, r)
  BY <1>2, <1>4, <1>5 DEF Queues, SameTags
<1> QED
  BY <1>6 DEF r

\* pop() returns one of six answers, and "EMPTY" only if the first stream, if
\* there is one, is polled.
LEMMA PopTypeLemma ==
    ASSUME NEW Id, NEW Data, NEW q \in Queues(Id, Data)
    PROVE  /\ PopType(q) \in
                {"EMPTY", "START", "DATA", "END", "REMOVED", "ERROR"}
           /\ PopType(q) # "EMPTY" => q # <<>> /\ Len(q) \in Nat \ {0}
           /\ PopType(q) = "START" => q[1].polling = 0
           /\ PopType(q) \in {"DATA", "END"} => q[1].polling = 1
           /\ PopType(q) = "DATA" => q[1].data # <<>>
           /\ PopType(q) = "END" => q[1].type = "completed"
           /\ (q # <<>> /\ Live(q[1])) =>
                /\ PopType(q) \in {"EMPTY", "START", "DATA", "END"}
                /\ PopType(q) = "EMPTY" => q[1].type = "uncompleted"
<1>1. CASE q = <<>>
  BY <1>1 DEF PopType
<1>2. CASE q # <<>>
  <2>1. Len(q) \in Nat \ {0} /\ q[1] \in Streams(Id, Data)
    BY <1>2 DEF Queues
  <2> QED
    BY <1>2, <2>1 DEF PopType, Live, Streams
<1> QED
  BY <1>1, <1>2

\* What pop() leaves: the same queue, one whose first stream is polled now or
\* has lost its first item, or the rest of it.
LEMMA PoppedLemma ==
    ASSUME NEW Id, NEW Data, NEW q \in Queues(Id, Data)
    PROVE  /\ Popped(q) \in Queues(Id, Data)
           /\ PopType(q) = "EMPTY" => Popped(q) = q
           /\ PopType(q) = "START" =>
                /\ Len(Popped(q)) = Len(q)
                /\ Popped(q)[1].id = q[1].id /\ Popped(q)[1].polling = 1
                /\ Popped(q)[1].type = q[1].type
                /\ \A i \in 2..Len(q) : Popped(q)[i] = q[i]
           /\ PopType(q) = "DATA" =>
                /\ SameTags(q, Popped(q))
                /\ \A i \in 1..Len(q) : Popped(q)[i].type = q[i].type
           /\ PopType(q) \in {"END", "REMOVED", "ERROR"} => Popped(q) = Tail(q)
<1> USE PopTypeLemma
<1>1. CASE PopType(q) = "EMPTY"
  BY <1>1 DEF Popped
<1>2. CASE PopType(q) = "START"
  <2>1. Popped(q) = [q EXCEPT ![1].polling = 1]
    BY <1>2 DEF Popped
  <2>2. q \in Seq(Streams(Id, Data)) /\ Len(q) \in Nat \ {0} /\ 1 \in DOMAIN q
    BY <1>2 DEF Queues
  <2>3. [q[1] EXCEPT !.polling = 1] \in Streams(Id, Data)
    BY <2>2, StreamPolled
  <2>4. Popped(q) \in Queues(Id, Data) /\ Len(Popped(q)) = Len(q)
    BY <2>1, <2>2, <2>3 DEF Queues
  <2>5. /\ Popped(q)[1].id = q[1].id /\ Popped(q)[1].polling = 1
        /\ Popped(q)[1].type = q[1].type
    BY <2>1, <2>2, StreamPolled
  <2>6. \A i \in 2..Len(q) : Popped(q)[i] = q[i]
    BY <2>1, <2>2
  <2> QED
    BY <1>2, <2>4, <2>5, <2>6
<1>3. CASE PopType(q) = "DATA"
  <2>1. Popped(q) = [q EXCEPT ![1].data = Tail(@)]
    BY <1>3 DEF Popped
  <2>2. /\ q \in Seq(Streams(Id, Data)) /\ Len(q) \in Nat \ {0}
        /\ 1 \in DOMAIN q /\ q[1].data # <<>>
    BY <1>3 DEF Queues
  <2>3. q[1] \in Streams(Id, Data)
    BY <2>2
  <2>4. Tail(q[1].data) \in Seq(Data)
    BY <2>2, <2>3 DEF Streams
  <2>5. [q[1] EXCEPT !.data = Tail(@)] \in Streams(Id, Data)
    BY <2>3, <2>4 DEF Streams
  <2>6. Popped(q) \in Queues(Id, Data) /\ Len(Popped(q)) = Len(q)
    BY <2>1, <2>2, <2>5 DEF Queues
  <2>7. \A i \in 1..Len(q) : /\ Popped(q)[i].id = q[i].id
                             /\ Popped(q)[i].polling = q[i].polling
                             /\ Popped(q)[i].type = q[i].type
    BY <2>1, <2>2, <2>3 DEF Streams
  <2> QED
    BY <1>3, <2>6, <2>7 DEF SameTags
<1>4. CASE PopType(q) \in {"END", "REMOVED", "ERROR"}
  <2>1. Popped(q) = Tail(q)
    BY <1>4 DEF Popped
  <2>2. Tail(q) \in Queues(Id, Data)
    BY <1>4 DEF Queues
  <2> QED
    BY <1>4, <2>1, <2>2
<1> QED
  BY <1>1, <1>2, <1>3, <1>4

\* The first stream is erased and popped at once: the rest of the queue is left.
LEMMA ErasePoppedLemma ==
    ASSUME NEW Id, NEW Data, NEW q \in Queues(Id, Data), q # <<>>,
           \A i \in 2..Len(q) : q[i].id # q[1].id
    PROVE  Popped(Erase(q, q[1].id, "deleted")) = Tail(q)
<1> DEFINE r == Erase(q, q[1].id, "deleted")
<1>1. r \in Queues(Id, Data) /\ Len(r) = Len(q)
  BY EraseLemma DEF SameTags
<1>2. /\ Len(q) \in Nat \ {0} /\ DOMAIN q = 1..Len(q)
      /\ q[1] \in Streams(Id, Data)
  BY DEF Queues
<1>3. PICK d : d = <<>>
  OBVIOUS
<1>4. ASSUME NEW i \in DOMAIN q
      PROVE  r[i] = IF q[i].id = q[1].id
                    THEN [q[i] EXCEPT !.type = "deleted", !.data = d]
                    ELSE q[i]
  BY <1>3 DEF Erase
<1> HIDE DEF r
<1>5. r[1].type = "deleted" /\ r[1] \in Streams(Id, Data) /\ r # <<>>
  <2>1. 1 \in DOMAIN q
    BY <1>2
  <2>2. r[1] = [q[1] EXCEPT !.type = "deleted", !.data = d]
    BY <1>4, <2>1
  <2>3. r[1].type = "deleted"
    BY <1>2, <2>2 DEF Streams
  <2> QED
    BY <1>1, <1>2, <2>3 DEF Queues
<1>6. ASSUME NEW i \in 2..Len(q)
      PROVE  r[i] = q[i]
  <2>1. i \in DOMAIN q /\ q[i].id # q[1].id
    BY <1>2
  <2> QED
    BY <1>4, <2>1
<1>7. PopType(r) = "REMOVED"
  BY <1>5 DEF PopType, Live, Streams
<1>8. Popped(r) = Tail(r)
  BY <1>7 DEF Popped
<1>9. Tail(r) = Tail(q)
  BY <1>1, <1>2, <1>6 DEF Queues
<1> QED
  BY <1>8, <1>9 DEF r

-----------------------------------------------------------------------------
(* OperationController                                                     *)

\* Two sequences with the same ids in the same order.
SameIds(q, r) == Len(r) = Len(q) /\ \A i \in 1..Len(q) : r[i].id = q[i].id

\* The types of the controller's state.
OpTypes ==
    /\ ops \in Seq(Operations)
    /\ removed \in 0..Len(ops) /\ cur \in 0..Len(ops) /\ timed \in BOOLEAN

\* Operations rewritten in place: their number and ids stay, the chosen ones
\* take the status.
LEMMA OpsInLemma ==
    ASSUME ops \in Seq(Operations), NEW which, NEW status \in Statuses
    PROVE  /\ OpsIn(which, status) \in Seq(Operations)
           /\ Len(OpsIn(which, status)) = Len(ops)
           /\ \A i \in 1..Len(ops) :
                /\ OpsIn(which, status)[i].id = ops[i].id
                /\ OpsIn(which, status)[i].status =
                        IF i \in which THEN status ELSE ops[i].status
<1> DEFINE r == OpsIn(which, status)
<1>1. \A i \in DOMAIN ops : ops[i] \in Operations
  OBVIOUS
<1>2. DOMAIN ops = 1..Len(ops)
  OBVIOUS
<1>3. ASSUME NEW i \in DOMAIN ops
      PROVE  /\ r[i] \in Operations
             /\ r[i].id = ops[i].id
             /\ r[i].status = IF i \in which THEN status ELSE ops[i].status
  BY <1>1 DEF OpsIn, Operations
<1>4. r = [i \in DOMAIN ops |-> r[i]]
  BY DEF OpsIn
<1> HIDE DEF r
<1>5. r \in Seq(Operations) /\ Len(r) = Len(ops)
  BY <1>3, <1>4, RewriteInPlace
<1>6. /\ r \in Seq(Operations) /\ Len(r) = Len(ops)
      /\ \A i \in 1..Len(ops) :
            /\ r[i].id = ops[i].id
            /\ r[i].status = IF i \in which THEN status ELSE ops[i].status
  BY <1>2, <1>3, <1>5
<1> QED
  BY <1>6 DEF r

\* finish_op() and set_op_error() rewrite in place too.
LEMMA FinishedLemma ==
    ASSUME ops \in Seq(Operations)
    PROVE  /\ Finished \in Seq(Operations) /\ Len(Finished) = Len(ops)
           /\ \A i \in 1..Len(ops) :
                /\ Finished[i].id = ops[i].id
                /\ \/ Finished[i].status = ops[i].status
                   \/ i = cur /\ Finished[i].status = "END"
<1>1. "END" \in Statuses
  BY DEF Statuses
<1>2. CASE Finished = ops
  BY <1>2
<1>3. CASE Finished = OpsIn({cur}, "END")
  BY <1>1, <1>3, OpsInLemma
<1> QED
  BY <1>2, <1>3 DEF Finished, CurrentIn

\* A new operation is appended.
LEMMA AppendedLemma ==
    ASSUME OpTypes, NEW id \in Nat, NEW status \in Statuses, NewOp(id, status)
    PROVE  /\ OpTypes'
           /\ Len(ops') = Len(ops) + 1
           /\ \A i \in 1..Len(ops) : ops'[i] = ops[i]
           /\ ops'[Len(ops) + 1] = [id |-> id, status |-> status]
<1> DEFINE op == [id |-> id, status |-> status]
<1>1. op \in Operations
  BY DEF Operations
<1>2. ops \in Seq(Operations) /\ Len(ops) \in Nat /\ removed \in 0..Len(ops)
      /\ cur \in 0..Len(ops)
  BY DEF OpTypes
<1> HIDE DEF op
<1>3. ops' = Append(ops, op)
  BY DEF NewOp, op
<1>4. /\ ops' \in Seq(Operations) /\ Len(ops') = Len(ops) + 1
      /\ \A i \in 1..Len(ops) : ops'[i] = ops[i]
      /\ ops'[Len(ops) + 1] = op
  BY <1>1, <1>2, <1>3
<1>5. cur' \in {cur, Len(ops) + 1} /\ removed' = removed
  BY DEF NewOp
<1>6. cur' \in 0..Len(ops') /\ removed' \in 0..Len(ops')
  BY <1>2, <1>4, <1>5
<1>7. timed' \in BOOLEAN
  BY DEF NewOp, OpTypes
<1> QED
  BY <1>4, <1>6, <1>7 DEF op, OpTypes

\* cancel_op() marks operations still to be polled; the current one stays
\* current exactly if it is not among them, when no two have the same id.
LEMMA CancelOpLemma ==
    ASSUME OpTypes, NEW id, CancelOp(id),
           \A i, j \in DOMAIN ops : i < j => ops[i].id # ops[j].id
    PROVE  /\ OpTypes' /\ SameIds(ops, ops')
           /\ \A i \in 1..Len(ops) :
                \/ ops'[i].status = ops[i].status
                \/ removed < i /\ ops'[i].status = "CANCELLED"
           /\ cur' = IF CancelsCurrent(id) THEN 0 ELSE cur
           /\ cur # 0 => ops'[cur].status = IF CancelsCurrent(id)
                                            THEN "CANCELLED"
                                            ELSE ops[cur].status
<1>1. /\ ops' = OpsIn(Matching(id), "CANCELLED") /\ removed' = removed
      /\ cur' = IF CancelsCurrent(id) THEN 0 ELSE cur
      /\ timed' = (timed /\ ~CancelsCurrent(id))
  BY DEF CancelOp
<1>2. /\ ops' \in Seq(Operations) /\ Len(ops') = Len(ops)
      /\ \A i \in 1..Len(ops) :
            /\ ops'[i].id = ops[i].id
            /\ ops'[i].status = IF i \in Matching(id) THEN "CANCELLED"
                                ELSE ops[i].status
  BY <1>1, OpsInLemma DEF OpTypes, Statuses
<1>3. /\ Len(ops) \in Nat /\ DOMAIN ops = 1..Len(ops)
      /\ cur \in 0..Len(ops) /\ removed \in 0..Len(ops)
  BY DEF OpTypes
<1>4. \A i \in Matching(id) : i \in 1..Len(ops) /\ removed < i
  BY <1>3 DEF Matching
<1>5. CancelsCurrent(id) <=> (cur # 0 /\ cur \in Matching(id))
  <2>1. ASSUME NEW i \in Matching(id), cur # 0, ops[i].id = ops[cur].id
        PROVE  i = cur
    <3>1. i \in 1..Len(ops) /\ cur \in 1..Len(ops)
      BY <1>3, <1>4, <2>1
    <3> QED
      BY <1>3, <2>1, <3>1
  <2> QED
    BY <2>1 DEF CancelsCurrent
<1>6. OpTypes'
  BY <1>1, <1>2, <1>3 DEF OpTypes
<1>7. cur # 0 => cur \in 1..Len(ops)
  BY <1>3
<1> QED
  BY <1>1, <1>2, <1>4, <1>5, <1>6, <1>7 DEF SameIds
=============================================================================

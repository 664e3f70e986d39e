----------------------- MODULE StreamQueueListProofs -----------------------
(***************************************************************************)
(* The flat list of StreamQueueList keeps its index (IndexAgrees) and      *)
(* implements the queue of streams (StreamQueueSpec), for any ids, any     *)
(* data and lists of any length.                                           *)
(***************************************************************************)
EXTENDS StreamQueueList, SequenceTheorems, FiniteSetTheorems,
        WellFoundedInduction, TLAPS

\* The items of the list.
Items ==
    [type : {"data"} \cup TagTypes, polling : {0, 1}, id : Ids \cup {0},
     content : Data \cup {NoItem}]

\* What is before the stream of the i-th tag: the tag before it, or nothing.
Before(at, i) == IF i = 1 THEN 0 ELSE at[i - 1]

\* at gives the place of each tag of tq in the list q; an erased stream has no
\* data in front of its tag.
Indexed(q, tq, at) ==
    /\ at \in [DOMAIN tq -> DOMAIN q]
    /\ ListsTags(q, at)
    /\ \A i \in DOMAIN tq : q[at[i]].id = tq[i]
    /\ IsInjective(tq)
    /\ q # <<>> => IsTag(q[Len(q)])
    /\ \A i \in DOMAIN tq :
            q[at[i]].type \in {"deleted", "error"} => at[i] = Before(at, i) + 1

\* The stream with its tag at position k and its data after position b.
StreamOf(q, b, k) ==
    [id |-> q[k].id, type |-> q[k].type, polling |-> q[k].polling,
     data |-> [n \in 1..(k - b - 1) |-> q[b + n].content]]

\* The streams whose tags are at the places at.
CutAt(q, at) == [i \in DOMAIN at |-> StreamOf(q, Before(at, i), at[i])]

\* The list q and the start order tq hold the queue of streams c.
Lists(q, tq, c) ==
    /\ q \in Seq(Items) /\ tq \in Seq(Ids)
    /\ \E at : Indexed(q, tq, at) /\ CutAt(q, at) = c

-----------------------------------------------------------------------------
(* What each operator of the queue of streams keeps a queue.               *)

\* A queue rewritten in place, stream by stream.
LEMMA Rewritten ==
    ASSUME NEW Id, NEW D, NEW q \in Queues(Id, D), NEW r,
           r = [i \in DOMAIN q |-> r[i]],
           \A i \in DOMAIN q : r[i] \in Streams(Id, D)
    PROVE  r \in Queues(Id, D) /\ Len(r) = Len(q)
<1>1. DOMAIN q = 1..Len(q) /\ Len(q) \in Nat
  BY DEF Queues
<1>2. r \in [1..Len(q) -> Streams(Id, D)]
  BY <1>1
<1> QED
  BY <1>1, <1>2 DEF Queues

\* stream() keeps a queue a queue.
LEMMA StreamLemma ==
    ASSUME NEW Id, NEW D, NEW q \in Queues(Id, D), NEW id, NEW d \in D
    PROVE  Stream(q, id, d) \in Queues(Id, D) /\ Len(Stream(q, id, d)) = Len(q)
<1>1. PICK r : r = Stream(q, id, d)
  OBVIOUS
<1>2. r = [i \in DOMAIN q |-> r[i]]
  BY <1>1 DEF Stream
<1>3. ASSUME NEW i \in DOMAIN q
      PROVE  r[i] \in Streams(Id, D)
  <2>1. PICK s \in Streams(Id, D) : s = q[i]
    BY DEF Queues
  <2>2. r[i] = s \/ r[i] = [s EXCEPT !.data = Append(s.data, d)]
    BY <1>1, <2>1 DEF Stream
  <2>3. Append(s.data, d) \in Seq(D)
    BY <2>1 DEF Streams, TagTypes
  <2> QED
    BY <2>1, <2>2, <2>3 DEF Streams
<1> QED
  BY <1>1, <1>2, <1>3, Rewritten

\* end() keeps a queue a queue.
LEMMA EndLemma ==
    ASSUME NEW Id, NEW D, NEW q \in Queues(Id, D), NEW id
    PROVE  End(q, id) \in Queues(Id, D) /\ Len(End(q, id)) = Len(q)
<1>1. PICK r : r = End(q, id)
  OBVIOUS
<1>2. r = [i \in DOMAIN q |-> r[i]]
  BY <1>1 DEF End
<1>3. ASSUME NEW i \in DOMAIN q
      PROVE  r[i] \in Streams(Id, D)
  <2>1. PICK s \in Streams(Id, D) : s = q[i]
    BY DEF Queues
  <2>2. r[i] = s \/ r[i] = [s EXCEPT !.type = "completed"]
    BY <1>1, <2>1 DEF End
  <2>3. "completed" \in TagTypes
    BY <2>1 DEF Streams, TagTypes
  <2> QED
    BY <2>1, <2>2, <2>3 DEF Streams
<1> QED
  BY <1>1, <1>2, <1>3, Rewritten

\* erase() keeps a queue a queue.
LEMMA EraseLemma ==
    ASSUME NEW Id, NEW D, NEW q \in Queues(Id, D), NEW id,
           NEW type \in {"deleted", "error"}
    PROVE  Erase(q, id, type) \in Queues(Id, D) /\ Len(Erase(q, id, type)) = Len(q)
<1>1. PICK r : r = Erase(q, id, type)
  OBVIOUS
<1>2. r = [i \in DOMAIN q |-> r[i]]
  BY <1>1 DEF Erase
<1>3. ASSUME NEW i \in DOMAIN q
      PROVE  r[i] \in Streams(Id, D)
  <2>1. PICK s \in Streams(Id, D) : s = q[i]
    BY DEF Queues
  <2>e. PICK e : e = <<>>
    OBVIOUS
  <2>2. r[i] = s \/ r[i] = [s EXCEPT !.type = type, !.data = e]
    BY <1>1, <2>1, <2>e DEF Erase
  <2>3. type \in TagTypes /\ e \in Seq(D)
    BY <2>e DEF TagTypes
  <2> QED
    BY <2>1, <2>2, <2>3 DEF Streams
<1> QED
  BY <1>1, <1>2, <1>3, Rewritten

\* clear() keeps a queue a queue.
LEMMA ClearLemma ==
    ASSUME NEW Id, NEW D, NEW q \in Queues(Id, D)
    PROVE  Clear(q) \in Queues(Id, D) /\ Len(Clear(q)) = Len(q)
<1>1. PICK r : r = Clear(q)
  OBVIOUS
<1>2. r = [i \in DOMAIN q |-> r[i]]
  BY <1>1 DEF Clear
<1>3. ASSUME NEW i \in DOMAIN q
      PROVE  r[i] \in Streams(Id, D)
  <2>1. PICK s \in Streams(Id, D) : s = q[i]
    BY DEF Queues
  <2>e. PICK e : e = <<>>
    OBVIOUS
  <2>2. r[i] = [s EXCEPT !.type = "deleted", !.data = e]
    BY <1>1, <2>1, <2>e DEF Clear
  <2>3. "deleted" \in TagTypes /\ e \in Seq(D)
    BY <2>e DEF TagTypes
  <2> QED
    BY <2>1, <2>2, <2>3 DEF Streams
<1> QED
  BY <1>1, <1>2, <1>3, Rewritten

\* pop() keeps a queue a queue.
LEMMA PoppedLemma ==
    ASSUME NEW Id, NEW D, NEW q \in Queues(Id, D)
    PROVE  Popped(q) \in Queues(Id, D)
<1>1. CASE q = <<>>
  BY <1>1 DEF Popped, PopType
<1>2. CASE q # <<>>
  <2>1. /\ q \in Seq(Streams(Id, D)) /\ 1 \in DOMAIN q /\ q[1] \in Streams(Id, D)
        /\ Tail(q) \in Queues(Id, D)
    BY <1>2 DEF Queues
  <2>3. PopType(q) = "DATA" => q[1].data # <<>>
    BY <1>2 DEF PopType
  <2>4. CASE PopType(q) = "EMPTY"
    BY <2>4 DEF Popped
  <2>5. CASE PopType(q) = "START"
    <3>1. [q[1] EXCEPT !.polling = 1] \in Streams(Id, D)
      BY <2>1 DEF Streams
    <3>2. Popped(q) = [q EXCEPT ![1].polling = 1]
      BY <2>5 DEF Popped
    <3> QED
      BY <2>1, <3>1, <3>2 DEF Queues
  <2>6. CASE PopType(q) = "DATA"
    <3>1. Tail(q[1].data) \in Seq(D)
      BY <2>1, <2>3, <2>6 DEF Streams
    <3>2. [q[1] EXCEPT !.data = Tail(@)] \in Streams(Id, D)
      BY <2>1, <3>1 DEF Streams
    <3>3. Popped(q) = [q EXCEPT ![1].data = Tail(@)]
      BY <2>6 DEF Popped
    <3> QED
      BY <2>1, <3>2, <3>3 DEF Queues
  <2>7. CASE PopType(q) \notin {"EMPTY", "START", "DATA"}
    BY <2>1, <2>7 DEF Popped
  <2> QED
    BY <2>4, <2>5, <2>6, <2>7
<1> QED
  BY <1>1, <1>2

-----------------------------------------------------------------------------
\* Induction without a predicate: a set of naturals has a least element.
LEMMA LeastElement ==
    ASSUME NEW T, T \subseteq Nat, T # {}
    PROVE  \E x \in T : \A y \in T : x <= y
<1>1. PICK x \in T : \A y \in T : ~(<<y, x>> \in OpToRel(<, Nat))
  BY NatLessThanWellFounded, WFMin
<1>2. x \in T /\ \A y \in T : ~(y < x)
  BY <1>1 DEF OpToRel
<1>3. \A y \in T : y \in Nat
  OBVIOUS
<1> QED
  BY <1>2, <1>3

\* The places of the tags are in the list, apart, in order.
LEMMA Places ==
    ASSUME NEW q \in Seq(Items), NEW tq \in Seq(Ids), NEW at, Indexed(q, tq, at)
    PROVE  /\ Len(q) \in Nat /\ DOMAIN q = 1..Len(q)
           /\ Len(tq) \in Nat /\ DOMAIN tq = 1..Len(tq) /\ DOMAIN at = 1..Len(tq)
           /\ \A i \in 1..Len(tq) :
                /\ at[i] \in 1..Len(q) /\ IsTag(q[at[i]]) /\ q[at[i]].id = tq[i]
                /\ Before(at, i) \in 0..(at[i] - 1)
                /\ \A k \in 1..Len(q) :
                        (Before(at, i) < k /\ k < at[i]) => ~IsTag(q[k])
           /\ \A i, j \in 1..Len(tq) : i < j => at[i] <= Before(at, j)
           /\ \A k \in 1..Len(q) :
                IsTag(q[k]) => \E i \in 1..Len(tq) : at[i] = k
           /\ tq = <<>> <=> q = <<>>
           /\ tq # <<>> => at[Len(tq)] = Len(q)
<1>1. /\ Len(q) \in Nat /\ DOMAIN q = 1..Len(q)
      /\ Len(tq) \in Nat /\ DOMAIN tq = 1..Len(tq) /\ DOMAIN at = 1..Len(tq)
  BY DEF Indexed
<1>2. \A i \in 1..Len(tq) :
        at[i] \in 1..Len(q) /\ IsTag(q[at[i]]) /\ q[at[i]].id = tq[i]
  BY <1>1 DEF Indexed, ListsTags
<1>3. \A i, j \in 1..Len(tq) : i < j => at[i] < at[j]
  BY <1>1 DEF Indexed, ListsTags
<1>4. \A k \in 1..Len(q) : IsTag(q[k]) => \E i \in 1..Len(tq) : at[i] = k
  BY <1>1 DEF Indexed, ListsTags
<1>5. \A i \in 1..Len(tq) : Before(at, i) \in 0..(at[i] - 1)
  <2> SUFFICES ASSUME NEW i \in 1..Len(tq)
               PROVE  Before(at, i) \in 0..(at[i] - 1)
    OBVIOUS
  <2>1. CASE i = 1
    BY <1>1, <1>2, <2>1 DEF Before
  <2>2. CASE i # 1
    <3>1. i - 1 \in 1..Len(tq) /\ i - 1 < i
      BY <1>1, <2>2
    <3>2. at[i - 1] < at[i] /\ at[i - 1] \in Nat /\ at[i] \in Nat
      BY <1>1, <1>2, <1>3, <3>1
    <3> QED
      BY <2>2, <3>2 DEF Before
  <2> QED
    BY <2>1, <2>2
<1>6. \A i, j \in 1..Len(tq) : i < j => at[i] <= Before(at, j)
  <2> SUFFICES ASSUME NEW i \in 1..Len(tq), NEW j \in 1..Len(tq), i < j
               PROVE  at[i] <= at[j - 1]
    BY <1>1 DEF Before
  <2>1. j - 1 \in 1..Len(tq) /\ (i = j - 1 \/ i < j - 1)
    BY <1>1
  <2>2. at[i] \in Nat /\ at[j - 1] \in Nat
    BY <1>1, <1>2, <2>1
  <2>3. i < j - 1 => at[i] < at[j - 1]
    BY <1>3, <2>1
  <2> QED
    BY <2>1, <2>2, <2>3
<1>7. ASSUME NEW i \in 1..Len(tq), NEW k \in 1..Len(q), IsTag(q[k]),
             Before(at, i) < k, k < at[i]
      PROVE  FALSE
  <2>1. PICK j \in 1..Len(tq) : at[j] = k
    BY <1>4, <1>7
  <2>2. j < i \/ j = i \/ i < j
    BY <1>1
  <2> QED
    BY <1>1, <1>2, <1>3, <1>5, <1>6, <1>7, <2>1, <2>2
<1>8. /\ tq = <<>> <=> q = <<>>
      /\ tq # <<>> => at[Len(tq)] = Len(q)
  <2>1. ASSUME q # <<>>
        PROVE  Len(tq) \in 1..Len(tq) /\ at[Len(tq)] = Len(q)
    <3>1. Len(q) \in 1..Len(q) /\ IsTag(q[Len(q)])
      BY <1>1, <2>1 DEF Indexed
    <3>2. PICK i \in 1..Len(tq) : at[i] = Len(q)
      BY <1>4, <3>1
    <3>3. Len(tq) \in 1..Len(tq) /\ (i = Len(tq) \/ i < Len(tq))
      <4>1. PICK n \in Nat : n = Len(tq)
        BY <1>1
      <4>2. i \in 1..n
        BY <3>2, <4>1
      <4>3. n \in 1..n /\ (i = n \/ i < n)
        BY <4>1, <4>2
      <4> QED
        BY <4>1, <4>3
    <3>4. at[Len(tq)] \in 1..Len(q)
      BY <1>2, <3>3
    <3>5. i < Len(tq) => at[i] < at[Len(tq)]
      BY <1>3, <3>3
    <3>6. ~(i < Len(tq))
      <4>1. at[i] = Len(q) /\ ~(Len(q) < at[Len(tq)])
        BY <1>1, <3>2, <3>4
      <4> QED
        BY <3>5, <4>1
    <3> QED
      BY <3>2, <3>3, <3>6
  <2>2. ASSUME tq # <<>> PROVE q # <<>>
    BY <1>1, <1>2, <2>2
  <2> QED
    BY <1>1, <2>1, <2>2
<1> QED
  BY <1>1, <1>2, <1>4, <1>5, <1>6, <1>7, <1>8

\* An iterator finds its tag.
LEMMA PosLemma ==
    ASSUME NEW q \in Seq(Items), NEW tq \in Seq(Ids), NEW at,
           Indexed(q, tq, at), NEW i \in 1..Len(tq)
    PROVE  Pos(q, tq[i]) = at[i]
<1>1. at[i] \in DOMAIN q /\ IsTag(q[at[i]]) /\ q[at[i]].id = tq[i]
  BY Places, SMTT(20)
<1>2. ASSUME NEW k \in DOMAIN q, IsTag(q[k]), q[k].id = tq[i]
      PROVE  k = at[i]
  <2>0. k \in 1..Len(q)
    BY Places, SMTT(20)
  <2>1. PICK j \in 1..Len(tq) : at[j] = k
    <3>1. \A h \in 1..Len(q) : IsTag(q[h]) => \E j \in 1..Len(tq) : at[j] = h
      BY Places, SMTT(20)
    <3> QED
      BY <1>2, <2>0, <3>1
  <2>2. tq[j] = tq[i]
    BY <1>2, <2>1, Places, SMTT(20)
  <2>3. j = i
    BY <2>1, <2>2, Places DEF Indexed, IsInjective
  <2> QED
    BY <2>1, <2>3
<1> QED
  BY <1>1, <1>2 DEF Pos

\* erase() walks back to the tag before.
LEMMA FirstLemma ==
    ASSUME NEW q \in Seq(Items), NEW tq \in Seq(Ids), NEW at,
           Indexed(q, tq, at), NEW i \in 1..Len(tq)
    PROVE  FirstDataBefore(q, at[i]) = Before(at, i) + 1
<1> DEFINE k == at[i]
           b == Before(at, i) + 1
           First(j) == /\ \A n \in j..(k - 1) : ~IsTag(q[n])
                       /\ j = 1 \/ IsTag(q[j - 1])
<1>1. /\ k \in 1..Len(q) /\ b \in 1..k /\ Len(q) \in Nat /\ Len(tq) \in Nat
      /\ \A n \in b..(k - 1) : ~IsTag(q[n])
  BY Places, SMTT(20)
<1>2. b = 1 \/ IsTag(q[b - 1])
  <2>1. CASE i = 1
    BY <2>1 DEF Before
  <2>2. CASE i # 1
    <3>1. i - 1 \in 1..Len(tq) /\ Before(at, i) = at[i - 1]
      BY <1>1, <2>2 DEF Before
    <3>2. at[i - 1] \in Nat /\ IsTag(q[at[i - 1]])
      BY <1>1, <3>1, Places, SMTT(20)
    <3> QED
      BY <3>1, <3>2
  <2> QED
    BY <2>1, <2>2
<1>3. ASSUME NEW j \in 1..k, First(j)
      PROVE  j = b
  <2>1. CASE j < b
    <3>1. b # 1 /\ b - 1 \in j..(k - 1)
      BY <1>1, <2>1
    <3> QED
      BY <1>2, <1>3, <3>1
  <2>2. CASE b < j
    <3>1. j # 1 /\ j - 1 \in b..(k - 1)
      BY <1>1, <2>2
    <3> QED
      BY <1>1, <1>3, <3>1
  <2> QED
    BY <1>1, <2>1, <2>2
<1>4. First(b)
  BY <1>1, <1>2
<1>5. FirstDataBefore(q, k) = CHOOSE j \in 1..k : First(j)
  BY DEF FirstDataBefore
<1> HIDE DEF First
<1> QED
  BY <1>1, <1>3, <1>4, <1>5

\* The refinement mapping cuts the list at the places of the tags.
LEMMA MappingCuts ==
    ASSUME NEW q \in Seq(Items), NEW tq \in Seq(Ids), NEW at, Indexed(q, tq, at)
    PROVE  [i \in DOMAIN tq |-> StreamAt(q, Pos(q, tq[i]))] = CutAt(q, at)
<1>1. DOMAIN tq = 1..Len(tq) /\ DOMAIN at = 1..Len(tq)
  BY Places, SMTT(20)
<1>2. ASSUME NEW i \in 1..Len(tq)
      PROVE  StreamAt(q, Pos(q, tq[i])) = StreamOf(q, Before(at, i), at[i])
  <2> DEFINE b == Before(at, i)
             k == at[i]
  <2>1. Pos(q, tq[i]) = k /\ FirstDataBefore(q, k) = b + 1
    BY PosLemma, FirstLemma
  <2>2. b \in Nat /\ k \in Nat
    BY Places, SMTT(20)
  <2> HIDE DEF b, k
  <2>3. StreamAt(q, k) =
          [id |-> q[k].id, type |-> q[k].type, polling |-> q[k].polling,
           data |-> [n \in 1..(k - (b + 1)) |-> q[b + 1 + n - 1].content]]
    BY <2>1 DEF StreamAt
  <2>4. [n \in 1..(k - (b + 1)) |-> q[b + 1 + n - 1].content]
            = [n \in 1..(k - b - 1) |-> q[b + n].content]
    <3>1. k - (b + 1) = k - b - 1
      BY <2>2
    <3>2. \A n \in 1..(k - b - 1) : b + 1 + n - 1 = b + n
      BY <2>2
    <3> QED
      BY <3>1, <3>2
  <2>5. StreamAt(q, k) = StreamOf(q, b, k)
    BY <2>3, <2>4 DEF StreamOf
  <2> QED
    BY <2>1, <2>5 DEF b, k
<1> QED
  BY <1>1, <1>2 DEF CutAt

\* The items of q after b, up to k, are those of r after c, up to l.
SameItems(q, b, k, r, c, l) ==
    /\ b \in Nat /\ k \in Nat /\ b < k
    /\ c \in Nat /\ l \in Nat /\ l - c = k - b
    /\ \A n \in 1..(k - b) : r[c + n] = q[b + n]

\* The same items make the same stream.
LEMMA SameStream ==
    ASSUME NEW q, NEW b, NEW k, NEW r, NEW c, NEW l, SameItems(q, b, k, r, c, l)
    PROVE  StreamOf(r, c, l) = StreamOf(q, b, k)
<1> USE DEF SameItems
<1>1. r[l] = q[k]
  <2>1. k - b \in 1..(k - b) /\ c + (k - b) = l /\ b + (k - b) = k
    OBVIOUS
  <2> QED
    BY <2>1
<1>2. [n \in 1..(l - c - 1) |-> r[c + n].content]
        = [n \in 1..(k - b - 1) |-> q[b + n].content]
  <2>1. l - c - 1 = k - b - 1
    OBVIOUS
  <2>2. \A n \in 1..(k - b - 1) : r[c + n].content = q[b + n].content
    OBVIOUS
  <2> QED
    BY <2>1, <2>2
<1> QED
  BY <1>1, <1>2 DEF StreamOf

\* The contents of the data of a stream.
Contents == Data \cup {NoItem}

\* The streams cut out of the list, one for each tag.
LEMMA CutShape ==
    ASSUME NEW q \in Seq(Items), NEW tq \in Seq(Ids), NEW at, Indexed(q, tq, at)
    PROVE  /\ CutAt(q, at) \in Queues(Ids, Contents)
           /\ Len(CutAt(q, at)) = Len(tq)
           /\ \A i \in 1..Len(tq) :
                /\ CutAt(q, at)[i] = StreamOf(q, Before(at, i), at[i])
                /\ CutAt(q, at)[i] \in Streams(Ids, Contents)
                /\ CutAt(q, at)[i].id = tq[i]
                /\ CutAt(q, at)[i].type = q[at[i]].type
                /\ CutAt(q, at)[i].polling = q[at[i]].polling
                /\ Len(CutAt(q, at)[i].data) = at[i] - Before(at, i) - 1
                /\ \A n \in 1..(at[i] - Before(at, i) - 1) :
                        CutAt(q, at)[i].data[n] = q[Before(at, i) + n].content
<1>1. DOMAIN at = 1..Len(tq) /\ Len(tq) \in Nat
  BY Places, SMTT(20)
<1>2. ASSUME NEW i \in 1..Len(tq)
      PROVE  LET s == StreamOf(q, Before(at, i), at[i]) IN
             /\ s \in Streams(Ids, Contents)
             /\ s.id = tq[i] /\ s.type = q[at[i]].type
             /\ s.polling = q[at[i]].polling
             /\ Len(s.data) = at[i] - Before(at, i) - 1
             /\ \A n \in 1..(at[i] - Before(at, i) - 1) :
                        s.data[n] = q[Before(at, i) + n].content
  <2>1. PICK k, b : k = at[i] /\ b = Before(at, i)
    OBVIOUS
  <2>2. /\ k \in 1..Len(q) /\ b \in 0..(k - 1) /\ Len(q) \in Nat
        /\ IsTag(q[k]) /\ q[k].id = tq[i] /\ tq[i] \in Ids
    BY <1>1, <2>1, Places, SMTT(20)
  <2>3. \A n \in 1..Len(q) : q[n] \in Items
    BY <2>2
  <2>4. k - b - 1 \in Nat /\ \A n \in 1..(k - b - 1) : b + n \in 1..Len(q)
    BY <2>2
  <2>5. PICK d : d = [n \in 1..(k - b - 1) |-> q[b + n].content]
    OBVIOUS
  <2>6. d \in Seq(Contents) /\ Len(d) = k - b - 1
    <3>1. \A n \in 1..(k - b - 1) : q[b + n].content \in Contents
      BY <2>3, <2>4 DEF Items, Contents
    <3>2. PICK m \in Nat : m = k - b - 1
      BY <2>4
    <3>3. d \in [1..m -> Contents]
      BY <2>5, <3>1, <3>2
    <3> QED
      BY <3>2, <3>3
  <2>7. q[k].type \in TagTypes /\ q[k].polling \in {0, 1}
    BY <2>2, <2>3 DEF Items, IsTag
  <2>8. StreamOf(q, b, k) = [id |-> q[k].id, type |-> q[k].type,
                             polling |-> q[k].polling, data |-> d]
    BY <2>5 DEF StreamOf
  <2>9. \A n \in 1..(k - b - 1) : d[n] = q[b + n].content
    BY <2>5
  <2>10. StreamOf(q, b, k) \in Streams(Ids, Contents)
    BY <2>2, <2>6, <2>7, <2>8 DEF Streams
  <2>11. PICK s : s = StreamOf(q, b, k)
    OBVIOUS
  <2>12. /\ s.id = q[k].id /\ s.type = q[k].type /\ s.polling = q[k].polling
         /\ s.data = d
    BY <2>8, <2>11
  <2>13. s \in Streams(Ids, Contents) /\ s.id = tq[i]
    BY <2>2, <2>10, <2>11, <2>12
  <2>14. Len(s.data) = k - b - 1
    BY <2>6, <2>12
  <2>15. \A n \in 1..(k - b - 1) : s.data[n] = q[b + n].content
    BY <2>9, <2>12
  <2>16. s = StreamOf(q, Before(at, i), at[i])
    BY <2>1, <2>11
  <2> QED
    BY <2>1, <2>12, <2>13, <2>14, <2>15, <2>16
<1>3. \A i \in 1..Len(tq) :
        CutAt(q, at)[i] = StreamOf(q, Before(at, i), at[i])
  BY <1>1 DEF CutAt
<1>4. /\ CutAt(q, at) \in Seq(Streams(Ids, Contents))
      /\ Len(CutAt(q, at)) = Len(tq)
  <2>1. PICK n \in Nat : n = Len(tq)
    BY <1>1
  <2>2. CutAt(q, at) = [i \in 1..n |-> StreamOf(q, Before(at, i), at[i])]
    BY <1>1, <2>1 DEF CutAt
  <2>3. CutAt(q, at) \in [1..n -> Streams(Ids, Contents)]
    BY <1>2, <2>1, <2>2
  <2> QED
    BY <2>1, <2>3
<1> QED
  BY <1>2, <1>3, <1>4 DEF Queues

\* A sequence of streams is cut out of a list when each of its streams is.
LEMMA CutIs ==
    ASSUME NEW q \in Seq(Items), NEW tq \in Seq(Ids), NEW at, Indexed(q, tq, at),
           NEW S, NEW f \in Seq(S), Len(f) = Len(tq),
           \A i \in 1..Len(tq) : f[i] = StreamOf(q, Before(at, i), at[i])
    PROVE  f = CutAt(q, at)
<1>1. DOMAIN at = 1..Len(tq) /\ DOMAIN f = 1..Len(tq)
  BY Places, SMTT(20)
<1>2. f = [i \in 1..Len(tq) |-> f[i]]
  BY <1>1
<1> QED
  BY <1>1, <1>2 DEF CutAt

\* Streams with the same tag and the same data are the same.
LEMMA StreamsEqual ==
    ASSUME NEW s \in Streams(Ids, Contents), NEW t \in Streams(Ids, Contents),
           s.id = t.id, s.type = t.type, s.polling = t.polling,
           Len(s.data) = Len(t.data),
           \A n \in 1..Len(s.data) : s.data[n] = t.data[n]
    PROVE  s = t
<1>1. s.data \in Seq(Contents) /\ t.data \in Seq(Contents)
  BY DEF Streams
<1>2. s.data = t.data
  BY <1>1, SeqEqual, SMTT(20)
<1> QED
  BY <1>2 DEF Streams

\* An index is made of its gaps: before each tag the one of the tag before it,
\* or the front of the list, with data between them.
LEMMA IndexedIntro ==
    ASSUME NEW q \in Seq(Items), NEW tq \in Seq(Ids), IsInjective(tq),
           NEW at \in [1..Len(tq) -> 1..Len(q)],
           \A i \in 1..Len(tq) :
                /\ IsTag(q[at[i]]) /\ q[at[i]].id = tq[i]
                /\ Before(at, i) < at[i]
                /\ \A k \in 1..Len(q) :
                        (Before(at, i) < k /\ k < at[i]) => ~IsTag(q[k])
                /\ q[at[i]].type \in {"deleted", "error"}
                        => at[i] = Before(at, i) + 1,
           q # <<>> => tq # <<>> /\ at[Len(tq)] = Len(q)
    PROVE  Indexed(q, tq, at)
<1>1. /\ DOMAIN q = 1..Len(q) /\ DOMAIN tq = 1..Len(tq) /\ DOMAIN at = 1..Len(tq)
      /\ Len(q) \in Nat /\ Len(tq) \in Nat
      /\ \A i \in 1..Len(tq) : at[i] \in 1..Len(q) /\ at[i] \in Nat
  OBVIOUS
<1>2. ASSUME NEW i \in 1..Len(tq), NEW j \in 1..Len(tq), i < j
      PROVE  at[i] < at[j]
  <2> DEFINE Wrong == {l \in Nat : /\ l \in 1..Len(tq)
                                   /\ \E h \in 1..Len(tq) : h < l /\ ~(at[h] < at[l])}
  <2>1. SUFFICES ASSUME Wrong # {}
                 PROVE  FALSE
    <3>1. j \in Nat
      BY <1>1
    <3> QED
      BY <1>2, <2>1, <3>1
  <2>2. PICK l \in Wrong : \A x \in Wrong : l <= x
    <3> HIDE DEF Wrong
    <3>1. Wrong \subseteq Nat
      BY DEF Wrong
    <3> QED
      BY <2>1, <3>1, LeastElement
  <2>3. PICK h \in 1..Len(tq) : h < l /\ ~(at[h] < at[l])
    BY <2>2
  <2>4. /\ l \in 1..Len(tq) /\ l # 1 /\ l - 1 \in 1..Len(tq) /\ l - 1 \in Nat
        /\ l - 1 < l /\ h \in Nat /\ l \in Nat
        /\ (h = l - 1 \/ h < l - 1)
    BY <1>1, <2>2, <2>3
  <2>5. at[l - 1] < at[l]
    BY <2>4 DEF Before
  <2>6. l - 1 \notin Wrong
    <3> HIDE DEF Wrong
    <3> QED
      BY <2>2, <2>4
  <2>7. h < l - 1 => at[h] < at[l - 1]
    BY <2>4, <2>6
  <2>8. at[h] \in Nat /\ at[l] \in Nat /\ at[l - 1] \in Nat
    BY <1>1, <2>3, <2>4
  <2> HIDE DEF Wrong
  <2> QED
    BY <2>3, <2>4, <2>5, <2>7, <2>8
<1>3. ASSUME NEW k \in 1..Len(q), IsTag(q[k])
      PROVE  \E i \in 1..Len(tq) : at[i] = k
  <2> DEFINE Beyond == {l \in Nat : l \in 1..Len(tq) /\ k <= at[l]}
  <2>1. Beyond # {}
    <3>1. PICK n \in Nat : n = Len(tq)
      BY <1>1
    <3>2. q # <<>>
      BY <1>1, <1>3
    <3>3. n # 0 /\ at[n] = Len(q)
      BY <3>1, <3>2
    <3>4. n \in 1..n /\ k <= at[n]
      BY <1>1, <3>1, <3>3
    <3> QED
      BY <3>1, <3>4
  <2>2. PICK l \in Beyond : \A x \in Beyond : l <= x
    <3> HIDE DEF Beyond
    <3>1. Beyond \subseteq Nat
      BY DEF Beyond
    <3> QED
      BY <2>1, <3>1, LeastElement
  <2>3. l \in 1..Len(tq) /\ l \in Nat /\ k <= at[l] /\ at[l] \in Nat /\ k \in Nat
    BY <1>1, <2>2
  <2>4. Before(at, l) < k
    <3>1. CASE l = 1
      BY <3>1 DEF Before
    <3>2. CASE l # 1
      <4>1. l - 1 \in 1..Len(tq) /\ l - 1 \in Nat /\ ~(l <= l - 1)
        BY <1>1, <2>3, <3>2
      <4>2. l - 1 \notin Beyond
        BY <2>2, <4>1
      <4>3. ~(k <= at[l - 1]) /\ at[l - 1] \in Nat
        BY <1>1, <4>1, <4>2
      <4> HIDE DEF Beyond
      <4> QED
        BY <2>3, <3>2, <4>3 DEF Before
    <3> QED
      BY <3>1, <3>2
  <2>5. ~(k < at[l])
    BY <1>3, <2>3, <2>4
  <2>6. k = at[l]
    BY <2>3, <2>5
  <2> QED
    BY <2>3, <2>6
<1>4. ListsTags(q, at)
  BY <1>1, <1>2, <1>3 DEF ListsTags
<1>5. q # <<>> => IsTag(q[Len(q)])
  <2>1. SUFFICES ASSUME q # <<>>
                 PROVE  IsTag(q[Len(q)])
    OBVIOUS
  <2>2. PICK n \in Nat : n = Len(tq)
    BY <1>1
  <2>3. n \in 1..n /\ at[n] = Len(q)
    BY <2>1, <2>2
  <2> QED
    BY <2>2, <2>3
<1> QED
  BY <1>1, <1>4, <1>5 DEF Indexed

\* start(): a tag at the end of the list.
LEMMA StartKeeps ==
    ASSUME NEW q \in Seq(Items), NEW tq \in Seq(Ids), NEW at, Indexed(q, tq, at),
           NEW id \in Ids, id \notin Range(tq),
           NEW r, r = Append(q, TagItem(id)), NEW st, st = Append(tq, id)
    PROVE  Lists(r, st, Start(CutAt(q, at), id))
<1> DEFINE n == Len(tq) + 1
           m == Len(q) + 1
           bt == [i \in 1..n |-> IF i = n THEN m ELSE at[i]]
<1>1. /\ Len(q) \in Nat /\ Len(tq) \in Nat /\ n \in 1..n /\ m \in 1..m
      /\ DOMAIN tq = 1..(n - 1) /\ DOMAIN q = 1..(m - 1)
  BY Places, SMTT(20)
<1>2. TagItem(id) \in Items /\ IsTag(TagItem(id)) /\ TagItem(id).id = id
      /\ TagItem(id).type = "uncompleted"
  BY DEF TagItem, Items, TagTypes, IsTag
<1>3. /\ r \in Seq(Items) /\ Len(r) = m /\ r[m] = TagItem(id) /\ DOMAIN r = 1..m
      /\ \A k \in 1..(m - 1) : r[k] = q[k]
  BY <1>1, <1>2
<1>4. /\ st \in Seq(Ids) /\ Len(st) = n /\ st[n] = id /\ DOMAIN st = 1..n
      /\ \A i \in 1..(n - 1) : st[i] = tq[i]
  BY <1>1
<1>5. /\ DOMAIN bt = 1..n /\ bt[n] = m
      /\ \A i \in 1..(n - 1) :
            bt[i] = at[i] /\ bt[i] \in 1..(m - 1) /\ Before(bt, i) = Before(at, i)
  <2>1. bt[n] = m
    BY <1>1
  <2>2. \A i \in 1..(n - 1) : bt[i] = at[i] /\ at[i] \in 1..(m - 1)
    BY <1>1, Places, SMTT(20)
  <2>3. ASSUME NEW i \in 1..(n - 1)
        PROVE  Before(bt, i) = Before(at, i)
    <3>1. i = 1 \/ i - 1 \in 1..(n - 1)
      BY <1>1
    <3> QED
      BY <2>2, <3>1 DEF Before
  <2> QED
    BY <2>1, <2>2, <2>3
<1>6. Before(bt, n) = m - 1
  <2>1. CASE tq = <<>>
    <3>1. tq = <<>> /\ q = <<>>
      BY <2>1, Places, ZenonT(30)
    <3>2. Len(tq) = 0 /\ Len(q) = 0
      BY <3>1
    <3>3. n = 1 /\ m - 1 = 0
      BY <3>2
    <3> HIDE DEF bt, n, m
    <3> QED
      BY <3>3 DEF Before
  <2>2. CASE tq # <<>>
    <3>1. PICK l \in Nat : l = Len(tq)
      BY <1>1
    <3>2. l # 0
      BY <2>2, <3>1
    <3>3. l \in 1..l /\ l + 1 # 1 /\ (l + 1) - 1 = l /\ n = l + 1
      BY <3>1, <3>2
    <3>4. at[l] = Len(q)
      BY <2>2, <3>1, Places, SMTT(20)
    <3>5. bt[l] = at[l]
      BY <1>5, <3>3
    <3> HIDE DEF bt
    <3>6. Before(bt, n) = bt[l]
      BY <3>3 DEF Before
    <3>7. m - 1 = Len(q)
      BY <1>1
    <3> QED
      BY <3>4, <3>5, <3>6, <3>7
  <2> QED
    BY <2>1, <2>2
<1>7. bt = [i \in 1..n |-> bt[i]]
  OBVIOUS
<1> HIDE DEF bt, n, m
<1>8. \A i \in 1..n : i = n \/ i \in 1..(n - 1)
  BY <1>1
<1>9. \A k \in 1..m : k = m \/ k \in 1..(m - 1)
  BY <1>1
<1>10. /\ n \in Nat /\ m \in Nat /\ n # 0 /\ m # 0
       /\ n - 1 = Len(tq) /\ m - 1 = Len(q)
  BY <1>1 DEF n, m
<1>11. \A i \in 1..n : bt[i] \in 1..m
  <2>1. ASSUME NEW i \in 1..n
        PROVE  bt[i] \in 1..m
    <3>1. CASE i = n
      BY <1>1, <1>5, <3>1
    <3>2. CASE i \in 1..(n - 1)
      <4>1. bt[i] \in 1..(m - 1)
        BY <1>5, <3>2
      <4> QED
        BY <1>10, <4>1
    <3> QED
      BY <1>8, <3>1, <3>2
  <2> QED
    BY <2>1
<1>12. ListsTags(r, bt)
  <2>1. ASSUME NEW k \in 1..m
        PROVE  IsTag(r[k]) <=> \E i \in 1..n : bt[i] = k
    <3>1. CASE k = m
      BY <1>1, <1>2, <1>3, <1>5, <3>1
    <3>2. CASE k \in 1..(m - 1)
      <4>1. r[k] = q[k] /\ k # m
        BY <1>1, <1>3, <3>2
      <4>2. IsTag(q[k]) <=> \E i \in 1..(n - 1) : at[i] = k
        BY <1>1, <3>2 DEF Indexed, ListsTags
      <4>3. \A i \in 1..(n - 1) : i \in 1..n
        BY <1>1
      <4> QED
        BY <1>5, <1>8, <4>1, <4>2, <4>3
    <3> QED
      BY <1>9, <3>1, <3>2
  <2>2. ASSUME NEW i \in 1..n, NEW j \in 1..n, i < j
        PROVE  bt[i] < bt[j]
    <3>1. i \in 1..(n - 1)
      BY <1>1, <2>2
    <3>2. CASE j = n
      BY <1>1, <1>5, <3>1, <3>2
    <3>3. CASE j \in 1..(n - 1)
      <4>1. at[i] < at[j]
        BY <1>1, <2>2, <3>1, <3>3 DEF Indexed, ListsTags
      <4> QED
        BY <1>5, <3>1, <3>3, <4>1
    <3> QED
      BY <1>8, <3>2, <3>3
  <2> QED
    BY <1>3, <1>5, <2>1, <2>2 DEF ListsTags
<1>13. Indexed(r, st, bt)
  <2>1. bt \in [1..n -> 1..m]
    BY <1>11, <1>7
  <2>2. ASSUME NEW i \in 1..n
        PROVE  r[bt[i]].id = st[i]
    <3>1. CASE i = n
      BY <1>2, <1>3, <1>4, <1>5, <3>1
    <3>2. CASE i \in 1..(n - 1)
      <4>1. q[at[i]].id = tq[i]
        BY <1>10, <3>2, Places, SMTT(20)
      <4>2. st[i] = tq[i]
        BY <1>4, <3>2
      <4>3. bt[i] = at[i] /\ at[i] \in 1..(m - 1)
        BY <1>5, <3>2
      <4>4. r[at[i]] = q[at[i]]
        BY <1>3, <4>3
      <4> QED
        BY <4>1, <4>2, <4>3, <4>4
    <3> QED
      BY <1>8, <3>1, <3>2
  <2>3. IsInjective(st)
    <3>1. \A i \in 1..(n - 1) : tq[i] # id
      BY <1>1 DEF Range
    <3>2. \A i, j \in 1..(n - 1) : tq[i] = tq[j] => i = j
      BY <1>1 DEF Indexed, IsInjective
    <3> QED
      BY <1>4, <1>8, <3>1, <3>2 DEF IsInjective
  <2>4. IsTag(r[Len(r)])
    BY <1>2, <1>3
  <2>5. ASSUME NEW i \in 1..n, r[bt[i]].type \in {"deleted", "error"}
        PROVE  bt[i] = Before(bt, i) + 1
    <3>1. i # n
      BY <1>2, <1>3, <1>5, <2>5
    <3>2. i \in 1..(n - 1)
      BY <1>8, <3>1
    <3>3. q[at[i]].type \in {"deleted", "error"}
      BY <1>3, <1>5, <2>5, <3>2
    <3> QED
      BY <1>1, <1>5, <3>2, <3>3 DEF Indexed
  <2> QED
    BY <1>3, <1>4, <1>12, <2>1, <2>2, <2>3, <2>4, <2>5 DEF Indexed
<1>14. Start(CutAt(q, at), id) = CutAt(r, bt)
  <2> DEFINE c == CutAt(q, at)
             f == Start(c, id)
  <2>1. c \in Queues(Ids, Contents) /\ Len(c) = n - 1 /\ DOMAIN c = 1..(n - 1)
    BY <1>10, CutShape DEF Queues
  <2>2. ~Has(c, id)
    <3>1. \A i \in 1..(n - 1) : c[i].id = tq[i]
      BY <1>10, CutShape, SMTT(20)
    <3>2. \A i \in 1..(n - 1) : tq[i] # id
      BY <1>1 DEF Range
    <3> HIDE DEF c
    <3> QED
      BY <2>1, <3>1, <3>2 DEF Has
  <2>3. \A i \in 1..(n - 1) : c[i] = StreamOf(q, Before(at, i), at[i])
    BY <1>10, CutShape, SMTT(20)
  <2> HIDE DEF c
  <2>4. PICK s : s = [id |-> id, type |-> "uncompleted", polling |-> 0,
                      data |-> <<>>]
    OBVIOUS
  <2>5. s \in Streams(Ids, Contents)
    BY <2>4 DEF Streams, TagTypes
  <2>6. f = Append(c, s)
    BY <2>2, <2>4 DEF Start
  <2> HIDE DEF f
  <2>7. /\ f \in Seq(Streams(Ids, Contents)) /\ Len(f) = n /\ f[n] = s
        /\ \A i \in 1..(n - 1) : f[i] = c[i]
    BY <1>10, <2>1, <2>5, <2>6 DEF Queues
  <2>8. ASSUME NEW i \in 1..(n - 1)
        PROVE  f[i] = StreamOf(r, Before(bt, i), bt[i])
    <3>1. PICK b, k : b = Before(at, i) /\ k = at[i]
      OBVIOUS
    <3>2. k \in 1..(m - 1) /\ b \in 0..(k - 1)
      BY <1>10, <3>1, Places, SMTT(20)
    <3>3. \A j \in 1..(k - b) : b + j \in 1..(m - 1)
      BY <1>10, <3>2
    <3>4. \A j \in 1..(k - b) : r[b + j] = q[b + j]
      BY <1>3, <3>3
    <3>5. b \in Nat /\ k \in Nat /\ b < k
      BY <3>2
    <3>6. StreamOf(r, b, k) = StreamOf(q, b, k)
      <4>1. SameItems(q, b, k, r, b, k)
        BY <3>4, <3>5 DEF SameItems
      <4> QED
        BY <4>1, SameStream
    <3> QED
      BY <1>5, <2>3, <2>7, <3>1, <3>6
  <2>9. StreamOf(r, Before(bt, n), bt[n]) = s
    <3>1. StreamOf(r, m - 1, m) =
            [id |-> id, type |-> "uncompleted", polling |-> 0,
             data |-> [j \in 1..(m - (m - 1) - 1) |-> r[(m - 1) + j].content]]
      BY <1>3 DEF StreamOf, TagItem
    <3>2. [j \in 1..(m - (m - 1) - 1) |-> r[(m - 1) + j].content] = <<>>
      <4>1. m - (m - 1) - 1 = 0
        BY <1>10
      <4>2. PICK g : g = [j \in 1..0 |-> r[(m - 1) + j].content]
        OBVIOUS
      <4>3. g = <<>>
        BY <4>2
      <4> QED
        BY <4>1, <4>2, <4>3
    <3> QED
      BY <1>5, <1>6, <2>4, <3>1, <3>2
  <2>10. \A i \in 1..n : f[i] = StreamOf(r, Before(bt, i), bt[i])
    BY <1>8, <2>7, <2>8, <2>9
  <2>11. f = CutAt(r, bt)
    <3>1. \A i \in 1..Len(st) : f[i] = StreamOf(r, Before(bt, i), bt[i])
      BY <1>4, <2>10
    <3>2. f \in Seq(Streams(Ids, Contents)) /\ Len(f) = Len(st)
      BY <1>4, <2>7
    <3>3. r \in Seq(Items) /\ st \in Seq(Ids)
      BY <1>3, <1>4
    <3> QED
      BY ONLY <1>13, <3>1, <3>2, <3>3, CutIs
  <2> QED
    BY <2>11 DEF f, c
<1> QED
  BY <1>3, <1>4, <1>13, <1>14 DEF Lists

\* A part of the list, an item, the rest of the list.
Spliced(q, a, x, c) == SubSeq(q, 1, a) \o <<x>> \o SubSeq(q, c, Len(q))

\* r has the first a items of q, then x, then those of q from c on.
IsSplice(q, a, x, c, r) ==
    /\ r \in Seq(Items)
    /\ Len(r) = a + 1 + (Len(q) - c + 1)
    /\ \A k \in 1..a : r[k] = q[k]
    /\ r[a + 1] = x
    /\ \A k \in 1..(Len(q) - c + 1) : r[a + 1 + k] = q[c + k - 1]

LEMMA Splice ==
    ASSUME NEW q \in Seq(Items), NEW a \in Nat, NEW x \in Items, NEW c \in Nat,
           a <= Len(q), c <= Len(q) + 1, 1 <= c, NEW r, r = Spliced(q, a, x, c)
    PROVE  IsSplice(q, a, x, c, r)
<1>0. PICK n \in Nat : n = Len(q)
  OBVIOUS
<1>1. PICK u : u = SubSeq(q, 1, a)
  OBVIOUS
<1>2. PICK v : v = SubSeq(q, c, n)
  OBVIOUS
<1>3. u \in Seq(Items) /\ Len(u) = a /\ \A k \in 1..a : u[k] = q[k]
  <2>1. \A i \in 1..a : q[i] \in Items
    BY <1>0
  <2>2. Len(u) = a
    BY <1>0, <1>1
  <2> QED
    BY <1>0, <1>1, <2>1, <2>2, SubSeqProperties
<1>4. /\ v \in Seq(Items) /\ Len(v) = n - c + 1
      /\ \A k \in 1..(n - c + 1) : v[k] = q[c + k - 1]
  <2>1. \A i \in c..n : q[i] \in Items
    BY <1>0
  <2> QED
    BY <1>0, <1>2, <2>1, SubSeqProperties
<1>5. PICK t : t = u \o <<x>>
  OBVIOUS
<1>6. t \in Seq(Items) /\ Len(t) = a + 1 /\ t[a + 1] = x /\ \A k \in 1..a : t[k] = q[k]
  BY <1>3, <1>5
<1>7. r = t \o v
  BY <1>0, <1>1, <1>2, <1>5 DEF Spliced
<1>8. PICK p, m : p = a + 1 /\ m = n - c + 1
  OBVIOUS
<1>9. p \in Nat /\ m \in Nat /\ p # 0 /\ p - 1 = a /\ Len(t) = p /\ Len(v) = m
  BY <1>0, <1>4, <1>6, <1>8
<1>10. /\ r \in Seq(Items) /\ Len(r) = p + m
       /\ \A k \in 1..(p + m) : r[k] = IF k <= p THEN t[k] ELSE v[k - p]
  <2>1. t \in Seq(Items) /\ v \in Seq(Items)
    BY <1>4, <1>6
  <2>2. /\ r \in Seq(Items) /\ Len(r) = Len(t) + Len(v)
        /\ \A k \in 1..(Len(t) + Len(v)) :
                r[k] = IF k <= Len(t) THEN t[k] ELSE v[k - Len(t)]
    BY ONLY <1>7, <2>1, ConcatProperties
  <2> QED
    BY <1>9, <2>2
<1>11. \A k \in 1..a : r[k] = q[k]
  <2>1. \A k \in 1..a : k \in 1..(p + m) /\ k <= p
    BY <1>9
  <2> QED
    BY <1>6, <1>10, <2>1
<1>12. r[p] = x
  <2>1. p \in 1..(p + m) /\ p <= p
    BY <1>9
  <2> QED
    BY <1>6, <1>8, <1>10, <2>1
<1>13. \A k \in 1..m : r[p + k] = q[c + k - 1]
  <2>1. ASSUME NEW k \in 1..m
        PROVE  r[p + k] = v[k]
    <3>1. p + k \in 1..(p + m) /\ ~(p + k <= p) /\ (p + k) - p = k
      BY <1>9
    <3> QED
      BY <1>10, <3>1
  <2> QED
    BY <1>4, <1>8, <2>1
<1> QED
  BY <1>0, <1>8, <1>10, <1>11, <1>12, <1>13 DEF IsSplice

\* What an operation on the m-th stream leaves: the items before the stream are
\* where they were, those after its tag moved by s places.
Rewrites(q, at, m, s, r) ==
    /\ r \in Seq(Items) /\ Len(r) = Len(q) + s
    /\ \A k \in 1..Before(at, m) : r[k] = q[k]
    /\ \A k \in (at[m] + 1)..Len(q) : r[k + s] = q[k]
    /\ Before(at, m) < at[m] + s
    /\ \A k \in (Before(at, m) + 1)..(at[m] + s - 1) : ~IsTag(r[k])
    /\ IsTag(r[at[m] + s]) /\ r[at[m] + s].id = q[at[m]].id
    /\ r[at[m] + s].type \in {"deleted", "error"}
            => at[m] + s = Before(at, m) + 1

Shifted(at, m, s) == [i \in DOMAIN at |-> IF i < m THEN at[i] ELSE at[i] + s]

\* Such an operation keeps the index, and leaves the other streams alone.
LEMMA OneStream ==
    ASSUME NEW q \in Seq(Items), NEW tq \in Seq(Ids), NEW at, Indexed(q, tq, at),
           NEW m \in 1..Len(tq), NEW s \in Int, NEW r, Rewrites(q, at, m, s, r),
           NEW bt, bt = Shifted(at, m, s)
    PROVE  /\ Indexed(r, tq, bt)
           /\ \A i \in 1..Len(tq) : i # m => CutAt(r, bt)[i] = CutAt(q, at)[i]
           /\ CutAt(r, bt)[m] = StreamOf(r, Before(at, m), at[m] + s)
<1>1. PICK n, l, p, b : n = Len(tq) /\ l = Len(q) /\ p = at[m] /\ b = Before(at, m)
  OBVIOUS
<1>2. /\ n \in Nat /\ l \in Nat /\ m \in 1..n /\ p \in 1..l /\ b \in 0..(p - 1)
      /\ DOMAIN at = 1..n /\ DOMAIN q = 1..l /\ DOMAIN tq = 1..n
  BY <1>1, Places, SMTT(20)
<1>3. /\ r \in Seq(Items) /\ Len(r) = l + s /\ l + s \in Nat
      /\ \A k \in 1..b : r[k] = q[k]
      /\ \A k \in (p + 1)..l : r[k + s] = q[k]
      /\ b < p + s
      /\ \A k \in (b + 1)..(p + s - 1) : ~IsTag(r[k])
      /\ IsTag(r[p + s]) /\ r[p + s].id = q[p].id
      /\ r[p + s].type \in {"deleted", "error"} => p + s = b + 1
  BY <1>1 DEF Rewrites
<1>4. \A i \in 1..n :
        /\ at[i] \in 1..l /\ Before(at, i) \in 0..(at[i] - 1)
        /\ IsTag(q[at[i]]) /\ q[at[i]].id = tq[i]
        /\ \A k \in 1..l : (Before(at, i) < k /\ k < at[i]) => ~IsTag(q[k])
        /\ q[at[i]].type \in {"deleted", "error"} => at[i] = Before(at, i) + 1
  <2>1. \A i \in 1..Len(tq) :
          /\ at[i] \in 1..Len(q) /\ Before(at, i) \in 0..(at[i] - 1)
          /\ IsTag(q[at[i]]) /\ q[at[i]].id = tq[i]
    BY Places, SMTT(20)
  <2>2. \A i \in 1..Len(tq) : \A k \in 1..Len(q) :
            (Before(at, i) < k /\ k < at[i]) => ~IsTag(q[k])
    BY Places, SMTT(20)
  <2>3. \A i \in 1..n :
            q[at[i]].type \in {"deleted", "error"} => at[i] = Before(at, i) + 1
    BY <1>2 DEF Indexed
  <2> QED
    BY <1>1, <2>1, <2>2, <2>3
<1>5. /\ \A i \in 1..n : i < m => at[i] <= b
      /\ \A i \in 1..n : m < i => p <= Before(at, i)
  BY <1>1, <1>2, Places, SMTT(20)
<1>6. /\ DOMAIN bt = 1..n /\ bt = [i \in 1..n |-> bt[i]]
      /\ \A i \in 1..n : bt[i] = IF i < m THEN at[i] ELSE at[i] + s
  BY <1>2 DEF Shifted
<1>7. ASSUME NEW i \in 1..n
      PROVE  Before(bt, i) = IF i <= m THEN Before(at, i) ELSE Before(at, i) + s
  <2>1. CASE i = 1
    BY <1>2, <2>1 DEF Before
  <2>2. CASE i # 1
    <3>1. i - 1 \in 1..n /\ (i - 1 < m <=> i <= m)
      BY <1>2, <2>2
    <3>2. Before(bt, i) = bt[i - 1] /\ Before(at, i) = at[i - 1]
      BY <2>2 DEF Before
    <3> QED
      BY <1>6, <3>1, <3>2
  <2> QED
    BY <2>1, <2>2
\* The gaps of r.
<1>8. ASSUME NEW i \in 1..n, i # m
      PROVE  /\ SameItems(q, Before(at, i), at[i], r, Before(bt, i), bt[i])
             /\ bt[i] \in 1..(l + s)
  <2>1. PICK c, k : c = Before(at, i) /\ k = at[i]
    OBVIOUS
  <2>2. k \in 1..l /\ c \in 0..(k - 1)
    BY <1>4, <2>1
  <2>3. CASE i < m
    <3>1. bt[i] = k /\ Before(bt, i) = c
      BY <1>2, <1>6, <1>7, <2>1, <2>3
    <3>2. k <= b
      BY <1>5, <2>1, <2>3
    <3>3. k \in 1..(l + s)
      BY <1>2, <1>3, <2>2, <3>2
    <3>4. \A j \in 1..(k - c) : r[c + j] = q[c + j]
      <4>1. \A j \in 1..(k - c) : c + j \in 1..b
        BY <1>2, <2>2, <3>2
      <4> QED
        BY <1>3, <4>1
    <3>5. c \in Nat /\ k \in Nat /\ c < k
      BY <2>2
    <3> QED
      BY <2>1, <3>1, <3>3, <3>4, <3>5 DEF SameItems
  <2>4. CASE m < i
    <3>1. bt[i] = k + s /\ Before(bt, i) = c + s
      BY <1>2, <1>6, <1>7, <2>1, <2>4
    <3>2. p <= c
      BY <1>5, <2>1, <2>4
    <3>3. /\ k + s \in 1..(l + s) /\ c + s \in Nat /\ k + s \in Nat
          /\ (k + s) - (c + s) = k - c
      BY <1>2, <1>3, <2>2, <3>2
    <3>4. \A j \in 1..(k - c) : r[(c + s) + j] = q[c + j]
      <4>1. \A j \in 1..(k - c) : c + j \in (p + 1)..l /\ (c + j) + s = (c + s) + j
        BY <1>2, <2>2, <3>2
      <4> QED
        BY <1>3, <4>1
    <3>5. c \in Nat /\ k \in Nat /\ c < k
      BY <2>2
    <3> QED
      BY <2>1, <3>1, <3>3, <3>4, <3>5 DEF SameItems
  <2> QED
    BY <1>2, <1>8, <2>3, <2>4
<1>9. bt[m] = p + s /\ Before(bt, m) = b /\ p + s \in 1..(l + s)
  <2>1. bt[m] = p + s /\ Before(bt, m) = b
    BY <1>1, <1>2, <1>6, <1>7
  <2> QED
    BY <1>2, <1>3, <2>1
<1>10. bt \in [1..n -> 1..(l + s)]
  <2>1. \A i \in 1..n : bt[i] \in 1..(l + s)
    BY <1>8, <1>9
  <2> QED
    BY <1>6, <2>1
<1>11. ASSUME NEW i \in 1..n
       PROVE  /\ IsTag(r[bt[i]]) /\ r[bt[i]].id = tq[i]
              /\ Before(bt, i) < bt[i]
              /\ \A k \in 1..(l + s) :
                    (Before(bt, i) < k /\ k < bt[i]) => ~IsTag(r[k])
              /\ r[bt[i]].type \in {"deleted", "error"}
                    => bt[i] = Before(bt, i) + 1
  <2>1. CASE i = m
    <3>1. q[p].id = tq[m]
      BY <1>1, <1>2, <1>4
    <3>2. ASSUME NEW k \in 1..(l + s), b < k, k < p + s
          PROVE  ~IsTag(r[k])
      <4>1. k \in (b + 1)..(p + s - 1)
        BY <1>2, <1>3, <3>2
      <4> QED
        BY <1>3, <4>1
    <3> QED
      BY <1>3, <1>9, <2>1, <3>1, <3>2
  <2>2. CASE i # m
    <3>1. PICK c, k, d, h : /\ c = Before(at, i) /\ k = at[i]
                            /\ d = Before(bt, i) /\ h = bt[i]
      OBVIOUS
    <3>2. /\ c \in Nat /\ k \in Nat /\ c < k /\ d \in Nat /\ h \in Nat
          /\ h - d = k - c
          /\ \A j \in 1..(k - c) : r[d + j] = q[c + j]
      BY <1>8, <2>2, <3>1 DEF SameItems
    <3>3. d < h
      BY <3>2
    <3>4. r[h] = q[k]
      <4>1. k - c \in 1..(k - c) /\ d + (k - c) = h /\ c + (k - c) = k
        BY <3>2
      <4> QED
        BY <3>2, <4>1
    <3>5. ASSUME NEW j \in 1..(l + s), d < j, j < h
          PROVE  ~IsTag(r[j])
      <4>1. /\ j - d \in 1..(k - c) /\ d + (j - d) = j
            /\ c < c + (j - d) /\ c + (j - d) < k
        BY <1>3, <3>2, <3>5
      <4>2. r[j] = q[c + (j - d)]
        BY <3>2, <4>1
      <4>3. c + (j - d) \in 1..l
        <5>1. k \in 1..l
          BY <1>4, <3>1
        <5> QED
          BY <1>2, <1>3, <3>2, <4>1, <5>1
      <4> QED
        BY <1>4, <3>1, <4>1, <4>2, <4>3
    <3>6. q[k].type \in {"deleted", "error"} => k = c + 1
      BY <1>4, <3>1
    <3>7. k = c + 1 => h = d + 1
      BY <3>2
    <3> QED
      BY <1>4, <3>1, <3>3, <3>4, <3>5, <3>6, <3>7
  <2> QED
    BY <2>1, <2>2
<1>12. bt[n] = l + s
  <2>1. tq # <<>>
    BY <1>1, <1>2
  <2>2. at[n] = l
    BY <1>1, <2>1, Places, SMTT(20)
  <2>3. n \in 1..n /\ ~(n < m)
    BY <1>2
  <2> QED
    BY <1>6, <2>2, <2>3
<1>13. Indexed(r, tq, bt)
  <2>1. IsInjective(tq)
    BY DEF Indexed
  <2>2. tq # <<>>
    BY <1>1, <1>2
  <2>3. bt \in [1..Len(tq) -> 1..Len(r)]
    BY <1>1, <1>3, <1>10
  <2>4. \A i \in 1..Len(tq) :
            /\ IsTag(r[bt[i]]) /\ r[bt[i]].id = tq[i]
            /\ Before(bt, i) < bt[i]
            /\ \A k \in 1..Len(r) :
                    (Before(bt, i) < k /\ k < bt[i]) => ~IsTag(r[k])
            /\ r[bt[i]].type \in {"deleted", "error"}
                    => bt[i] = Before(bt, i) + 1
    BY <1>1, <1>3, <1>11
  <2>5. r \in Seq(Items) /\ bt[Len(tq)] = Len(r)
    BY <1>1, <1>3, <1>12
  <2> QED
    BY ONLY tq \in Seq(Ids), <2>1, <2>2, <2>3, <2>4, <2>5, IndexedIntro
<1>14. ASSUME NEW i \in 1..n, i # m
       PROVE  CutAt(r, bt)[i] = CutAt(q, at)[i]
  <2>1. StreamOf(r, Before(bt, i), bt[i]) = StreamOf(q, Before(at, i), at[i])
    BY <1>8, <1>14, SameStream
  <2> QED
    BY <1>2, <1>6, <2>1 DEF CutAt
<1>15. CutAt(r, bt)[m] = StreamOf(r, b, p + s)
  BY <1>2, <1>6, <1>9 DEF CutAt
<1> QED
  BY <1>1, <1>13, <1>14, <1>15

\* f is the queue of streams before the operation, with the m-th stream as the
\* operation left it.
ReplacesOne(q, tq, at, m, s, r, f) ==
    /\ f \in Queues(Ids, Contents) /\ Len(f) = Len(tq)
    /\ \A i \in 1..Len(tq) : i # m => f[i] = CutAt(q, at)[i]
    /\ f[m].id = tq[m]
    /\ f[m].type = r[at[m] + s].type /\ f[m].polling = r[at[m] + s].polling
    /\ Len(f[m].data) = at[m] + s - Before(at, m) - 1
    /\ \A n \in 1..Len(f[m].data) : f[m].data[n] = r[Before(at, m) + n].content

\* The same, for the queue of streams that the operation should leave.
LEMMA OneStreamIs ==
    ASSUME NEW q \in Seq(Items), NEW tq \in Seq(Ids), NEW at, Indexed(q, tq, at),
           NEW m \in 1..Len(tq), NEW s \in Int, NEW r, Rewrites(q, at, m, s, r),
           NEW f, ReplacesOne(q, tq, at, m, s, r, f)
    PROVE  Lists(r, tq, f)
<1> USE DEF ReplacesOne
<1>1. PICK bt : bt = Shifted(at, m, s)
  OBVIOUS
<1>2. /\ Indexed(r, tq, bt)
      /\ \A i \in 1..Len(tq) : i # m => CutAt(r, bt)[i] = CutAt(q, at)[i]
      /\ CutAt(r, bt)[m] = StreamOf(r, Before(at, m), at[m] + s)
  BY <1>1, OneStream, SMTT(20)
<1>3. r \in Seq(Items) /\ r[at[m] + s].id = tq[m]
  <2>1. q[at[m]].id = tq[m]
    BY Places, SMTT(20)
  <2>2. r \in Seq(Items) /\ r[at[m] + s].id = q[at[m]].id
    BY DEF Rewrites
  <2> QED
    BY <2>1, <2>2
<1>4. PICK c : c = CutAt(r, bt)
  OBVIOUS
<1>5. /\ c \in Queues(Ids, Contents) /\ Len(c) = Len(tq)
      /\ c[m] \in Streams(Ids, Contents)
      /\ c[m] = StreamOf(r, Before(at, m), at[m] + s)
  BY <1>2, <1>3, <1>4, CutShape, SMTT(20)
<1>6. PICK b, k : b = Before(at, m) /\ k = at[m] + s
  OBVIOUS
<1>7. b \in Nat /\ k \in Int /\ b < k /\ k - b - 1 \in Nat
  <2>1. b \in Nat /\ k \in Int
    BY <1>6, Places, SMTT(20)
  <2>2. b < k
    BY <1>6 DEF Rewrites
  <2> QED
    BY <2>1, <2>2
<1>8. /\ c[m].id = tq[m] /\ c[m].type = r[k].type /\ c[m].polling = r[k].polling
      /\ c[m].data = [n \in 1..(k - b - 1) |-> r[b + n].content]
  BY <1>3, <1>5, <1>6 DEF StreamOf
<1>9. PICK t : t = f[m]
  OBVIOUS
<1>10. t \in Streams(Ids, Contents)
  BY <1>9 DEF Queues
<1>11. /\ t.id = tq[m] /\ t.type = r[k].type /\ t.polling = r[k].polling
       /\ Len(t.data) = k - b - 1
       /\ \A n \in 1..(k - b - 1) : t.data[n] = r[b + n].content
  <2>1. at[m] + s - Before(at, m) - 1 = k - b - 1
    <3>1. at[m] \in Nat /\ Before(at, m) \in Nat
      BY Places, SMTT(20)
    <3> QED
      BY <1>6, <3>1
  <2>2. Len(t.data) = k - b - 1
    BY <1>9, <2>1
  <2>3. ASSUME NEW n \in 1..(k - b - 1)
        PROVE  t.data[n] = r[b + n].content
    <3>1. n \in 1..Len(f[m].data)
      BY <1>9, <2>2
    <3>2. f[m].data[n] = r[Before(at, m) + n].content
      BY <3>1
    <3> QED
      BY <1>6, <1>9, <3>2
  <2> QED
    BY <1>6, <1>9, <2>2, <2>3
<1>12. c[m].data = t.data
  <2>1. c[m].data \in Seq(Contents) /\ t.data \in Seq(Contents)
    BY <1>5, <1>10 DEF Streams
  <2>2. PICK h \in Nat : h = k - b - 1
    BY <1>7
  <2>3. PICK d : d = c[m].data
    OBVIOUS
  <2>4. d \in Seq(Contents) /\ DOMAIN d = 1..h
    BY <1>8, <2>1, <2>2, <2>3
  <2>5. Len(d) = h
    BY <2>2, <2>4
  <2>6. \A n \in 1..h : d[n] = t.data[n]
    BY <1>8, <1>11, <2>2, <2>3
  <2>7. PICK e : e = t.data
    OBVIOUS
  <2>8. e \in Seq(Contents) /\ Len(e) = h /\ \A n \in 1..h : d[n] = e[n]
    BY <1>11, <2>1, <2>2, <2>6, <2>7
  <2>9. d = e
    BY <2>4, <2>5, <2>8, SeqEqual, SMTT(20)
  <2> QED
    BY <2>3, <2>7, <2>9
<1>13. c[m] = t
  <2>1. PICK e : e = c[m]
    OBVIOUS
  <2>2. /\ e \in Streams(Ids, Contents) /\ e.id = t.id /\ e.type = t.type
        /\ e.polling = t.polling /\ e.data = t.data
    BY <1>5, <1>8, <1>11, <1>12, <2>1
  <2> QED
    BY <1>10, <2>1, <2>2, StreamsEqual
<1>14. \A i \in 1..Len(tq) : c[i] = f[i]
  BY <1>2, <1>4, <1>9, <1>13
<1>15. c = f
  BY <1>5, <1>14, SeqEqual DEF Queues
<1> QED
  BY <1>2, <1>3, <1>4, <1>15 DEF Lists

\* The m-th stream, by the places of its items.
IsCut(q, tq, m, p, b, c) ==
    /\ c \in Queues(Ids, Contents) /\ Len(c) = Len(tq)
    /\ DOMAIN c = 1..Len(tq)
    /\ c[m] \in Streams(Ids, Contents)
    /\ c[m].id = tq[m]
    /\ c[m].type = q[p].type /\ c[m].polling = q[p].polling
    /\ Len(c[m].data) = p - b - 1
    /\ \A k \in 1..(p - b - 1) : c[m].data[k] = q[b + k].content
    /\ \A i \in 1..Len(tq) : c[i].id = tq[i] /\ (i # m => c[i].id # tq[m])

LEMMA CutOne ==
    ASSUME NEW q \in Seq(Items), NEW tq \in Seq(Ids), NEW at, Indexed(q, tq, at),
           NEW m \in 1..Len(tq), NEW c, c = CutAt(q, at),
           NEW p, p = at[m], NEW b, b = Before(at, m)
    PROVE  IsCut(q, tq, m, p, b, c)
<1>1. CutAt(q, at) \in Queues(Ids, Contents) /\ Len(CutAt(q, at)) = Len(tq)
  BY CutShape, SMTT(20)
<1>2. \A i \in 1..Len(tq) : CutAt(q, at)[i].id = tq[i]
  BY CutShape, SMTT(20)
<1>3. /\ c[m] \in Streams(Ids, Contents)
      /\ c[m].id = tq[m] /\ c[m].type = q[p].type /\ c[m].polling = q[p].polling
  BY CutShape, SMTT(20)
<1>4. Len(c[m].data) = p - b - 1
  BY CutShape, SMTT(20)
<1>5. \A k \in 1..(p - b - 1) : c[m].data[k] = q[b + k].content
  BY CutShape, SMTT(20)
<1>6. DOMAIN c = 1..Len(tq)
  BY <1>1 DEF Queues
<1>7. \A i \in 1..Len(tq) : i # m => tq[i] # tq[m]
  BY DEF Indexed, IsInjective
<1> QED
  BY <1>1, <1>2, <1>3, <1>4, <1>5, <1>6, <1>7 DEF IsCut

\* stream(): a data item before the tag.
LEMMA StreamKeeps ==
    ASSUME NEW q \in Seq(Items), NEW tq \in Seq(Ids), NEW at, Indexed(q, tq, at),
           NEW m \in 1..Len(tq), q[at[m]].type = "uncompleted",
           NEW d \in Data, NEW r, r = InsertAt(q, at[m], DataItem(d))
    PROVE  Lists(r, tq, Stream(CutAt(q, at), tq[m], d))
<1>1. PICK c, n, l, p, b : /\ c = CutAt(q, at) /\ n = Len(tq) /\ l = Len(q)
                           /\ p = at[m] /\ b = Before(at, m)
  OBVIOUS
<1>2. /\ n \in Nat /\ l \in Nat /\ p \in 1..l /\ b \in 0..(p - 1)
      /\ IsTag(q[p]) /\ q[p].id = tq[m]
      /\ \A k \in 1..l : (b < k /\ k < p) => ~IsTag(q[k])
  BY <1>1, Places, SMTT(20)
<1>3. DataItem(d) \in Items /\ ~IsTag(DataItem(d)) /\ DataItem(d).content = d
  BY DEF DataItem, Items, IsTag
<1>4. /\ r \in Seq(Items) /\ Len(r) = l + 1 /\ r[p] = DataItem(d)
      /\ \A k \in 1..(p - 1) : r[k] = q[k]
      /\ \A k \in p..l : r[k + 1] = q[k]
  <2>1. r = Spliced(q, p - 1, DataItem(d), p)
    BY <1>1 DEF InsertAt, Spliced
  <2>2. p - 1 \in Nat /\ p \in Nat /\ p - 1 <= Len(q) /\ p <= Len(q) + 1 /\ 1 <= p
    BY <1>1, <1>2
  <2>3. /\ r \in Seq(Items) /\ Len(r) = (p - 1) + 1 + (l - p + 1)
        /\ \A k \in 1..(p - 1) : r[k] = q[k]
        /\ r[(p - 1) + 1] = DataItem(d)
        /\ \A k \in 1..(l - p + 1) : r[(p - 1) + 1 + k] = q[p + k - 1]
    <3>1. PICK a, x : a = p - 1 /\ x = DataItem(d)
      OBVIOUS
    <3>2. a \in Nat /\ p \in Nat /\ a <= Len(q) /\ p <= Len(q) + 1 /\ 1 <= p
      BY <2>2, <3>1
    <3>3. x \in Items /\ r = Spliced(q, a, x, p)
      BY <1>3, <2>1, <3>1
    <3>4. IsSplice(q, a, x, p, r)
      BY <3>2, <3>3, Splice, ZenonT(30)
    <3> QED
      BY <1>1, <3>1, <3>4 DEF IsSplice
  <2>4. (p - 1) + 1 = p /\ (p - 1) + 1 + (l - p + 1) = l + 1
    BY <1>2
  <2>5. ASSUME NEW k \in p..l
        PROVE  r[k + 1] = q[k]
    <3>1. /\ k - p + 1 \in 1..(l - p + 1) /\ (p - 1) + 1 + (k - p + 1) = k + 1
          /\ p + (k - p + 1) - 1 = k
      BY <1>2
    <3> QED
      BY <2>3, <3>1
  <2> QED
    BY <2>3, <2>4, <2>5
<1>5. r[p + 1] = q[p]
  <2>1. p \in p..l
    BY <1>2
  <2> QED
    BY <1>4, <2>1
<1>6. Rewrites(q, at, m, 1, r)
  <2>1. ASSUME NEW k \in (b + 1)..p
        PROVE  ~IsTag(r[k])
    <3>1. CASE k = p
      BY <1>3, <1>4, <3>1
    <3>2. CASE k # p
      <4>1. k \in 1..(p - 1) /\ k \in 1..l /\ b < k /\ k < p
        BY <1>2, <3>2
      <4> QED
        BY <1>2, <1>4, <4>1
    <3> QED
      BY <3>1, <3>2
  <2>2. \A k \in 1..b : r[k] = q[k]
    <3>1. \A k \in 1..b : k \in 1..(p - 1)
      BY <1>2
    <3> QED
      BY <1>4, <3>1
  <2>3. \A k \in (p + 1)..l : r[k + 1] = q[k]
    <3>1. \A k \in (p + 1)..l : k \in p..l
      BY <1>2
    <3> QED
      BY <1>4, <3>1
  <2>4. p + 1 - 1 = p /\ b < p + 1
    BY <1>2
  <2> QED
    BY <1>1, <1>2, <1>4, <1>5, <2>1, <2>2, <2>3, <2>4 DEF Rewrites
<1>7. /\ c \in Queues(Ids, Contents) /\ Len(c) = n /\ DOMAIN c = 1..n
      /\ c[m] \in Streams(Ids, Contents)
      /\ c[m].id = tq[m] /\ c[m].type = q[p].type /\ c[m].polling = q[p].polling
      /\ Len(c[m].data) = p - b - 1
      /\ \A k \in 1..(p - b - 1) : c[m].data[k] = q[b + k].content
      /\ \A i \in 1..n : c[i].id = tq[i]
  <2>1. IsCut(q, tq, m, p, b, c)
    BY <1>1, CutOne, ZenonT(30)
  <2> QED
    BY <1>1, <2>1 DEF IsCut
<1>8. PICK f : f = Stream(c, tq[m], d)
  OBVIOUS
<1>9. f \in Queues(Ids, Contents) /\ Len(f) = n
  <2>1. tq[m] \in Ids /\ d \in Contents
    BY DEF Contents
  <2> QED
    BY <1>7, <1>8, <2>1, StreamLemma
<1>10. \A i \in 1..n : i # m => tq[i] # tq[m]
  BY <1>1 DEF Indexed, IsInjective
<1>11. \A i \in 1..n : i # m => f[i] = c[i]
  BY <1>7, <1>8, <1>10 DEF Stream
<1>12. PICK t : t = c[m]
  OBVIOUS
<1>13. f[m] = [t EXCEPT !.data = Append(@, d)]
  BY <1>1, <1>7, <1>8, <1>12 DEF Stream
<1>14. /\ f[m].id = tq[m] /\ f[m].type = q[p].type /\ f[m].polling = q[p].polling
       /\ f[m].data = Append(t.data, d) /\ t.data \in Seq(Contents)
  BY <1>7, <1>12, <1>13 DEF Streams
<1>15. PICK u, h : u = t.data /\ h = p - b - 1
  OBVIOUS
<1>16. u \in Seq(Contents) /\ Len(u) = h /\ h \in Nat /\ d \in Contents
  <2>1. u \in Seq(Contents) /\ d \in Contents
    BY <1>14, <1>15 DEF Contents
  <2>2. Len(u) = h
    BY <1>7, <1>12, <1>15
  <2>3. h \in Nat
    BY <1>2, <1>15
  <2> QED
    BY <2>1, <2>2, <2>3
<1>17. /\ Len(Append(u, d)) = h + 1 /\ Append(u, d)[h + 1] = d
       /\ \A k \in 1..h : Append(u, d)[k] = u[k]
  BY <1>16
<1>18. Len(f[m].data) = p + 1 - b - 1
  BY <1>2, <1>14, <1>15, <1>17
<1>19. ASSUME NEW k \in 1..Len(f[m].data)
       PROVE  f[m].data[k] = r[b + k].content
  <2>1. k \in 1..(h + 1)
    BY <1>14, <1>15, <1>17
  <2>2. CASE k = h + 1
    <3>1. b + k = p
      BY <1>2, <1>15, <2>2
    <3> QED
      BY <1>3, <1>4, <1>14, <1>15, <1>17, <2>2, <3>1
  <2>3. CASE k \in 1..h
    <3>1. b + k \in 1..(p - 1)
      BY <1>2, <1>15, <2>3
    <3>2. f[m].data[k] = u[k]
      BY <1>14, <1>15, <1>17, <2>3
    <3>3. u[k] = q[b + k].content
      BY <1>7, <1>12, <1>15, <2>3
    <3> QED
      BY <1>4, <3>1, <3>2, <3>3
  <2> QED
    BY <1>16, <2>1, <2>2, <2>3
<1>20. Lists(r, tq, f)
  <2>1. \A i \in 1..Len(tq) : i # m => f[i] = CutAt(q, at)[i]
    BY <1>1, <1>11
  <2>2. /\ f[m].type = r[at[m] + 1].type /\ f[m].polling = r[at[m] + 1].polling
        /\ f[m].id = tq[m]
    BY <1>1, <1>5, <1>14
  <2>3. Len(f[m].data) = at[m] + 1 - Before(at, m) - 1
    BY <1>1, <1>18
  <2>4. \A k \in 1..Len(f[m].data) : f[m].data[k] = r[Before(at, m) + k].content
    BY <1>1, <1>19
  <2>5. f \in Queues(Ids, Contents) /\ Len(f) = Len(tq) /\ 1 \in Int
    BY <1>1, <1>9
  <2>6. ReplacesOne(q, tq, at, m, 1, r, f)
    BY <2>1, <2>2, <2>3, <2>4, <2>5 DEF ReplacesOne
  <2> QED
    BY <1>6, <2>5, <2>6, OneStreamIs, ZenonT(30)
<1> QED
  BY <1>1, <1>4, <1>8, <1>20

\* erase(): the data of the stream goes, and its tag changes its type.
LEMMA EraseKeeps ==
    ASSUME NEW q \in Seq(Items), NEW tq \in Seq(Ids), NEW at, Indexed(q, tq, at),
           NEW m \in 1..Len(tq), NEW type \in {"deleted", "error"},
           NEW r, r = Spliced(q, Before(at, m), [q[at[m]] EXCEPT !.type = type],
                              at[m] + 1)
    PROVE  Lists(r, tq, Erase(CutAt(q, at), tq[m], type))
<1>1. PICK c, n, l, p, b : /\ c = CutAt(q, at) /\ n = Len(tq) /\ l = Len(q)
                           /\ p = at[m] /\ b = Before(at, m)
  OBVIOUS
<1>2. /\ n \in Nat /\ l \in Nat /\ p \in 1..l /\ b \in 0..(p - 1)
      /\ IsTag(q[p]) /\ q[p].id = tq[m] /\ q[p] \in Items
  BY <1>1, Places, SMTT(20)
<1>3. PICK x, s : x = [q[p] EXCEPT !.type = type] /\ s = b + 1 - p
  OBVIOUS
<1>4. /\ x \in Items /\ IsTag(x) /\ x.id = tq[m] /\ x.type = type
      /\ x.polling = q[p].polling
  BY <1>2, <1>3 DEF Items, TagTypes, IsTag
<1>5. /\ r \in Seq(Items) /\ Len(r) = l + s /\ r[b + 1] = x
      /\ \A k \in 1..b : r[k] = q[k]
      /\ \A k \in (p + 1)..l : r[k + s] = q[k]
  <2>1. r = Spliced(q, b, x, p + 1)
    BY <1>1, <1>3
  <2>2. b \in Nat /\ p + 1 \in Nat /\ b <= Len(q) /\ p + 1 <= Len(q) + 1 /\ 1 <= p + 1
    BY <1>1, <1>2
  <2>3. /\ r \in Seq(Items) /\ Len(r) = b + 1 + (l - (p + 1) + 1)
        /\ \A k \in 1..b : r[k] = q[k]
        /\ r[b + 1] = x
        /\ \A k \in 1..(l - (p + 1) + 1) : r[b + 1 + k] = q[p + 1 + k - 1]
    <3>1. PICK e : e = p + 1
      OBVIOUS
    <3>2. IsSplice(q, b, x, e, r)
      BY <1>4, <2>1, <2>2, <3>1, Splice, ZenonT(30)
    <3> QED
      BY <1>1, <3>1, <3>2 DEF IsSplice
  <2>4. \A k \in 1..(l - (p + 1) + 1) : r[b + 1 + k] = q[p + 1 + k - 1]
    BY <2>3
  <2>5. b + 1 + (l - (p + 1) + 1) = l + s
    BY <1>2, <1>3
  <2>6. ASSUME NEW k \in (p + 1)..l
        PROVE  r[k + s] = q[k]
    <3>0. l - (p + 1) + 1 = l - p /\ k - p \in 1..(l - p)
      <4>1. p \in Nat /\ l \in Nat
        BY <1>2
      <4>2. k \in (p + 1)..l
        OBVIOUS
      <4> QED
        BY ONLY <4>1, <4>2
    <3>1. k - p \in 1..(l - (p + 1) + 1)
      BY <3>0
    <3>2. b + 1 + (k - p) = k + s
      BY <1>2, <1>3
    <3>3. p + 1 + (k - p) - 1 = k
      BY <1>2
    <3> QED
      BY <2>4, <3>1, <3>2, <3>3
  <2> QED
    BY <2>3, <2>5, <2>6
<1>6. p + s = b + 1 /\ s \in Int
  BY <1>2, <1>3
<1>7. Rewrites(q, at, m, s, r)
  <2>1. (b + 1)..(p + s - 1) = {}
    BY <1>2, <1>6
  <2>2. b < p + s
    BY <1>2, <1>6
  <2> QED
    BY <1>1, <1>2, <1>4, <1>5, <1>6, <2>1, <2>2 DEF Rewrites
<1>8. /\ c \in Queues(Ids, Contents) /\ Len(c) = n /\ DOMAIN c = 1..n
      /\ c[m] \in Streams(Ids, Contents)
      /\ c[m].id = tq[m] /\ c[m].type = q[p].type /\ c[m].polling = q[p].polling
      /\ \A i \in 1..n : c[i].id = tq[i] /\ (i # m => c[i].id # tq[m])
  <2>1. IsCut(q, tq, m, p, b, c)
    BY <1>1, CutOne, ZenonT(30)
  <2> QED
    BY <1>1, <2>1 DEF IsCut
<1>9. PICK f : f = Erase(c, tq[m], type)
  OBVIOUS
<1>10. f \in Queues(Ids, Contents) /\ Len(f) = n
  <2>1. tq[m] \in Ids /\ type \in TagTypes
    BY DEF TagTypes
  <2> QED
    BY <1>8, <1>9, <2>1, EraseLemma
<1>11. \A i \in 1..n : i # m => f[i] = c[i]
  BY <1>8, <1>9 DEF Erase
<1>12. f[m] = [c[m] EXCEPT !.type = type, !.data = <<>>]
  BY <1>1, <1>8, <1>9 DEF Erase
<1>13. /\ f[m].id = tq[m] /\ f[m].type = type /\ f[m].polling = q[p].polling
       /\ f[m].data = <<>>
  BY <1>8, <1>12 DEF Streams
<1>14. ReplacesOne(q, tq, at, m, s, r, f)
  <2>1. Len(f[m].data) = 0
    <3>1. PICK e : e = <<>>
      OBVIOUS
    <3>2. Len(e) = 0 /\ f[m].data = e
      BY <1>13, <3>1
    <3> QED
      BY <3>2
  <2>2. at[m] + s - Before(at, m) - 1 = 0
    <3>1. p + s - b - 1 = 0
      BY <1>2, <1>6
    <3> QED
      BY <1>1, <3>1
  <2>3. 1..Len(f[m].data) = {}
    BY <2>1
  <2>4. f[m].type = r[at[m] + s].type /\ f[m].polling = r[at[m] + s].polling
    BY <1>1, <1>4, <1>5, <1>6, <1>13
  <2> QED
    BY <1>1, <1>10, <1>11, <1>13, <2>1, <2>2, <2>3, <2>4 DEF ReplacesOne
<1>15. Lists(r, tq, f)
  BY <1>6, <1>7, <1>14, OneStreamIs, SMTT(20)
<1> QED
  BY <1>1, <1>5, <1>9, <1>15

\* A tag rewritten where it is, its stream not erased.
Retags(q, tq, at, m, x, r, f) ==
    /\ r = [q EXCEPT ![at[m]] = x]
    /\ x \in Items /\ x.type \in {"uncompleted", "completed"} /\ x.id = tq[m]
    /\ f \in Queues(Ids, Contents) /\ Len(f) = Len(tq)
    /\ \A i \in 1..Len(tq) : i # m => f[i] = CutAt(q, at)[i]
    /\ f[m].id = tq[m] /\ f[m].type = x.type /\ f[m].polling = x.polling
    /\ f[m].data = CutAt(q, at)[m].data

LEMMA RetagKeeps ==
    ASSUME NEW q \in Seq(Items), NEW tq \in Seq(Ids), NEW at, Indexed(q, tq, at),
           NEW m \in 1..Len(tq),
           NEW x, NEW r, NEW f, Retags(q, tq, at, m, x, r, f)
    PROVE  Lists(r, tq, f)
<1> USE DEF Retags
<1>1. PICK c, n, l, p, b : /\ c = CutAt(q, at) /\ n = Len(tq) /\ l = Len(q)
                           /\ p = at[m] /\ b = Before(at, m)
  OBVIOUS
<1>2. /\ n \in Nat /\ l \in Nat /\ p \in 1..l /\ b \in 0..(p - 1)
      /\ q[p].id = tq[m]
      /\ \A k \in 1..l : (b < k /\ k < p) => ~IsTag(q[k])
  <2>1. n \in Nat /\ l \in Nat /\ p \in 1..l /\ b \in 0..(p - 1) /\ q[p].id = tq[m]
    BY <1>1, Places, SMTT(20)
  <2>2. \A k \in 1..l : (b < k /\ k < p) => ~IsTag(q[k])
    BY <1>1, Places, SMTT(20)
  <2> QED
    BY <2>1, <2>2
<1>3. /\ r \in Seq(Items) /\ Len(r) = l /\ r[p] = x
      /\ \A k \in 1..l : k # p => r[k] = q[k]
  BY <1>1, <1>2
<1>4. p + 0 = p /\ b < p /\ 0 \in Int /\ l + 0 = l
  BY <1>2
<1>5. Rewrites(q, at, m, 0, r)
  <2>1. \A k \in 1..b : r[k] = q[k]
    <3>1. \A k \in 1..b : k \in 1..l /\ k # p
      BY <1>2
    <3> QED
      BY <1>3, <3>1
  <2>2. \A k \in (p + 1)..l : r[k + 0] = q[k]
    <3>1. \A k \in (p + 1)..l : k \in 1..l /\ k # p /\ k + 0 = k
      BY <1>2
    <3> QED
      BY <1>3, <3>1
  <2>3. \A k \in (b + 1)..(p + 0 - 1) : ~IsTag(r[k])
    <3>1. \A k \in (b + 1)..(p + 0 - 1) : k \in 1..l /\ k # p /\ b < k /\ k < p
      BY <1>2
    <3> QED
      BY <1>2, <1>3, <3>1
  <2>4. IsTag(r[p]) /\ r[p].id = q[p].id /\ r[p].type \notin {"deleted", "error"}
    BY <1>2, <1>3 DEF IsTag
  <2> QED
    BY <1>1, <1>3, <1>4, <2>1, <2>2, <2>3, <2>4 DEF Rewrites
<1>6. /\ Len(c[m].data) = p - b - 1
      /\ \A k \in 1..(p - b - 1) : c[m].data[k] = q[b + k].content
  <2>1. IsCut(q, tq, m, p, b, c)
    BY <1>1, CutOne, ZenonT(30)
  <2> QED
    BY <2>1 DEF IsCut
<1>7. PICK d : d = c[m].data
  OBVIOUS
<1>8. f[m].data = d
  BY <1>1, <1>7
<1>9. Len(d) = at[m] + 0 - Before(at, m) - 1
  <2>1. p + 0 - b - 1 = p - b - 1
    BY <1>2
  <2> QED
    BY <1>1, <1>6, <1>7, <2>1
<1>10. \A k \in 1..Len(d) : d[k] = r[Before(at, m) + k].content
  <2>1. \A k \in 1..(p - b - 1) : b + k \in 1..l /\ b + k # p
    <3>1. p \in 1..l /\ b \in 0..(p - 1) /\ l \in Nat
      BY <1>2
    <3> QED
      BY ONLY <3>1
  <2>2. \A k \in 1..(p - b - 1) : d[k] = r[b + k].content
    BY <1>3, <1>6, <1>7, <2>1
  <2> QED
    BY <1>1, <1>6, <1>7, <2>2
<1>11. ReplacesOne(q, tq, at, m, 0, r, f)
  <2>1. f[m].type = r[at[m] + 0].type /\ f[m].polling = r[at[m] + 0].polling
    BY <1>1, <1>3, <1>4
  <2> QED
    BY <1>1, <1>8, <1>9, <1>10, <2>1 DEF ReplacesOne
<1>12. Lists(r, tq, f)
  BY <1>4, <1>5, <1>11, OneStreamIs, SMTT(20)
<1> QED
  BY <1>3, <1>12

\* end(): the tag is completed, whatever it was.
LEMMA EndKeeps ==
    ASSUME NEW q \in Seq(Items), NEW tq \in Seq(Ids), NEW at, Indexed(q, tq, at),
           NEW m \in 1..Len(tq),
           NEW r, r = [q EXCEPT ![at[m]].type = "completed"]
    PROVE  Lists(r, tq, End(CutAt(q, at), tq[m]))
<1>1. PICK c, p, b, x : /\ c = CutAt(q, at) /\ p = at[m] /\ b = Before(at, m)
                        /\ x = [q[p] EXCEPT !.type = "completed"]
  OBVIOUS
<1>2. q[p] \in Items /\ q[p].id = tq[m] /\ tq[m] \in Ids
  BY <1>1, Places, SMTT(20)
<1>3. /\ x \in Items /\ x.type = "completed" /\ x.id = tq[m]
      /\ x.polling = q[p].polling
  BY <1>1, <1>2 DEF Items, TagTypes
<1>4. r = [q EXCEPT ![at[m]] = x]
  BY <1>1
<1>5. /\ c \in Queues(Ids, Contents) /\ Len(c) = Len(tq) /\ DOMAIN c = 1..Len(tq)
      /\ c[m] \in Streams(Ids, Contents)
      /\ c[m].id = tq[m] /\ c[m].type = q[p].type /\ c[m].polling = q[p].polling
      /\ \A i \in 1..Len(tq) : c[i].id = tq[i] /\ (i # m => c[i].id # tq[m])
  <2>1. IsCut(q, tq, m, p, b, c)
    BY <1>1, CutOne, ZenonT(30)
  <2> QED
    BY <2>1 DEF IsCut
<1>6. PICK f : f = End(c, tq[m])
  OBVIOUS
<1>7. f \in Queues(Ids, Contents) /\ Len(f) = Len(tq)
  BY <1>2, <1>5, <1>6, EndLemma
<1>8. \A i \in 1..Len(tq) : i # m => f[i] = c[i]
  BY <1>5, <1>6 DEF End
<1>9. f[m] = [c[m] EXCEPT !.type = "completed"]
  BY <1>5, <1>6 DEF End
<1>10. /\ f[m].id = tq[m] /\ f[m].type = x.type /\ f[m].polling = x.polling
       /\ f[m].data = c[m].data
  BY <1>3, <1>5, <1>9 DEF Streams
<1>11. Retags(q, tq, at, m, x, r, f)
  BY <1>1, <1>3, <1>4, <1>7, <1>8, <1>10 DEF Retags
<1>12. Lists(r, tq, f)
  BY ONLY Indexed(q, tq, at), <1>11, RetagKeeps
<1> QED
  BY <1>1, <1>6, <1>12

\* What pop() returns, by the tag that is first in start order.
LEMMA PopTypeOf ==
    ASSUME NEW q \in Seq(Items), NEW tq \in Seq(Ids), NEW at, Indexed(q, tq, at),
           NEW c, c = CutAt(q, at), NEW x, x = q[at[1]]
    PROVE  /\ tq = <<>> => PopType(c) = "EMPTY"
           /\ tq # <<>> =>
                /\ 1 \in 1..Len(tq) /\ c # <<>> /\ c[1].id = tq[1]
                /\ at[1] \in 1..Len(q) /\ Before(at, 1) = 0
                /\ x \in Items /\ x.type \in TagTypes
                /\ x.type = "deleted" => PopType(c) = "REMOVED" /\ at[1] = 1
                /\ x.type = "error" => PopType(c) = "ERROR" /\ at[1] = 1
                /\ x.type \in {"uncompleted", "completed"} /\ x.polling = 0
                        => PopType(c) = "START"
                /\ x.type \in {"uncompleted", "completed"} /\ x.polling = 1
                   /\ at[1] # 1
                        => PopType(c) = "DATA"
                /\ x.type = "completed" /\ x.polling = 1 /\ at[1] = 1
                        => PopType(c) = "END"
                /\ x.type = "uncompleted" /\ x.polling = 1 /\ at[1] = 1
                        => PopType(c) = "EMPTY"
<1>1. /\ c \in Queues(Ids, Contents) /\ Len(c) = Len(tq)
  BY CutShape, SMTT(20)
<1>2. CASE tq = <<>>
  <2>1. c = <<>>
    BY <1>1, <1>2 DEF Queues
  <2> QED
    BY <1>2, <2>1 DEF PopType
<1>3. CASE tq # <<>>
  <2>1. 1 \in 1..Len(tq) /\ Len(tq) \in Nat
    BY <1>3
  <2>2. c # <<>>
    BY <1>1, <2>1 DEF Queues
  <2>3. PICK p : p = at[1]
    OBVIOUS
  <2>4. p \in 1..Len(q) /\ Before(at, 1) = 0 /\ IsTag(x) /\ p \in Nat /\ p # 0
    BY <2>1, <2>3, Places DEF Before
  <2>5. x \in Items /\ x.type \in TagTypes
    <3>1. x \in Items
      BY <2>3, <2>4
    <3> QED
      BY <2>4, <3>1 DEF Items, IsTag
  <2>6. x.type \in {"deleted", "error"} => p = 1
    BY <2>1, <2>3, <2>4 DEF Indexed
  <2>7. PICK s, d : s = c[1] /\ d = s.data
    OBVIOUS
  <2>8. /\ s \in Streams(Ids, Contents) /\ s.id = tq[1]
        /\ s.type = x.type /\ s.polling = x.polling
        /\ Len(d) = p - 0 - 1
    <3>1. PICK b : b = Before(at, 1)
      OBVIOUS
    <3>2. IsCut(q, tq, 1, p, b, c)
      BY <2>1, <2>3, <3>1, CutOne, ZenonT(30)
    <3> QED
      BY <2>3, <2>4, <2>7, <3>1, <3>2 DEF IsCut
  <2>9. Len(d) = p - 0 - 1
    BY <2>8
  <2>10. d \in Seq(Contents)
    BY <2>7, <2>8 DEF Streams
  <2>11. d # <<>> <=> p # 1
    BY <2>4, <2>9, <2>10
  <2>12. PopType(c) =
            CASE x.type = "deleted"              -> "REMOVED"
              [] x.type = "error"                -> "ERROR"
              [] Live(s) /\ x.polling = 0         -> "START"
              [] Live(s) /\ x.polling = 1 /\ d # <<>> -> "DATA"
              [] x.type = "completed" /\ x.polling = 1 /\ d = <<>> -> "END"
              [] OTHER                           -> "EMPTY"
    BY <2>2, <2>7, <2>8 DEF PopType
  <2>13. Live(s) <=> x.type \in {"uncompleted", "completed"}
    BY <2>8 DEF Live
  <2>14. /\ x.type = "deleted" => PopType(c) = "REMOVED"
         /\ x.type = "error" => PopType(c) = "ERROR"
         /\ x.type \in {"uncompleted", "completed"} /\ x.polling = 0
                => PopType(c) = "START"
         /\ x.type \in {"uncompleted", "completed"} /\ x.polling = 1 /\ d # <<>>
                => PopType(c) = "DATA"
         /\ x.type = "completed" /\ x.polling = 1 /\ d = <<>>
                => PopType(c) = "END"
         /\ x.type = "uncompleted" /\ x.polling = 1 /\ d = <<>>
                => PopType(c) = "EMPTY"
    BY <2>12, <2>13
  <2> QED
    BY <1>3, <2>1, <2>2, <2>3, <2>4, <2>5, <2>6, <2>7, <2>8, <2>11, <2>14, ZenonT(40)
<1> QED
  BY <1>2, <1>3

\* pop() of a stream that starts: its tag is polled.
LEMMA PopStartKeeps ==
    ASSUME NEW q \in Seq(Items), NEW tq \in Seq(Ids), NEW at, Indexed(q, tq, at),
           tq # <<>>, q[at[1]].type \in {"uncompleted", "completed"},
           q[at[1]].polling = 0,
           NEW r, r = [q EXCEPT ![at[1]].polling = 1]
    PROVE  Lists(r, tq, Popped(CutAt(q, at)))
<1>1. PICK c, p, x : /\ c = CutAt(q, at) /\ p = at[1]
                     /\ x = [q[p] EXCEPT !.polling = 1]
  OBVIOUS
<1>2. /\ 1 \in 1..Len(tq) /\ q[p] \in Items /\ q[p].id = tq[1]
      /\ PopType(c) = "START"
  <2>1. 1 \in 1..Len(tq)
    OBVIOUS
  <2>2. q[p] \in Items /\ PopType(c) = "START"
    BY <1>1, PopTypeOf
  <2>3. q[p].id = tq[1]
    BY <1>1, <2>1, Places, SMTT(20)
  <2> QED
    BY <2>1, <2>2, <2>3
<1>3. /\ x \in Items /\ x.type = q[p].type /\ x.id = tq[1] /\ x.polling = 1
  BY <1>1, <1>2 DEF Items, TagTypes
<1>4. r = [q EXCEPT ![at[1]] = x]
  BY <1>1
<1>5. /\ c \in Queues(Ids, Contents) /\ Len(c) = Len(tq) /\ DOMAIN c = 1..Len(tq)
      /\ c[1] \in Streams(Ids, Contents)
      /\ c[1].id = tq[1] /\ c[1].type = q[p].type
  <2>1. PICK b : b = Before(at, 1)
    OBVIOUS
  <2>2. IsCut(q, tq, 1, p, b, c)
    BY <1>1, <1>2, <2>1, CutOne, ZenonT(30)
  <2> QED
    BY <2>2 DEF IsCut
<1>6. PICK f : f = Popped(c)
  OBVIOUS
<1>7. f \in Queues(Ids, Contents)
  BY <1>5, <1>6, PoppedLemma
<1>8. f = [c EXCEPT ![1].polling = 1]
  BY <1>2, <1>6 DEF Popped
<1>9. Len(f) = Len(tq) /\ \A i \in 1..Len(tq) : i # 1 => f[i] = c[i]
  BY <1>5, <1>8 DEF Queues
<1>10. f[1] = [c[1] EXCEPT !.polling = 1]
  BY <1>2, <1>5, <1>8
<1>11. /\ f[1].id = tq[1] /\ f[1].type = x.type /\ f[1].polling = x.polling
       /\ f[1].data = c[1].data
  BY <1>3, <1>5, <1>10 DEF Streams
<1>12. Retags(q, tq, at, 1, x, r, f)
  BY <1>1, <1>3, <1>4, <1>7, <1>9, <1>11 DEF Retags
<1>13. Lists(r, tq, f)
  BY ONLY Indexed(q, tq, at), <1>2, <1>12, RetagKeeps
<1> QED
  BY <1>1, <1>6, <1>13

\* pop() of data: the front item is the first data of the first stream.
LEMMA PopDataKeeps ==
    ASSUME NEW q \in Seq(Items), NEW tq \in Seq(Ids), NEW at, Indexed(q, tq, at),
           tq # <<>>, q[at[1]].type \in {"uncompleted", "completed"},
           q[at[1]].polling = 1, at[1] # 1,
           NEW r, r = Tail(q)
    PROVE  /\ Lists(r, tq, Popped(CutAt(q, at)))
           /\ Head(CutAt(q, at)[1].data) = q[1].content
<1>1. PICK c, p, l, x : /\ c = CutAt(q, at) /\ p = at[1] /\ l = Len(q)
                        /\ x = q[at[1]]
  OBVIOUS
<1>2. /\ 1 \in 1..Len(tq) /\ p \in 1..l /\ l \in Nat /\ p # 1 /\ Before(at, 1) = 0
      /\ IsTag(q[p]) /\ q[p].id = tq[1]
      /\ \A k \in 1..l : k < p => ~IsTag(q[k])
  <2>1. 1 \in 1..Len(tq)
    OBVIOUS
  <2>2. p \in 1..l /\ l \in Nat /\ IsTag(q[p]) /\ q[p].id = tq[1]
    BY <1>1, <2>1, Places, SMTT(20)
  <2>3. \A k \in 1..l : (0 < k /\ k < p) => ~IsTag(q[k])
    <3>1. \A k \in 1..Len(q) : (Before(at, 1) < k /\ k < at[1]) => ~IsTag(q[k])
      BY <2>1, Places, SMTT(20)
    <3> QED
      BY <1>1, <3>1 DEF Before
  <2> QED
    BY <1>1, <2>1, <2>2, <2>3 DEF Before
<1>3. PopType(c) = "DATA"
  BY <1>1, PopTypeOf
<1>4. /\ r \in Seq(Items) /\ Len(r) = l - 1 /\ \A k \in 1..(l - 1) : r[k] = q[k + 1]
  BY <1>1, <1>2
<1>5. p + (-1) = p - 1 /\ p - 1 \in 1..(l - 1) /\ (p - 1) + 1 = p /\ -1 \in Int
      /\ l + (-1) = l - 1
  BY <1>2
<1>6. Rewrites(q, at, 1, -1, r)
  <2>1. \A k \in (p + 1)..l : r[k + (-1)] = q[k]
    <3>1. \A k \in (p + 1)..l : k + (-1) \in 1..(l - 1) /\ (k + (-1)) + 1 = k
      BY <1>2
    <3> QED
      BY <1>4, <3>1
  <2>2. \A k \in (0 + 1)..(p + (-1) - 1) : ~IsTag(r[k])
    <3>1. \A k \in (0 + 1)..(p + (-1) - 1) :
                k \in 1..(l - 1) /\ k + 1 \in 1..l /\ k + 1 < p
      BY <1>2
    <3> QED
      BY <1>2, <1>4, <3>1
  <2>3. r[p - 1] = q[p]
    BY <1>4, <1>5
  <2>4. q[p].type \notin {"deleted", "error"}
    BY <1>1
  <2>5. 0 < p + (-1) /\ 1..0 = {}
    BY <1>5
  <2> QED
    BY <1>1, <1>2, <1>4, <1>5, <2>1, <2>2, <2>3, <2>4, <2>5 DEF Rewrites
<1>7. /\ c \in Queues(Ids, Contents) /\ Len(c) = Len(tq) /\ DOMAIN c = 1..Len(tq)
      /\ c[1] \in Streams(Ids, Contents)
      /\ c[1].id = tq[1] /\ c[1].type = q[p].type /\ c[1].polling = q[p].polling
  <2>1. PICK b : b = Before(at, 1)
    OBVIOUS
  <2>2. IsCut(q, tq, 1, p, b, c)
    BY <1>1, <1>2, <2>1, CutOne, ZenonT(30)
  <2> QED
    BY <2>2 DEF IsCut
<1>8. PICK d : d = c[1].data
  OBVIOUS
<1>9. /\ d \in Seq(Contents) /\ Len(d) = p - 1
      /\ \A k \in 1..(p - 1) : d[k] = q[k].content
  <2>1. d \in Seq(Contents)
    BY <1>7, <1>8 DEF Streams
  <2>2. PICK b : b = Before(at, 1)
    OBVIOUS
  <2>3. IsCut(q, tq, 1, p, b, c)
    BY <1>1, <1>2, <2>2, CutOne, ZenonT(30)
  <2>4. b = 0 /\ p - 0 - 1 = p - 1 /\ \A k \in 1..(p - 1) : 0 + k = k
    BY <1>2, <2>2
  <2>5. Len(d) = p - 1 /\ \A k \in 1..(p - 1) : d[k] = q[b + k].content
    BY <1>8, <2>3, <2>4 DEF IsCut
  <2> QED
    BY <2>1, <2>4, <2>5
<1>10. /\ Tail(d) \in Seq(Contents) /\ Len(Tail(d)) = p - 2 /\ Head(d) = q[1].content
       /\ \A k \in 1..(p - 2) : Tail(d)[k] = q[k + 1].content
  <2>1. d # <<>> /\ 1 \in 1..(p - 1)
    BY <1>2, <1>9
  <2>2. Tail(d) \in Seq(Contents) /\ Len(Tail(d)) = p - 2 /\ Head(d) = d[1]
        /\ \A k \in 1..(p - 2) : Tail(d)[k] = d[k + 1]
    BY <1>2, <1>9, <2>1
  <2>3. \A k \in 1..(p - 2) : k + 1 \in 1..(p - 1)
    BY <1>2
  <2> QED
    BY <1>9, <2>1, <2>2, <2>3
<1>11. PICK f : f = Popped(c)
  OBVIOUS
<1>12. f \in Queues(Ids, Contents)
  BY <1>7, <1>11, PoppedLemma
<1>13. f = [c EXCEPT ![1].data = Tail(@)]
  BY <1>3, <1>11 DEF Popped
<1>14. Len(f) = Len(tq) /\ \A i \in 1..Len(tq) : i # 1 => f[i] = c[i]
  BY <1>7, <1>13 DEF Queues
<1>15. f[1] = [c[1] EXCEPT !.data = Tail(d)]
  BY <1>2, <1>7, <1>8, <1>13
<1>16. /\ f[1].id = tq[1] /\ f[1].type = q[p].type /\ f[1].polling = q[p].polling
       /\ f[1].data = Tail(d)
  BY <1>7, <1>15 DEF Streams
<1>17. ReplacesOne(q, tq, at, 1, -1, r, f)
  <2>1. r[p - 1] = q[p]
    BY <1>4, <1>5
  <2>2. f[1].type = r[at[1] + (-1)].type /\ f[1].polling = r[at[1] + (-1)].polling
    BY <1>1, <1>5, <1>16, <2>1
  <2>3. Len(f[1].data) = at[1] + (-1) - Before(at, 1) - 1
    <3>1. p + (-1) - 0 - 1 = p - 2
      BY <1>2
    <3> QED
      BY <1>1, <1>2, <1>10, <1>16, <3>1
  <2>4. \A k \in 1..Len(f[1].data) : f[1].data[k] = r[Before(at, 1) + k].content
    <3>1. \A k \in 1..(p - 2) : k \in 1..(l - 1) /\ 0 + k = k
      BY <1>2
    <3>2. \A k \in 1..(p - 2) : Tail(d)[k] = r[k].content
      BY <1>4, <1>10, <3>1
    <3>3. PICK e, b : e = f[1].data /\ b = Before(at, 1)
      OBVIOUS
    <3>4. \A k \in 1..(p - 2) : e[k] = r[b + k].content
      BY <1>2, <1>16, <3>1, <3>2, <3>3
    <3>5. Len(e) = p - 2
      BY <1>10, <1>16, <3>3
    <3> QED
      BY <3>3, <3>4, <3>5
  <2> QED
    BY <1>1, <1>12, <1>14, <1>16, <2>2, <2>3, <2>4 DEF ReplacesOne
<1>18. Lists(r, tq, f)
  BY ONLY Indexed(q, tq, at), <1>2, <1>5, <1>6, <1>17, OneStreamIs, SMTT(20)
<1> QED
  BY <1>1, <1>4, <1>8, <1>10, <1>11, <1>18

\* pop() of the tag that is first in the list: its stream ends.
LEMMA PopFrontKeeps ==
    ASSUME NEW q \in Seq(Items), NEW tq \in Seq(Ids), NEW at, Indexed(q, tq, at),
           tq # <<>>, at[1] = 1, NEW r, r = Tail(q), NEW st, st = Tail(tq)
    PROVE  Lists(r, st, Tail(CutAt(q, at)))
<1>1. PICK c, n, l : c = CutAt(q, at) /\ n = Len(tq) - 1 /\ l = Len(q) - 1
  OBVIOUS
<1>2. /\ n \in Nat /\ l \in Nat /\ Len(tq) = n + 1 /\ Len(q) = l + 1
      /\ DOMAIN tq = 1..(n + 1) /\ DOMAIN at = 1..(n + 1)
  <2>1. Len(tq) \in Nat /\ 1 \in 1..Len(tq) /\ DOMAIN tq = 1..Len(tq)
    OBVIOUS
  <2>2. Len(q) \in Nat /\ 1 \in 1..Len(q) /\ DOMAIN at = 1..Len(tq)
    BY <2>1, Places, SMTT(20)
  <2> QED
    BY <1>1, <2>1, <2>2
<1>3. /\ r \in Seq(Items) /\ Len(r) = l /\ \A k \in 1..l : r[k] = q[k + 1]
      /\ st \in Seq(Ids) /\ Len(st) = n /\ \A i \in 1..n : st[i] = tq[i + 1]
      /\ DOMAIN st = 1..n
  <2>1. q # <<>>
    BY <1>2
  <2> QED
    BY <1>2, <2>1
<1>4. PICK bt : bt = [i \in 1..n |-> at[i + 1] - 1]
  OBVIOUS
<1>5. /\ DOMAIN bt = 1..n /\ bt = [i \in 1..n |-> bt[i]]
      /\ \A i \in 1..n : bt[i] = at[i + 1] - 1
  BY <1>4
<1>6. ASSUME NEW i \in 1..n
      PROVE  /\ i + 1 \in 1..Len(tq) /\ i \in 1..Len(tq) /\ i \in Nat
             /\ i < i + 1 /\ 1 < i + 1 /\ 1 \in 1..Len(tq)
  BY <1>2
<1>7. ASSUME NEW i \in 1..n
      PROVE  /\ at[i + 1] \in 2..(l + 1)
             /\ Before(bt, i) = Before(at, i + 1) - 1
             /\ Before(at, i + 1) \in 1..(at[i + 1] - 1)
  <2>1. at[1] <= Before(at, i + 1) /\ Before(at, i + 1) \in 0..(at[i + 1] - 1)
    BY <1>6, Places, SMTT(20)
  <2>2. at[i + 1] \in 1..(l + 1)
    <3>1. \A j \in 1..Len(tq) : at[j] \in 1..Len(q)
      BY Places, SMTT(20)
    <3> QED
      BY <1>2, <1>6, <3>1
  <2>3. Before(at, i + 1) = at[i]
    <3>1. i + 1 # 1 /\ (i + 1) - 1 = i
      BY <1>6
    <3> QED
      BY <3>1 DEF Before
  <2>4. CASE i = 1
    <3>1. Before(bt, 1) = 0 /\ Before(at, i + 1) = 1
      BY <2>3, <2>4 DEF Before
    <3> QED
      BY <1>2, <2>1, <2>2, <2>4, <3>1
  <2>5. CASE i # 1
    <3>1. i - 1 \in 1..n /\ (i - 1) + 1 = i
      BY <1>2, <2>5
    <3>2. Before(bt, i) = bt[i - 1]
      BY <2>5 DEF Before
    <3>3. bt[i - 1] = at[i] - 1
      BY <1>5, <3>1
    <3> QED
      BY <2>1, <2>2, <2>3, <3>2, <3>3
  <2> QED
    BY <2>4, <2>5
<1>8. ASSUME NEW i \in 1..n
      PROVE  SameItems(q, Before(at, i + 1), at[i + 1], r, Before(bt, i), bt[i])
  <2>1. PICK b, k : b = Before(at, i + 1) /\ k = at[i + 1]
    OBVIOUS
  <2>2. /\ k \in 2..(l + 1) /\ b \in 1..(k - 1)
        /\ Before(bt, i) = b - 1 /\ bt[i] = k - 1
    BY <1>5, <1>7, <2>1
  <2>3. \A j \in 1..(k - b) : r[(b - 1) + j] = q[b + j]
    <3>1. \A j \in 1..(k - b) : (b - 1) + j \in 1..l /\ ((b - 1) + j) + 1 = b + j
      BY <1>2, <2>2
    <3> QED
      BY <1>3, <3>1
  <2>4. /\ b \in Nat /\ k \in Nat /\ b < k /\ b - 1 \in Nat /\ k - 1 \in Nat
        /\ (k - 1) - (b - 1) = k - b
    BY <2>2
  <2> QED
    BY <2>1, <2>2, <2>3, <2>4 DEF SameItems
<1>9. bt \in [1..Len(st) -> 1..Len(r)]
  <2>1. ASSUME NEW i \in 1..n
        PROVE  bt[i] \in 1..l
    <3>1. PICK k : k = at[i + 1]
      OBVIOUS
    <3>2. k \in 2..(l + 1)
      BY <1>7, <3>1
    <3>3. k - 1 \in 1..l
      BY <1>2, <3>2
    <3> QED
      BY <1>5, <3>1, <3>3
  <2> QED
    BY <1>3, <1>5, <2>1
<1>10. ASSUME NEW i \in 1..Len(st)
       PROVE  /\ IsTag(r[bt[i]]) /\ r[bt[i]].id = st[i]
              /\ Before(bt, i) < bt[i]
              /\ \A k \in 1..Len(r) :
                    (Before(bt, i) < k /\ k < bt[i]) => ~IsTag(r[k])
              /\ r[bt[i]].type \in {"deleted", "error"}
                    => bt[i] = Before(bt, i) + 1
  <2>1. i \in 1..n
    BY <1>3
  <2>2. PICK b, k : b = Before(at, i + 1) /\ k = at[i + 1]
    OBVIOUS
  <2>3. /\ k \in 2..(l + 1) /\ b \in 1..(k - 1)
        /\ Before(bt, i) = b - 1 /\ bt[i] = k - 1
    BY <1>5, <1>7, <2>1, <2>2
  <2>4. r[k - 1] = q[k]
    <3>1. k - 1 \in 1..l /\ (k - 1) + 1 = k
      BY <1>2, <2>3
    <3> QED
      BY <1>3, <3>1
  <2>5. IsTag(q[k]) /\ q[k].id = tq[i + 1]
    BY <1>6, <2>1, <2>2, Places, SMTT(20)
  <2>6. \A j \in 1..Len(q) : (b < j /\ j < k) => ~IsTag(q[j])
    <3>1. \A h \in 1..Len(tq) : \A j \in 1..Len(q) :
                (Before(at, h) < j /\ j < at[h]) => ~IsTag(q[j])
      BY Places, SMTT(20)
    <3> QED
      BY <1>6, <2>1, <2>2, <3>1
  <2>7. q[k].type \in {"deleted", "error"} => k = b + 1
    <3>1. i + 1 \in DOMAIN tq
      BY <1>2, <2>1
    <3> QED
      BY <2>2, <3>1 DEF Indexed
  <2>8. \A j \in 1..l : (b - 1 < j /\ j < k - 1) => ~IsTag(r[j])
    <3>1. ASSUME NEW j \in 1..l, b - 1 < j, j < k - 1
          PROVE  ~IsTag(r[j])
      <4>1. j + 1 \in 1..(l + 1) /\ b < j + 1 /\ j + 1 < k
        BY <1>2, <2>3, <3>1
      <4> QED
        BY <1>2, <1>3, <2>6, <4>1
    <3> QED
      BY <3>1
  <2>9. st[i] = tq[i + 1]
    BY <1>3, <2>1
  <2>10. b - 1 < k - 1 /\ (k = b + 1 => k - 1 = (b - 1) + 1)
    BY <2>3
  <2> QED
    BY <1>3, <2>3, <2>4, <2>5, <2>7, <2>8, <2>9, <2>10
<1>11. IsInjective(st)
  <2>1. \A i, j \in 1..(n + 1) : tq[i] = tq[j] => i = j
    BY <1>2 DEF Indexed, IsInjective
  <2>2. ASSUME NEW i \in 1..n, NEW j \in 1..n, st[i] = st[j]
        PROVE  i = j
    <3>1. i + 1 \in 1..(n + 1) /\ j + 1 \in 1..(n + 1)
      BY <1>2
    <3>2. i + 1 = j + 1
      BY <1>3, <2>1, <2>2, <3>1
    <3> QED
      BY <3>2
  <2> QED
    BY <1>3, <2>2 DEF IsInjective
<1>12. r # <<>> => st # <<>> /\ bt[Len(st)] = Len(r)
  <2>1. SUFFICES ASSUME r # <<>>
                 PROVE  n # 0 /\ bt[n] = l
    BY <1>3
  <2>2. at[n + 1] = l + 1
    BY <1>2, Places, SMTT(20)
  <2>3. l # 0
    BY <1>2, <1>3, <2>1
  <2>4. n # 0
    <3>1. n = 0 => at[n + 1] = 1
      OBVIOUS
    <3> QED
      BY <1>2, <2>2, <2>3, <3>1
  <2>5. n \in 1..n
    BY <1>2, <2>4
  <2>6. bt[n] = at[n + 1] - 1
    BY <1>5, <2>5
  <2>7. (l + 1) - 1 = l
    BY <1>2
  <2> QED
    BY <2>2, <2>4, <2>6, <2>7
<1>13. Indexed(r, st, bt)
  <2>1. r \in Seq(Items) /\ st \in Seq(Ids)
    BY <1>3
  <2> QED
    BY ONLY <2>1, <1>9, <1>10, <1>11, <1>12, IndexedIntro
<1>14. c \in Queues(Ids, Contents) /\ Len(c) = n + 1
  BY <1>1, <1>2, CutShape, SMTT(20)
<1>15. PICK f : f = Tail(c)
  OBVIOUS
<1>16. /\ f \in Seq(Streams(Ids, Contents)) /\ Len(f) = n
       /\ \A i \in 1..n : f[i] = c[i + 1]
  <2>1. c # <<>>
    BY <1>2, <1>14 DEF Queues
  <2> QED
    BY <1>2, <1>14, <1>15, <2>1 DEF Queues
<1>17. ASSUME NEW i \in 1..n
       PROVE  f[i] = StreamOf(r, Before(bt, i), bt[i])
  <2>1. c[i + 1] = StreamOf(q, Before(at, i + 1), at[i + 1])
    BY <1>1, <1>6, CutShape, SMTT(20)
  <2>2. StreamOf(r, Before(bt, i), bt[i]) = StreamOf(q, Before(at, i + 1), at[i + 1])
    BY <1>8, SameStream
  <2> QED
    BY <1>16, <2>1, <2>2
<1>18. f = CutAt(r, bt)
  <2>1. \A i \in 1..Len(st) : f[i] = StreamOf(r, Before(bt, i), bt[i])
    BY <1>3, <1>17
  <2>2. Len(f) = Len(st)
    BY <1>3, <1>16
  <2> QED
    BY ONLY <1>3, <1>13, <1>16, <2>1, <2>2, CutIs
<1> QED
  BY <1>1, <1>3, <1>13, <1>15, <1>18 DEF Lists

Enumerates(q, at, n) ==
    /\ DOMAIN q \subseteq Nat /\ n \in Nat
    /\ DOMAIN at = 1..n /\ \A i \in 1..n : at[i] \in DOMAIN q
    /\ ListsTags(q, at)

Agree(at, bt, n) == \A i \in 1..n : bt[i] = at[i]

\* The tags of a list have one enumeration.
LEMMA OneEnumeration ==
    ASSUME NEW q, NEW n \in Nat, NEW m \in Nat, NEW at, Enumerates(q, at, n), NEW bt, Enumerates(q, bt, m)
    PROVE  m = n /\ Agree(at, bt, n)
<1>0. DOMAIN q \subseteq Nat /\ n \in Nat /\ m \in Nat
  BY DEF Enumerates
<1>1. /\ \A k \in DOMAIN q : IsTag(q[k]) <=> \E i \in 1..n : at[i] = k
      /\ \A i, j \in 1..n : i < j => at[i] < at[j]
      /\ \A k \in DOMAIN q : IsTag(q[k]) <=> \E i \in 1..m : bt[i] = k
      /\ \A i, j \in 1..m : i < j => bt[i] < bt[j]
  BY DEF Enumerates, ListsTags
<1>2. (\A i \in 1..n : at[i] \in Nat) /\ \A i \in 1..m : bt[i] \in Nat
  BY <1>0 DEF Enumerates
<1>3. (\A i \in 1..n : \E j \in 1..m : bt[j] = at[i])
      /\ \A j \in 1..m : \E i \in 1..n : at[i] = bt[j]
  BY <1>1 DEF Enumerates
<1> DEFINE Differ == {i \in Nat : i \in 1..n /\ ~(i \in 1..m /\ bt[i] = at[i])}
<1>4. Differ = {}
  <2>1. SUFFICES ASSUME Differ # {}
                 PROVE  FALSE
    OBVIOUS
  <2>2. PICK i \in Differ : \A x \in Differ : i <= x
    <3> HIDE DEF Differ
    <3>1. Differ \subseteq Nat
      BY DEF Differ
    <3> QED
      BY <2>1, <3>1, LeastElement
  <2>3. i \in 1..n /\ i \in Nat /\ ~(i \in 1..m /\ bt[i] = at[i])
    BY <2>2
  <2>4. ASSUME NEW j \in 1..n, j < i
        PROVE  j \in 1..m /\ bt[j] = at[j]
    <3>1. j \in Nat /\ ~(i <= j)
      BY <2>3, <2>4
    <3>2. j \notin Differ
      BY <2>2, <3>1
    <3> QED
      BY <3>1, <3>2
  <2> HIDE DEF Differ
  <2>5. PICK j \in 1..m : bt[j] = at[i]
    BY <1>3, <2>3
  <2>6. ~(j < i)
    <3>1. SUFFICES ASSUME j < i
                   PROVE  FALSE
      OBVIOUS
    <3>2. j \in 1..n
      BY <1>0, <2>3, <3>1
    <3>3. at[j] < at[i] /\ bt[j] = at[j]
      BY <1>1, <2>3, <2>4, <3>1, <3>2
    <3>4. at[j] \in Nat /\ at[i] \in Nat
      BY <1>2, <2>3, <3>2
    <3>5. at[j] = at[i]
      BY <2>5, <3>3
    <3> QED
      BY ONLY <3>3, <3>4, <3>5
  <2>7. i \in 1..m
    BY <2>3, <2>6
  <2>8. PICK h \in 1..n : at[h] = bt[i]
    BY <1>3, <2>7
  <2>9. ~(h < i)
    <3>1. SUFFICES ASSUME h < i
                   PROVE  FALSE
      OBVIOUS
    <3>2. h \in 1..m /\ bt[h] = at[h]
      BY <2>4, <3>1
    <3>3. bt[h] < bt[i]
      BY <1>1, <2>7, <3>1, <3>2
    <3> QED
      BY <1>2, <2>7, <2>8, <3>2, <3>3
  <2>10. i = h \/ i < h
    BY <2>3, <2>9
  <2>11. i = j \/ i < j
    BY <2>3, <2>6
  <2>12. i < h => at[i] < bt[i]
    BY <1>1, <2>3, <2>8
  <2>13. i < j => bt[i] < at[i]
    BY <1>1, <2>5, <2>7
  <2>14. at[i] \in Nat /\ bt[i] \in Nat
    BY <1>2, <2>3, <2>7
  <2> QED
    BY <2>3, <2>5, <2>7, <2>8, <2>10, <2>11, <2>12, <2>13, <2>14
<1>5. \A i \in 1..n : i \in 1..m /\ bt[i] = at[i]
  BY <1>4
<1> HIDE DEF Differ
<1>6. ~(n < m)
  <2>1. SUFFICES ASSUME n < m
                 PROVE  FALSE
    OBVIOUS
  <2>2. n + 1 \in 1..m
    BY <1>0, <2>1
  <2>3. PICK i \in 1..n : at[i] = bt[n + 1]
    BY <1>3, <2>2
  <2>4. i \in 1..m /\ bt[i] = at[i] /\ i < n + 1
    BY <1>0, <1>5
  <2>5. bt[i] < bt[n + 1]
    BY <1>1, <2>2, <2>4
  <2> QED
    BY <1>0, <1>2, <2>2, <2>3, <2>4, <2>5
<1>7. ~(m < n)
  <2>1. m < n => n \in 1..m
    BY <1>0, <1>5
  <2> QED
    BY <1>0, <2>1
<1> QED
  BY <1>0, <1>5, <1>6, <1>7 DEF Agree

\* clear(): of each stream its tag only, as an erased one.
LEMMA ClearKeeps ==
    ASSUME NEW q \in Seq(Items), NEW tq \in Seq(Ids), NEW at, Indexed(q, tq, at),
           NEW et \in [1..Cardinality(Tags(q)) -> Tags(q)], ListsTags(q, et),
           NEW r, r = [i \in DOMAIN et |-> [q[et[i]] EXCEPT !.type = "deleted"]]
    PROVE  Lists(r, tq, Clear(CutAt(q, at)))
<1>1. PICK n, l, m, c : /\ n = Len(tq) /\ l = Len(q) /\ m = Cardinality(Tags(q))
                        /\ c = CutAt(q, at)
  OBVIOUS
<1>2. /\ n \in Nat /\ l \in Nat /\ DOMAIN at = 1..n /\ DOMAIN q = 1..l
      /\ DOMAIN tq = 1..n /\ \A i \in 1..n : at[i] \in 1..l
  BY <1>1, Places, SMTT(20)
<1>3. m \in Nat
  <2>1. IsFiniteSet(1..l)
    <3>1. 1 \in Int /\ l \in Int
      BY <1>2
    <3> QED
      BY ONLY <3>1, FS_Interval
  <2>2. Tags(q) \subseteq 1..l
    BY <1>2 DEF Tags
  <2> QED
    BY <1>1, <2>1, <2>2, FS_Subset, FS_CardinalityType
<1>4. m = n /\ \A i \in 1..n : et[i] = at[i]
  <2>1. DOMAIN et = 1..m /\ \A i \in 1..m : et[i] \in 1..l
    BY <1>1, <1>2 DEF Tags
  <2>2. 1..l \subseteq Nat /\ ListsTags(q, at)
    BY DEF Indexed
  <2>3. DOMAIN q \subseteq Nat
    BY <1>2, <2>2
  <2>4. DOMAIN at = 1..n /\ \A i \in 1..n : at[i] \in DOMAIN q
    BY <1>2
  <2>5. \A i \in 1..m : et[i] \in DOMAIN q
    BY <1>2, <2>1
  <2>6. Enumerates(q, at, n) /\ Enumerates(q, et, m)
    BY <1>2, <1>3, <2>1, <2>2, <2>3, <2>4, <2>5 DEF Enumerates
  <2> QED
    <3>1. n \in Nat /\ m \in Nat
      BY <1>2, <1>3
    <3>2. m = n
      BY ONLY <2>6, <3>1, OneEnumeration
    <3>3. Agree(at, et, n)
      BY ONLY <2>6, <3>1, OneEnumeration
    <3> QED
      BY <3>2, <3>3 DEF Agree
<1>5. \A i \in 1..n : /\ q[at[i]] \in Items /\ IsTag(q[at[i]])
                      /\ q[at[i]].id = tq[i]
  <2>1. \A k \in 1..l : q[k] \in Items
    BY <1>2
  <2> QED
    BY <1>1, <1>2, <2>1, Places, SMTT(20)
<1>6. r = [i \in 1..n |-> [q[at[i]] EXCEPT !.type = "deleted"]]
  BY <1>1, <1>4
<1>7. \A i \in 1..n : /\ r[i] \in Items /\ IsTag(r[i]) /\ r[i].id = tq[i]
                      /\ r[i].type = "deleted" /\ r[i].polling = q[at[i]].polling
  <2>1. ASSUME NEW i \in 1..n
        PROVE  /\ r[i] \in Items /\ IsTag(r[i]) /\ r[i].id = tq[i]
               /\ r[i].type = "deleted" /\ r[i].polling = q[at[i]].polling
    <3>1. PICK x : x = q[at[i]]
      OBVIOUS
    <3>2. x \in Items /\ x.id = tq[i] /\ r[i] = [x EXCEPT !.type = "deleted"]
      BY <1>5, <1>6, <3>1
    <3>3. /\ r[i] \in Items /\ r[i].id = x.id /\ r[i].type = "deleted"
          /\ r[i].polling = x.polling
      BY ONLY <3>2 DEF Items, TagTypes
    <3> QED
      BY <3>1, <3>2, <3>3 DEF IsTag
  <2> QED
    BY <2>1
<1>8. r \in Seq(Items) /\ Len(r) = n /\ DOMAIN r = 1..n
  <2>1. r \in [1..n -> Items]
    BY <1>6, <1>7
  <2>2. n \in Nat
    BY <1>2
  <2> QED
    BY ONLY <2>1, <2>2
<1>9. PICK bt : bt = [i \in 1..n |-> i]
  OBVIOUS
<1>10. /\ DOMAIN bt = 1..n /\ bt \in [1..n -> 1..n]
       /\ \A i \in 1..n : bt[i] = i /\ Before(bt, i) = i - 1
  <2>1. \A i \in 1..n : i = 1 \/ i - 1 \in 1..n
    BY <1>2
  <2> QED
    BY <1>9, <2>1 DEF Before
<1>11. Indexed(r, tq, bt)
  <2>1. \A i \in 1..Len(tq) :
            /\ IsTag(r[bt[i]]) /\ r[bt[i]].id = tq[i]
            /\ Before(bt, i) < bt[i]
            /\ \A k \in 1..Len(r) :
                    (Before(bt, i) < k /\ k < bt[i]) => ~IsTag(r[k])
            /\ r[bt[i]].type \in {"deleted", "error"}
                    => bt[i] = Before(bt, i) + 1
    <3>1. ASSUME NEW i \in 1..n
          PROVE  /\ IsTag(r[i]) /\ r[i].id = tq[i] /\ bt[i] = i
                 /\ Before(bt, i) < i /\ i = Before(bt, i) + 1
                 /\ \A k \in 1..n : ~(Before(bt, i) < k /\ k < i)
      <4>1. Before(bt, i) = i - 1 /\ bt[i] = i /\ i \in Nat
        BY <1>2, <1>10
      <4>2. i - 1 < i /\ i = (i - 1) + 1 /\ \A k \in 1..n : ~(i - 1 < k /\ k < i)
        BY <1>2, <4>1
      <4> QED
        BY <1>7, <4>1, <4>2
    <3>2. Len(tq) = n /\ Len(r) = n
      BY <1>1, <1>8
    <3> QED
      BY ONLY <3>1, <3>2
  <2>2. bt \in [1..Len(tq) -> 1..Len(r)]
    BY <1>1, <1>8, <1>10
  <2>3. r # <<>> => tq # <<>> /\ bt[Len(tq)] = Len(r)
    <3>1. r # <<>> => n # 0 /\ n \in 1..n
      BY <1>2, <1>8
    <3> QED
      BY <1>1, <1>8, <1>10, <3>1
  <2>4. IsInjective(tq)
    BY DEF Indexed
  <2> QED
    BY ONLY <1>8, <2>1, <2>2, <2>3, <2>4, tq \in Seq(Ids), IndexedIntro
<1>12. /\ c \in Queues(Ids, Contents) /\ Len(c) = n /\ DOMAIN c = 1..n
       /\ \A i \in 1..n : /\ c[i] \in Streams(Ids, Contents) /\ c[i].id = tq[i]
                          /\ c[i].polling = q[at[i]].polling
  <2>1. c \in Queues(Ids, Contents) /\ Len(c) = n
    BY <1>1, CutShape, SMTT(20)
  <2>2. \A i \in 1..n : /\ c[i] \in Streams(Ids, Contents) /\ c[i].id = tq[i]
                        /\ c[i].polling = q[at[i]].polling
    BY <1>1, CutShape, SMTT(20)
  <2> QED
    BY <2>1, <2>2 DEF Queues
<1>13. PICK f : f = Clear(c)
  OBVIOUS
<1>14. f \in Queues(Ids, Contents) /\ Len(f) = n
  BY <1>12, <1>13, ClearLemma
<1>15. ASSUME NEW i \in 1..n
       PROVE  f[i] = StreamOf(r, Before(bt, i), bt[i])
  <2>1. PICK d : d = <<>>
    OBVIOUS
  <2>2. f[i] = [c[i] EXCEPT !.type = "deleted", !.data = d]
    BY <1>12, <1>13, <2>1 DEF Clear
  <2>3. f[i] = [id |-> tq[i], type |-> "deleted", polling |-> q[at[i]].polling,
                data |-> d]
    BY <1>12, <2>2 DEF Streams
  <2>4. StreamOf(r, i - 1, i) =
            [id |-> r[i].id, type |-> r[i].type, polling |-> r[i].polling,
             data |-> [k \in 1..(i - (i - 1) - 1) |-> r[(i - 1) + k].content]]
    BY DEF StreamOf
  <2>5. [k \in 1..(i - (i - 1) - 1) |-> r[(i - 1) + k].content] = d
    <3>1. i - (i - 1) - 1 = 0
      BY <1>2
    <3>2. PICK g : g = [k \in 1..0 |-> r[(i - 1) + k].content]
      OBVIOUS
    <3>3. g = <<>>
      BY <3>2
    <3> QED
      BY <2>1, <3>1, <3>2, <3>3
  <2> QED
    BY <1>7, <1>10, <2>3, <2>4, <2>5
<1>16. f = CutAt(r, bt)
  <2>1. \A i \in 1..Len(tq) : f[i] = StreamOf(r, Before(bt, i), bt[i])
    BY <1>1, <1>15
  <2>2. Len(f) = Len(tq) /\ f \in Seq(Streams(Ids, Contents))
    BY <1>1, <1>14 DEF Queues
  <2> QED
    BY ONLY <1>8, <1>11, <2>1, <2>2, tq \in Seq(Ids), CutIs
<1> QED
  BY <1>1, <1>8, <1>11, <1>13, <1>16 DEF Lists

-----------------------------------------------------------------------------
\* The inductive invariant: some enumeration of the tags is the index.
ListInv ==
    /\ queue \in Seq(Items) /\ tagQueue \in Seq(Ids)
    /\ itemTags = Range(tagQueue)
    /\ \E at : Indexed(queue, tagQueue, at)

\* The abstract specification's operators are those of StreamQueue.
LEMMA AbstractOps ==
    /\ \A q, id : Abstract!Start(q, id) = Start(q, id)
    /\ \A q, id, d : Abstract!Stream(q, id, d) = Stream(q, id, d)
    /\ \A q, id : Abstract!End(q, id) = End(q, id)
    /\ \A q, id, t : Abstract!Erase(q, id, t) = Erase(q, id, t)
    /\ \A q : Abstract!Clear(q) = Clear(q)
    /\ \A q : Abstract!PopType(q) = PopType(q)
    /\ \A q : Abstract!Popped(q) = Popped(q)
    /\ Abstract!Nothing = Nothing
<1>1. \A q, id : Abstract!Start(q, id) = Start(q, id)
  BY DEF Abstract!Start, Start, Abstract!Has, Has
<1>2. \A q, id, d : Abstract!Stream(q, id, d) = Stream(q, id, d)
  BY DEF Abstract!Stream, Stream
<1>3. \A q, id : Abstract!End(q, id) = End(q, id)
  BY DEF Abstract!End, End
<1>4. \A q, id, t : Abstract!Erase(q, id, t) = Erase(q, id, t)
  BY DEF Abstract!Erase, Erase
<1>5. \A q : Abstract!Clear(q) = Clear(q)
  BY DEF Abstract!Clear, Clear
<1>6. \A q : Abstract!PopType(q) = PopType(q)
  BY DEF Abstract!PopType, PopType, Abstract!Live, Live
<1>7. \A q : Abstract!Popped(q) = Popped(q)
  BY <1>6 DEF Abstract!Popped, Popped
<1>8. Abstract!Nothing = Nothing
  BY DEF Abstract!Nothing, Nothing, Abstract!NoItem, NoItem
<1> QED
  BY <1>1, <1>2, <1>3, <1>4, <1>5, <1>6, <1>7, <1>8

\* The iterators that the map has, and where they point.
LEMMA Looked ==
    ASSUME ListInv, NEW at, Indexed(queue, tagQueue, at), NEW id \in itemTags
    PROVE  \E m \in 1..Len(tagQueue) :
                tagQueue[m] = id /\ Pos(queue, id) = at[m]
<1>1. queue \in Seq(Items) /\ tagQueue \in Seq(Ids)
  BY DEF ListInv
<1>2. PICK m \in 1..Len(tagQueue) : tagQueue[m] = id
  BY <1>1 DEF ListInv, Range
<1> QED
  BY <1>1, <1>2, PosLemma

\* The mapping gives the queue of streams that the list holds.
LEMMA MapsNow ==
    ASSUME ListInv
    PROVE  \E at : Indexed(queue, tagQueue, at) /\ AbsStreams = CutAt(queue, at)
<1>1. queue \in Seq(Items) /\ tagQueue \in Seq(Ids)
  BY DEF ListInv
<1>2. PICK at : Indexed(queue, tagQueue, at)
  BY DEF ListInv
<1>3. AbsStreams = CutAt(queue, at)
  BY <1>1, <1>2, MappingCuts DEF AbsStreams
<1> QED
  BY <1>2, <1>3

LEMMA MapsNext ==
    ASSUME NEW c, Lists(queue', tagQueue', c), itemTags' = Range(tagQueue')
    PROVE  ListInv' /\ AbsStreams' = c
<1>1. queue' \in Seq(Items) /\ tagQueue' \in Seq(Ids)
  BY DEF Lists
<1>2. PICK at : Indexed(queue', tagQueue', at) /\ CutAt(queue', at) = c
  BY DEF Lists
<1>3. AbsStreams' = CutAt(queue', at)
  BY <1>1, <1>2, MappingCuts DEF AbsStreams
<1> QED
  BY <1>1, <1>2, <1>3 DEF ListInv

\* start() is Start.
LEMMA StartStep ==
    ASSUME ListInv, NEW id \in Ids, StartOp(id)
    PROVE  ListInv' /\ Abstract!SpecNext
<1>1. queue \in Seq(Items) /\ tagQueue \in Seq(Ids) /\ itemTags = Range(tagQueue)
  BY DEF ListInv
<1>2. PICK at : Indexed(queue, tagQueue, at) /\ AbsStreams = CutAt(queue, at)
  BY MapsNow
<1>3. PICK r, st : r = Append(queue, TagItem(id)) /\ st = Append(tagQueue, id)
  OBVIOUS
<1>4. queue' = r /\ tagQueue' = st /\ popped' = popped /\ id \notin Range(tagQueue)
      /\ itemTags' = itemTags \cup {id}
  BY <1>1, <1>3 DEF StartOp
<1>5. Lists(r, st, Start(CutAt(queue, at), id))
  <2>1. id \notin Range(tagQueue)
    BY <1>4
  <2> QED
    BY ONLY id \in Ids, <1>1, <1>2, <1>3, <2>1, StartKeeps
<1>6. Range(st) = Range(tagQueue) \cup {id}
  <2>1. /\ DOMAIN st = 1..(Len(tagQueue) + 1)
        /\ st[Len(tagQueue) + 1] = id
        /\ \A i \in 1..Len(tagQueue) : st[i] = tagQueue[i]
        /\ DOMAIN tagQueue = 1..Len(tagQueue)
        /\ \A i \in 1..(Len(tagQueue) + 1) :
                i \in 1..Len(tagQueue) \/ i = Len(tagQueue) + 1
        /\ Len(tagQueue) + 1 \in 1..(Len(tagQueue) + 1)
        /\ \A i \in 1..Len(tagQueue) : i \in 1..(Len(tagQueue) + 1)
    BY <1>1, <1>3
  <2> QED
    BY <2>1 DEF Range
<1>7. ListInv' /\ AbsStreams' = Start(AbsStreams, id)
  BY <1>1, <1>2, <1>4, <1>5, <1>6, MapsNext
<1>8. AbsStreams' = Abstract!Start(AbsStreams, id) /\ popped' = popped
  BY <1>4, <1>7, AbstractOps
<1> QED
  BY <1>7, <1>8 DEF Abstract!SpecNext, Abstract!SpecChange

\* stream() is Stream.
LEMMA StreamStep ==
    ASSUME ListInv, NEW id \in Ids, NEW d \in Data, StreamOp(id, d)
    PROVE  ListInv' /\ Abstract!SpecNext
<1>1. queue \in Seq(Items) /\ tagQueue \in Seq(Ids) /\ itemTags = Range(tagQueue)
  BY DEF ListInv
<1>2. PICK at : Indexed(queue, tagQueue, at) /\ AbsStreams = CutAt(queue, at)
  BY MapsNow
<1>3. PICK m \in 1..Len(tagQueue) : tagQueue[m] = id /\ Pos(queue, id) = at[m]
  BY <1>2, Looked DEF StreamOp
<1>4. PICK r : r = InsertAt(queue, at[m], DataItem(d))
  OBVIOUS
<1>5. /\ queue' = r /\ tagQueue' = tagQueue /\ popped' = popped
      /\ itemTags' = itemTags /\ queue[at[m]].type = "uncompleted"
  BY <1>3, <1>4 DEF StreamOp
<1>6. Lists(r, tagQueue, Stream(CutAt(queue, at), tagQueue[m], d))
  <2>1. queue[at[m]].type = "uncompleted"
    BY <1>5
  <2> QED
    BY ONLY d \in Data, m \in 1..Len(tagQueue), <1>1, <1>2, <1>4, <2>1, StreamKeeps
<1>7. ListInv' /\ AbsStreams' = Stream(AbsStreams, id, d)
  BY <1>1, <1>2, <1>3, <1>5, <1>6, MapsNext
<1>8. AbsStreams' = Abstract!Stream(AbsStreams, id, d) /\ popped' = popped
  BY <1>5, <1>7, AbstractOps
<1> QED
  BY <1>7, <1>8 DEF Abstract!SpecNext, Abstract!SpecChange

\* end() is End.
LEMMA EndStep ==
    ASSUME ListInv, NEW id \in Ids, EndOp(id)
    PROVE  ListInv' /\ Abstract!SpecNext
<1>1. queue \in Seq(Items) /\ tagQueue \in Seq(Ids) /\ itemTags = Range(tagQueue)
  BY DEF ListInv
<1>2. PICK at : Indexed(queue, tagQueue, at) /\ AbsStreams = CutAt(queue, at)
  BY MapsNow
<1>3. PICK m \in 1..Len(tagQueue) : tagQueue[m] = id /\ Pos(queue, id) = at[m]
  BY <1>2, Looked DEF EndOp
<1>4. PICK r : r = [queue EXCEPT ![at[m]].type = "completed"]
  OBVIOUS
<1>5. /\ queue' = r /\ tagQueue' = tagQueue /\ popped' = popped
      /\ itemTags' = itemTags
  BY <1>3, <1>4 DEF EndOp
<1>6. Lists(r, tagQueue, End(CutAt(queue, at), tagQueue[m]))
  BY ONLY m \in 1..Len(tagQueue), <1>1, <1>2, <1>4, EndKeeps
<1>7. ListInv' /\ AbsStreams' = End(AbsStreams, id)
  BY <1>1, <1>2, <1>3, <1>5, <1>6, MapsNext
<1>8. AbsStreams' = Abstract!End(AbsStreams, id) /\ popped' = popped
  BY <1>5, <1>7, AbstractOps
<1> QED
  BY <1>7, <1>8 DEF Abstract!SpecNext, Abstract!SpecChange

\* erase() is Erase.
LEMMA EraseStep ==
    ASSUME ListInv, NEW id \in Ids, NEW t \in {"deleted", "error"}, EraseOp(id, t)
    PROVE  ListInv' /\ Abstract!SpecNext
<1>1. queue \in Seq(Items) /\ tagQueue \in Seq(Ids) /\ itemTags = Range(tagQueue)
  BY DEF ListInv
<1>2. PICK at : Indexed(queue, tagQueue, at) /\ AbsStreams = CutAt(queue, at)
  BY MapsNow
<1>3. PICK m \in 1..Len(tagQueue) : tagQueue[m] = id /\ Pos(queue, id) = at[m]
  BY <1>2, Looked DEF EraseOp
<1>4. PICK r : r = Spliced(queue, Before(at, m), [queue[at[m]] EXCEPT !.type = t],
                           at[m] + 1)
  OBVIOUS
<1>5. queue' = r
  <2>1. FirstDataBefore(queue, at[m]) = Before(at, m) + 1
    BY <1>1, <1>2, FirstLemma
  <2>2. Before(at, m) \in Nat
    BY <1>1, <1>2, Places, SMTT(20)
  <2>3. (Before(at, m) + 1) - 1 = Before(at, m)
    BY <2>2
  <2> QED
    BY <1>3, <1>4, <2>1, <2>3 DEF EraseOp, Spliced
<1>6. tagQueue' = tagQueue /\ popped' = popped /\ itemTags' = itemTags
  BY DEF EraseOp
<1>7. Lists(r, tagQueue, Erase(CutAt(queue, at), tagQueue[m], t))
  BY ONLY m \in 1..Len(tagQueue), t \in {"deleted", "error"}, <1>1, <1>2, <1>4,
          EraseKeeps
<1>8. ListInv' /\ AbsStreams' = Erase(AbsStreams, id, t)
  BY <1>1, <1>2, <1>3, <1>5, <1>6, <1>7, MapsNext
<1>9. AbsStreams' = Abstract!Erase(AbsStreams, id, t) /\ popped' = popped
  BY <1>6, <1>8, AbstractOps
<1> QED
  BY <1>8, <1>9 DEF Abstract!SpecNext, Abstract!SpecChange

\* clear() is Clear.
LEMMA ClearStep ==
    ASSUME ListInv, ClearOp
    PROVE  ListInv' /\ Abstract!SpecNext
<1>1. queue \in Seq(Items) /\ tagQueue \in Seq(Ids) /\ itemTags = Range(tagQueue)
  BY DEF ListInv
<1>2. PICK at : Indexed(queue, tagQueue, at) /\ AbsStreams = CutAt(queue, at)
  BY MapsNow
<1>3. PICK et \in [1..Cardinality(Tags(queue)) -> Tags(queue)] :
        /\ ListsTags(queue, et)
        /\ queue' = [i \in DOMAIN et |-> [queue[et[i]] EXCEPT !.type = "deleted"]]
  BY DEF ClearOp
<1>4. PICK r : r = [i \in DOMAIN et |-> [queue[et[i]] EXCEPT !.type = "deleted"]]
  OBVIOUS
<1>5. /\ queue' = r /\ tagQueue' = tagQueue /\ popped' = popped
      /\ itemTags' = itemTags
  BY <1>3, <1>4 DEF ClearOp
<1>6. Lists(r, tagQueue, Clear(CutAt(queue, at)))
  <2>1. ListsTags(queue, et) /\ et \in [1..Cardinality(Tags(queue)) -> Tags(queue)]
    BY <1>3
  <2> QED
    BY ONLY <1>1, <1>2, <1>4, <2>1, ClearKeeps
<1>7. ListInv' /\ AbsStreams' = Clear(AbsStreams)
  BY <1>1, <1>2, <1>5, <1>6, MapsNext
<1>8. AbsStreams' = Abstract!Clear(AbsStreams) /\ popped' = popped
  BY <1>5, <1>7, AbstractOps
<1> QED
  BY <1>7, <1>8 DEF Abstract!SpecNext, Abstract!SpecChange

\* The empty list holds no stream.
LEMMA EmptyLists == Lists(<<>>, <<>>, <<>>) /\ Range(<<>>) = {}
<1>1. PICK e, t, at : e = <<>> /\ t = <<>> /\ at = [i \in 1..0 |-> 1]
  OBVIOUS
<1>2. /\ e \in Seq(Items) /\ Len(e) = 0 /\ t \in Seq(Ids) /\ Len(t) = 0
      /\ DOMAIN t = 1..0 /\ 1..0 = {} /\ DOMAIN at = 1..0
  BY <1>1
<1>3. IsInjective(t)
  BY <1>2 DEF IsInjective
<1>4. at \in [1..Len(t) -> 1..Len(e)]
  BY <1>1, <1>2
<1>5. Indexed(e, t, at)
  <2>1. e \in Seq(Items) /\ t \in Seq(Ids)
    BY <1>2
  <2>2. ~(e # <<>>) /\ \A i \in 1..Len(t) : FALSE
    BY <1>1, <1>2
  <2> QED
    BY ONLY <1>3, <1>4, <2>1, <2>2, IndexedIntro
<1>6. CutAt(e, at) = <<>>
  <2>1. PICK c : c = CutAt(e, at)
    OBVIOUS
  <2>2. c = [i \in 1..0 |-> StreamOf(e, Before(at, i), at[i])]
    BY <1>2, <2>1 DEF CutAt
  <2>3. c = <<>>
    BY <2>2
  <2> QED
    BY <2>1, <2>3
<1>7. Range(t) = {}
  BY <1>2 DEF Range
<1> QED
  BY <1>1, <1>2, <1>5, <1>6, <1>7 DEF Lists

\* close() leaves no stream.
LEMMA CloseStep ==
    ASSUME ListInv, CloseOp
    PROVE  ListInv' /\ Abstract!SpecNext
<1>1. /\ queue' = <<>> /\ tagQueue' = <<>> /\ itemTags' = {} /\ popped' = popped
  BY DEF CloseOp
<1>2. Lists(queue', tagQueue', <<>>) /\ itemTags' = Range(tagQueue')
  BY <1>1, EmptyLists
<1>3. ListInv' /\ AbsStreams' = <<>>
  BY <1>2, MapsNext
<1> QED
  BY <1>1, <1>3 DEF Abstract!SpecNext, Abstract!SpecChange

\* The tag that pop() looks at.
LEMMA FrontTag ==
    ASSUME ListInv, NEW at, Indexed(queue, tagQueue, at), tagQueue # <<>>
    PROVE  /\ Head(tagQueue) = tagQueue[1] /\ Pos(queue, Head(tagQueue)) = at[1]
           /\ queue[at[1]] \in Items /\ at[1] \in 1..Len(queue)
<1>1. queue \in Seq(Items) /\ tagQueue \in Seq(Ids)
  BY DEF ListInv
<1>2. Head(tagQueue) = tagQueue[1] /\ 1 \in 1..Len(tagQueue)
  BY <1>1
<1>3. Pos(queue, tagQueue[1]) = at[1]
  BY <1>1, <1>2, PosLemma
<1>4. at[1] \in 1..Len(queue)
  BY <1>1, <1>2, Places, SMTT(20)
<1> QED
  BY <1>1, <1>2, <1>3, <1>4

\* pop() of a stream that starts.
LEMMA PopStartStep ==
    ASSUME ListInv, PopStart
    PROVE  ListInv' /\ Abstract!SpecNext
<1>1. queue \in Seq(Items) /\ tagQueue \in Seq(Ids) /\ itemTags = Range(tagQueue)
  BY DEF ListInv
<1>2. PICK at : Indexed(queue, tagQueue, at) /\ AbsStreams = CutAt(queue, at)
  BY MapsNow
<1>3. tagQueue # <<>>
  BY DEF PopStart
<1>4. PICK r, x, c : /\ r = [queue EXCEPT ![at[1]].polling = 1]
                     /\ x = queue[at[1]] /\ c = CutAt(queue, at)
  OBVIOUS
<1>5. /\ queue' = r /\ tagQueue' = tagQueue /\ itemTags' = itemTags
      /\ x.type \in {"uncompleted", "completed"} /\ x.polling = 0
      /\ popped' = [type |-> "START", id |-> tagQueue[1], data |-> NoItem]
  BY <1>2, <1>3, <1>4, FrontTag DEF PopStart
<1>6. PopType(c) = "START" /\ c[1].id = tagQueue[1]
  BY <1>1, <1>2, <1>3, <1>4, <1>5, PopTypeOf
<1>7. Lists(r, tagQueue, Popped(CutAt(queue, at)))
  <2>1. queue[at[1]].type \in {"uncompleted", "completed"} /\ queue[at[1]].polling = 0
    BY <1>4, <1>5
  <2> QED
    BY ONLY <1>1, <1>2, <1>3, <1>4, <2>1, PopStartKeeps
<1>8. ListInv' /\ AbsStreams' = Popped(c)
  BY <1>1, <1>4, <1>5, <1>7, MapsNext
<1>9. popped' = Abstract!PopResult(c)
  BY <1>5, <1>6, AbstractOps DEF Abstract!PopResult, Abstract!NoItem, NoItem
<1>10. AbsStreams' = Abstract!Popped(AbsStreams) /\ popped' = Abstract!PopResult(AbsStreams)
  BY <1>2, <1>4, <1>8, <1>9, AbstractOps
<1> QED
  BY <1>8, <1>10 DEF Abstract!SpecNext, Abstract!SpecPop

\* pop() of data.
LEMMA PopDataStep ==
    ASSUME ListInv, PopData
    PROVE  ListInv' /\ Abstract!SpecNext
<1>1. queue \in Seq(Items) /\ tagQueue \in Seq(Ids) /\ itemTags = Range(tagQueue)
  BY DEF ListInv
<1>2. PICK at : Indexed(queue, tagQueue, at) /\ AbsStreams = CutAt(queue, at)
  BY MapsNow
<1>3. tagQueue # <<>>
  BY DEF PopData
<1>4. PICK r, x, c : r = Tail(queue) /\ x = queue[at[1]] /\ c = CutAt(queue, at)
  OBVIOUS
<1>5. /\ queue' = r /\ tagQueue' = tagQueue /\ itemTags' = itemTags
      /\ x.type \in {"uncompleted", "completed"} /\ x.polling = 1 /\ at[1] # 1
      /\ popped' = [type |-> "DATA", id |-> tagQueue[1], data |-> queue[1].content]
  BY <1>2, <1>3, <1>4, FrontTag DEF PopData
<1>6. PopType(c) = "DATA" /\ c[1].id = tagQueue[1]
  BY <1>1, <1>2, <1>3, <1>4, <1>5, PopTypeOf
<1>7. /\ Lists(r, tagQueue, Popped(CutAt(queue, at)))
      /\ Head(CutAt(queue, at)[1].data) = queue[1].content
  <2>1. /\ queue[at[1]].type \in {"uncompleted", "completed"}
        /\ queue[at[1]].polling = 1 /\ at[1] # 1
    BY <1>4, <1>5
  <2> QED
    BY ONLY <1>1, <1>2, <1>3, <1>4, <2>1, PopDataKeeps
<1>8. ListInv' /\ AbsStreams' = Popped(c)
  BY <1>1, <1>4, <1>5, <1>7, MapsNext
<1>9. popped' = Abstract!PopResult(c)
  BY <1>4, <1>5, <1>6, <1>7, AbstractOps DEF Abstract!PopResult
<1>10. AbsStreams' = Abstract!Popped(AbsStreams) /\ popped' = Abstract!PopResult(AbsStreams)
  BY <1>2, <1>4, <1>8, <1>9, AbstractOps
<1> QED
  BY <1>8, <1>10 DEF Abstract!SpecNext, Abstract!SpecPop

\* pop() with nothing to hand out.
LEMMA PopEmptyStep ==
    ASSUME ListInv, PopEmpty
    PROVE  ListInv' /\ Abstract!SpecNext
<1>1. queue \in Seq(Items) /\ tagQueue \in Seq(Ids) /\ itemTags = Range(tagQueue)
  BY DEF ListInv
<1>2. PICK at : Indexed(queue, tagQueue, at) /\ AbsStreams = CutAt(queue, at)
  BY MapsNow
<1>3. PICK x, c : x = queue[at[1]] /\ c = CutAt(queue, at)
  OBVIOUS
<1>4. /\ queue' = queue /\ tagQueue' = tagQueue /\ itemTags' = itemTags
      /\ popped' = Nothing
  BY DEF PopEmpty
<1>5. PopType(c) = "EMPTY"
  <2>1. CASE tagQueue = <<>>
    BY <1>1, <1>2, <1>3, <2>1, PopTypeOf
  <2>2. CASE tagQueue # <<>>
    <3>1. x.type = "uncompleted" /\ x.polling = 1 /\ at[1] = 1
      BY <1>2, <1>3, <2>2, FrontTag DEF PopEmpty
    <3> QED
      BY <1>1, <1>2, <1>3, <2>2, <3>1, PopTypeOf
  <2> QED
    BY <2>1, <2>2
<1>6. ListInv' /\ AbsStreams' = AbsStreams
  BY <1>4 DEF ListInv, AbsStreams
<1>7. Popped(c) = c
  BY <1>5 DEF Popped
<1>8. popped' = Abstract!PopResult(c)
  BY <1>4, <1>5, AbstractOps DEF Abstract!PopResult
<1>9. AbsStreams' = Abstract!Popped(AbsStreams) /\ popped' = Abstract!PopResult(AbsStreams)
  BY <1>2, <1>3, <1>6, <1>7, <1>8, AbstractOps
<1> QED
  BY <1>6, <1>9 DEF Abstract!SpecNext, Abstract!SpecPop

\* pop() of a tag: the END of a completed stream, REMOVED or ERROR of an
\* erased one.
LEMMA PopTagStep ==
    ASSUME ListInv, NEW type \in {"END", "REMOVED", "ERROR"},
           NEW at, Indexed(queue, tagQueue, at), AbsStreams = CutAt(queue, at),
           tagQueue # <<>>, at[1] = 1, PopType(CutAt(queue, at)) = type,
           PopFrontTag(type, tagQueue[1])
    PROVE  ListInv' /\ Abstract!SpecNext
<1>1. queue \in Seq(Items) /\ tagQueue \in Seq(Ids) /\ itemTags = Range(tagQueue)
  BY DEF ListInv
<1>2. PICK r, st, c : r = Tail(queue) /\ st = Tail(tagQueue) /\ c = CutAt(queue, at)
  OBVIOUS
<1>3. /\ queue' = r /\ tagQueue' = st /\ itemTags' = itemTags \ {tagQueue[1]}
      /\ popped' = [type |-> type, id |-> tagQueue[1], data |-> NoItem]
  BY <1>2 DEF PopFrontTag
<1>4. Lists(r, st, Tail(CutAt(queue, at)))
  BY ONLY Indexed(queue, tagQueue, at), tagQueue # <<>>, at[1] = 1, <1>1, <1>2,
          PopFrontKeeps
<1>5. Range(st) = itemTags \ {tagQueue[1]}
  <2>1. /\ Len(tagQueue) \in Nat /\ Len(tagQueue) # 0
        /\ DOMAIN tagQueue = 1..Len(tagQueue)
        /\ DOMAIN st = 1..(Len(tagQueue) - 1)
        /\ \A i \in 1..(Len(tagQueue) - 1) : st[i] = tagQueue[i + 1]
    BY <1>1, <1>2
  <2>2. \A i, j \in 1..Len(tagQueue) : tagQueue[i] = tagQueue[j] => i = j
    BY <2>1 DEF Indexed, IsInjective
  <2>3. \A i \in 1..(Len(tagQueue) - 1) : i + 1 \in 1..Len(tagQueue) /\ i + 1 # 1
    BY <2>1
  <2>4. \A j \in 1..Len(tagQueue) : j = 1 \/ /\ j - 1 \in 1..(Len(tagQueue) - 1)
                                             /\ (j - 1) + 1 = j
    BY <2>1
  <2>5. 1 \in 1..Len(tagQueue)
    BY <2>1
  <2>6. ASSUME NEW y \in Range(st)
        PROVE  y \in Range(tagQueue) \ {tagQueue[1]}
    <3>1. PICK i \in 1..(Len(tagQueue) - 1) : y = st[i]
      BY <2>1 DEF Range
    <3>2. y = tagQueue[i + 1] /\ i + 1 \in 1..Len(tagQueue) /\ i + 1 # 1
      BY <2>1, <2>3, <3>1
    <3>3. y # tagQueue[1]
      BY <2>2, <2>5, <3>2
    <3> QED
      BY <2>1, <3>2, <3>3 DEF Range
  <2>7. ASSUME NEW y \in Range(tagQueue) \ {tagQueue[1]}
        PROVE  y \in Range(st)
    <3>1. PICK j \in 1..Len(tagQueue) : y = tagQueue[j]
      BY <2>1 DEF Range
    <3>2. j - 1 \in 1..(Len(tagQueue) - 1) /\ (j - 1) + 1 = j
      BY <2>4, <2>7, <3>1
    <3>3. st[j - 1] = y
      BY <2>1, <3>1, <3>2
    <3> QED
      BY <2>1, <3>2, <3>3 DEF Range
  <2> QED
    BY <1>1, <2>6, <2>7
<1>6. ListInv' /\ AbsStreams' = Tail(c)
  BY <1>2, <1>3, <1>4, <1>5, MapsNext
<1>7. c[1].id = tagQueue[1] /\ PopType(c) = type
  BY <1>1, <1>2, PopTypeOf
<1>8. Popped(c) = Tail(c)
  BY <1>7 DEF Popped
<1>9. popped' = Abstract!PopResult(c)
  BY <1>3, <1>7, AbstractOps DEF Abstract!PopResult, Abstract!NoItem, NoItem
<1>10. AbsStreams' = Abstract!Popped(AbsStreams) /\ popped' = Abstract!PopResult(AbsStreams)
  BY <1>2, <1>6, <1>8, <1>9, AbstractOps
<1> QED
  BY <1>6, <1>10 DEF Abstract!SpecNext, Abstract!SpecPop

LEMMA PopEndStep ==
    ASSUME ListInv, PopEnd
    PROVE  ListInv' /\ Abstract!SpecNext
<1>1. queue \in Seq(Items) /\ tagQueue \in Seq(Ids)
  BY DEF ListInv
<1>2. PICK at : Indexed(queue, tagQueue, at) /\ AbsStreams = CutAt(queue, at)
  BY MapsNow
<1>3. tagQueue # <<>>
  BY DEF PopEnd
<1>4. PICK x, c : x = queue[at[1]] /\ c = CutAt(queue, at)
  OBVIOUS
<1>5. /\ x.type = "completed" /\ x.polling = 1 /\ at[1] = 1
      /\ PopFrontTag("END", tagQueue[1])
  BY <1>2, <1>3, <1>4, FrontTag DEF PopEnd
<1>6. PopType(c) = "END"
  BY <1>1, <1>2, <1>3, <1>4, <1>5, PopTypeOf
<1> QED
  BY <1>2, <1>3, <1>4, <1>5, <1>6, PopTagStep

LEMMA PopErasedStep ==
    ASSUME ListInv, PopErased
    PROVE  ListInv' /\ Abstract!SpecNext
<1>1. queue \in Seq(Items) /\ tagQueue \in Seq(Ids)
  BY DEF ListInv
<1>2. PICK at : Indexed(queue, tagQueue, at) /\ AbsStreams = CutAt(queue, at)
  BY MapsNow
<1>3. tagQueue # <<>>
  BY DEF PopErased
<1>4. PICK x, c : x = queue[at[1]] /\ c = CutAt(queue, at)
  OBVIOUS
<1>5. \/ x.type = "deleted" /\ PopFrontTag("REMOVED", tagQueue[1])
      \/ x.type = "error" /\ PopFrontTag("ERROR", tagQueue[1])
  BY <1>2, <1>3, <1>4, FrontTag DEF PopErased
<1>6. CASE x.type = "deleted" /\ PopFrontTag("REMOVED", tagQueue[1])
  <2>1. PopType(c) = "REMOVED" /\ at[1] = 1
    BY <1>1, <1>2, <1>3, <1>4, <1>6, PopTypeOf
  <2> QED
    BY <1>2, <1>3, <1>4, <1>6, <2>1, PopTagStep
<1>7. CASE x.type = "error" /\ PopFrontTag("ERROR", tagQueue[1])
  <2>1. PopType(c) = "ERROR" /\ at[1] = 1
    BY <1>1, <1>2, <1>3, <1>4, <1>7, PopTypeOf
  <2> QED
    BY <1>2, <1>3, <1>4, <1>7, <2>1, PopTagStep
<1> QED
  BY <1>5, <1>6, <1>7

-----------------------------------------------------------------------------
\* The invariant holds at the start, where there is no stream.
LEMMA ListInvInit ==
    ASSUME Init
    PROVE  ListInv /\ Abstract!SpecInit
<1>1. queue = <<>> /\ tagQueue = <<>> /\ itemTags = {} /\ popped = Nothing
  BY DEF Init
<1>2. ListInv
  BY <1>1, EmptyLists DEF ListInv, Lists
<1>3. AbsStreams = <<>>
  <2>1. PICK c, t : c = AbsStreams /\ t = tagQueue
    OBVIOUS
  <2>2. DOMAIN t = {}
    BY <1>1, <2>1
  <2>3. c = [i \in {} |-> StreamAt(queue, Pos(queue, tagQueue[i]))]
    BY <2>1, <2>2 DEF AbsStreams
  <2>4. c = <<>>
    BY <2>3
  <2> QED
    BY <2>1, <2>4
<1> QED
  BY <1>1, <1>2, <1>3, AbstractOps DEF Abstract!SpecInit

\* Every operation keeps it and is a step of the queue of streams.
LEMMA ListInvNext ==
    ASSUME ListInv, [Next]_vars
    PROVE  ListInv' /\ [Abstract!SpecNext]_(Abstract!specVars)
<1>1. ASSUME NEW id \in Ids, StartOp(id)
      PROVE  ListInv' /\ Abstract!SpecNext
  BY <1>1, StartStep
<1>2. ASSUME NEW id \in Ids, NEW d \in Data, StreamOp(id, d)
      PROVE  ListInv' /\ Abstract!SpecNext
  BY <1>2, StreamStep
<1>3. ASSUME NEW id \in Ids, EndOp(id)
      PROVE  ListInv' /\ Abstract!SpecNext
  BY <1>3, EndStep
<1>4. ASSUME NEW id \in Ids, EraseOp(id, "deleted") \/ EraseOp(id, "error")
      PROVE  ListInv' /\ Abstract!SpecNext
  BY <1>4, EraseStep
<1>5. CASE ClearOp
  BY <1>5, ClearStep
<1>6. CASE CloseOp
  BY <1>6, CloseStep
<1>7. CASE PopEmpty
  BY <1>7, PopEmptyStep
<1>8. CASE PopStart
  BY <1>8, PopStartStep
<1>9. CASE PopEnd
  BY <1>9, PopEndStep
<1>10. CASE PopData
  BY <1>10, PopDataStep
<1>11. CASE PopErased
  BY <1>11, PopErasedStep
<1>12. CASE UNCHANGED vars
  BY <1>12 DEF vars, ListInv, AbsStreams, Abstract!specVars
<1> QED
  BY <1>1, <1>2, <1>3, <1>4, <1>5, <1>6, <1>7, <1>8, <1>9, <1>10, <1>11, <1>12
  DEF Next

\* The invariant has the index in it.
LEMMA ListInvAgrees ==
    ASSUME ListInv
    PROVE  IndexAgrees
<1>1. PICK at : Indexed(queue, tagQueue, at)
  BY DEF ListInv
<1>2. queue # <<>> => IsTag(Last(queue))
  BY <1>1 DEF Indexed, Last
<1>3. \E bt \in [DOMAIN tagQueue -> DOMAIN queue] :
        /\ ListsTags(queue, bt)
        /\ \A i \in DOMAIN tagQueue : queue[bt[i]].id = tagQueue[i]
  BY <1>1 DEF Indexed
<1> QED
  BY <1>1, <1>2, <1>3 DEF IndexAgrees, ListInv, Indexed

\* Whatever ids, data and lists there are: the tags of the list are the
\* iterators of tag_queue_, in order, and item_tags_ has their ids.
THEOREM IndexHolds == Spec => []IndexAgrees
<1>1. Init => ListInv
  BY ListInvInit
<1>2. ListInv /\ [Next]_vars => ListInv'
  BY ListInvNext
<1>3. ListInv => IndexAgrees
  BY ListInvAgrees
<1> QED
  BY <1>1, <1>2, <1>3, PTL DEF Spec

\* The flat list implements the queue of streams.
THEOREM ListImplementsStreams == Spec => ImplementsStreams
<1>1. Init => ListInv /\ Abstract!SpecInit
  BY ListInvInit
<1>2. ListInv /\ [Next]_vars => ListInv' /\ [Abstract!SpecNext]_(Abstract!specVars)
  BY ListInvNext
<1> QED
  BY <1>1, <1>2, PTL DEF Spec, ImplementsStreams, Abstract!SpecSpec
=============================================================================

---------------------------- MODULE BindingProofs ----------------------------
(***************************************************************************)
(* QuietAfterRelease, DeletedAlone and Delivered of Binding for any poll   *)
(* threads, callers, sessions, requests and results.                       *)
(***************************************************************************)
EXTENDS BindingInvariant, FiniteSetTheorems, TLAPS

Places == {"none", "poll", "leave", "done", "get", "invoke", "remove"}

\* The part of ThreadTypes that is about the poll threads.
PollersTyped ==
    /\ poller = [p \in Pollers |-> poller[p]]
    /\ \A p \in Pollers : poller[p].pc \in Places

\* A poll thread that goes from one place to another.
Goes(p, r) ==
    /\ p \in Pollers /\ r.pc \in Places
    /\ poller' = [poller EXCEPT ![p] = r]

\* The poll threads that run after one of them has moved.
LEMMA LiveMoves ==
    ASSUME PollersTyped, NEW p, NEW r, Goes(p, r)
    PROVE  /\ PollersTyped'
           /\ Live' = IF r.pc \in {"none", "done"} THEN Live \ {p}
                      ELSE Live \cup {p}
<1>1. /\ poller' = [q \in Pollers |-> IF q = p THEN r ELSE poller[q]]
      /\ p \in Pollers /\ r.pc \in Places
  BY DEF Goes, PollersTyped
<1>2. \A q \in Pollers : poller'[q] = IF q = p THEN r ELSE poller[q]
  BY <1>1
<1>3. PollersTyped'
  BY <1>1, <1>2 DEF PollersTyped
<1> QED
  BY <1>1, <1>2, <1>3 DEF Live

\* What Next does to the poll threads and the references: nothing, a new thread
\* with a reference, a thread that leaves and gives its own up, or one that
\* moves on.
Rests == Live' = Live /\ refs' = refs /\ PollersTyped'
Starts ==
    /\ handle' \notin Live /\ handle' \in Pollers
    /\ Live' = Live \cup {handle'} /\ refs' = refs + 1 /\ PollersTyped'
Ends ==
    \E p \in Live : Live' = Live \ {p} /\ refs' = refs - 1 /\ PollersTyped'

\* Prepare starts a thread.
LEMMA PrepareStarts == PollersTyped /\ Prepare => Starts
<1> SUFFICES ASSUME PollersTyped, Prepare PROVE Starts
  OBVIOUS
<1>1. handle' \in Pollers /\ poller[handle'].pc = "none"
  BY DEF Prepare
<1>2. PICK r : r = [pc |-> "poll"]
  OBVIOUS
<1>3. Goes(handle', r) /\ r.pc = "poll"
  BY <1>1, <1>2 DEF Prepare, Goes, Places
<1>4. handle' \notin Live
  BY <1>1 DEF Live
<1> QED
  BY <1>1, <1>3, <1>4, LiveMoves DEF Starts, Prepare, NewGlobalRef

\* Leave ends one.
LEMMA LeaveEnds ==
    ASSUME PollersTyped, NEW p \in Pollers, Leave(p)
    PROVE  Ends
<1>1. PICK r : r = [pc |-> "done"]
  OBVIOUS
<1>2. Goes(p, r) /\ r.pc = "done"
  BY <1>1 DEF Leave, Goes, Places
<1>3. p \in Live
  BY DEF Leave, Live
<1> QED
  BY <1>2, <1>3, LiveMoves DEF Ends, Leave

\* In the other steps of a poll thread it runs on.
LEMMA PollerRests ==
    ASSUME PollersTyped, NEW p \in Pollers,
           Poll(p) \/ GetCallback(p) \/ Invoke(p) \/ RemoveCallback(p)
    PROVE  /\ Rests
           /\ UNCHANGED <<open, handle, control, caller, lock, object,
                          doubled>>
<1>1. p \in Live
  BY DEF Poll, GetCallback, Invoke, RemoveCallback, Live
<1>2. \E r : Goes(p, r) /\ r.pc \notin {"none", "done"}
  <2>1. CASE Poll(p)
    BY <2>1 DEF Poll, Goes, Places
  <2>2. CASE GetCallback(p)
    <3>1. CASE poller[p].res.req.id \in DOMAIN callbacks
      <4>1. PICK r : r = [pc |-> "invoke", res |-> poller[p].res,
                          cb |-> callbacks[poller[p].res.req.id]]
        OBVIOUS
      <4>2. r.pc = "invoke" /\ poller' = [poller EXCEPT ![p] = r]
        BY <2>2, <3>1, <4>1 DEF GetCallback
      <4> QED
        BY <4>2 DEF Goes, Places
    <3>2. CASE poller[p].res.req.id \notin DOMAIN callbacks
      <4>1. PICK r : r = [pc |-> "poll"]
        OBVIOUS
      <4>2. r.pc = "poll" /\ poller' = [poller EXCEPT ![p] = r]
        BY <2>2, <3>2, <4>1 DEF GetCallback
      <4> QED
        BY <4>2 DEF Goes, Places
    <3> QED
      BY <3>1, <3>2
  <2>3. CASE Invoke(p)
    BY <2>3 DEF Invoke, Goes, Places
  <2>4. CASE RemoveCallback(p)
    <3>1. PICK r : r = [pc |-> "poll"]
      OBVIOUS
    <3>2. r.pc = "poll" /\ poller' = [poller EXCEPT ![p] = r]
      BY <2>4, <3>1 DEF RemoveCallback
    <3> QED
      BY <3>2 DEF Goes, Places
  <2> QED
    BY <2>1, <2>2, <2>3, <2>4
<1>3. refs' = refs
  BY DEF Poll, GetCallback, Invoke, RemoveCallback
<1>4. UNCHANGED <<open, handle, control, caller, lock, object, doubled>>
  BY DEF Poll, GetCallback, Invoke, RemoveCallback, sdk, java
<1> QED
  BY <1>1, <1>2, <1>3, <1>4, LiveMoves DEF Rests

\* A step that leaves the poll threads and the references alone.
LEMMA Untouched ==
    PollersTyped /\ UNCHANGED <<poller, refs>> => Rests
  BY DEF PollersTyped, Live, Rests

\* Every step is one of the three.
LEMMA ThreadStep == PollersTyped /\ [Next]_vars => Rests \/ Starts \/ Ends
<1> SUFFICES ASSUME PollersTyped, [Next]_vars PROVE Rests \/ Starts \/ Ends
  OBVIOUS
<1>1. CASE ReleaseNative \/ Join \/ Drop \/ Delete \/ NativeResult
  BY <1>1, Untouched DEF ReleaseNative, Join, Drop, Delete, NativeResult
<1>2. CASE \E c \in Callers : PutNative(c) \/ PutCallback(c)
  BY <1>2, Untouched DEF PutNative, PutCallback
<1>3. CASE ReleaseNotifies \/ \E p \in Pollers : PollSleeps(p) \/ SpuriousWakeup(p)
  BY <1>3, Untouched DEF ReleaseNotifies, PollSleeps, SpuriousWakeup
<1>4. CASE UNCHANGED vars
  BY <1>4, Untouched DEF vars
<1> QED
  BY <1>1, <1>2, <1>3, <1>4, PrepareStarts, LeaveEnds, PollerRests DEF Next

\* refs counts the threads that run.
LEMMA CountStep == RefsCount /\ (Rests \/ Starts \/ Ends) => RefsCount'
<1> SUFFICES ASSUME RefsCount, Rests \/ Starts \/ Ends PROVE RefsCount'
  OBVIOUS
<1>1. /\ IsFiniteSet(Live) /\ refs = Cardinality(Live)
      /\ Cardinality(Live) \in Nat
  BY FS_CardinalityType DEF RefsCount
<1>2. CASE Rests
  BY <1>1, <1>2 DEF Rests, RefsCount
<1>3. CASE Starts
  <2>1. /\ IsFiniteSet(Live \cup {handle'})
        /\ Cardinality(Live \cup {handle'}) = Cardinality(Live) + 1
    BY <1>1, <1>3, FS_AddElement DEF Starts
  <2> QED
    BY <1>1, <1>3, <2>1 DEF Starts, RefsCount
<1>4. CASE Ends
  <2>1. PICK p \in Live : Live' = Live \ {p} /\ refs' = refs - 1
    BY <1>4 DEF Ends
  <2>2. /\ IsFiniteSet(Live \ {p})
        /\ Cardinality(Live \ {p}) = Cardinality(Live) - 1
    BY <1>1, <2>1, FS_RemoveElement
  <2> QED
    BY <1>1, <2>1, <2>2 DEF RefsCount
<1> QED
  BY <1>2, <1>3, <1>4

\* Without a reference no poll thread runs.
LEMMA NoRefs == RefsCount /\ refs = 0 => Live = {}
  BY FS_EmptySet DEF RefsCount

-----------------------------------------------------------------------------
(* The inductive invariant.                                                *)

\* IInv holds initially.
LEMMA InvariantInit == Init => IInv
<1> SUFFICES ASSUME Init PROVE IInv
  OBVIOUS
<1>1. \A p \in Pollers : poller[p].pc = "none"
  BY DEF Init
<1>2. Live = {}
  BY <1>1 DEF Live
<1>3. RefsCount
  BY <1>2, FS_EmptySet DEF Init, RefsCount
<1>4. ThreadTypes
  BY <1>1 DEF Init, ThreadTypes
<1> QED
  BY <1>2, <1>3, <1>4
     DEF Init, IInv, HandleFollows, LockFollows, ObjectFollows

\* Every step keeps IInv.
LEMMA InvariantStep == IInv /\ [Next]_vars => IInv'
<1> SUFFICES ASSUME IInv, [Next]_vars PROVE IInv'
  OBVIOUS
<1>1. ThreadTypes /\ PollersTyped /\ RefsCount
  BY DEF IInv, ThreadTypes, PollersTyped, Places
<1>2. Rests \/ Starts \/ Ends
  BY <1>1, ThreadStep
<1>3. RefsCount' /\ PollersTyped'
  BY <1>1, <1>2, CountStep DEF Rests, Starts, Ends
<1>4. /\ refs = 0 => Live = {}
      /\ Live \subseteq Pollers /\ NoOne \notin Pollers
  BY <1>1, NoRefs, NullAssumption DEF Live
<1> DEFINE Rest == /\ caller' = [c \in Callers |-> caller'[c]]
                   /\ handle' \in Pollers \cup {NoOne}
                   /\ control' \in {"idle", "release", "hung", "join", "delete"}
                   /\ object' \in {"used", "dropped", "deleted"}
                   /\ open' \in BOOLEAN /\ doubled' \in BOOLEAN
                   /\ HandleFollows' /\ LockFollows' /\ ObjectFollows'
<1> USE DEF ThreadTypes, HandleFollows, LockFollows, ObjectFollows, IInv
<1>5. ASSUME Prepare PROVE Rest
  <2>1. Starts
    BY <1>1, <1>5, PrepareStarts
  <2>2. open' = TRUE /\ control' = control /\ lock' = lock
        /\ caller' = caller /\ object' = object /\ object = "used"
        /\ control = "idle" /\ doubled' = (doubled \/ open)
    BY <1>5 DEF Prepare, java
  <2> QED
    BY <1>4, <2>1, <2>2 DEF Starts
<1>6. ASSUME ReleaseNative PROVE Rest
  BY <1>1, <1>4, <1>6, Untouched
     DEF ReleaseNative, AfterRelease, ReleaseLock, Rests
<1>7. ASSUME Join PROVE Rest
  <2>1. handle \notin Live
    BY <1>7 DEF Join, Live
  <2> QED
    BY <1>1, <1>4, <1>7, <2>1, Untouched DEF Join, Rests, sdk, java
<1>8. ASSUME Drop PROVE Rest
  BY <1>1, <1>4, <1>8, Untouched DEF Drop, Rests, sdk, java
<1>9. ASSUME Delete PROVE Rest
  BY <1>1, <1>4, <1>9, Untouched DEF Delete, Rests, sdk, java
<1>10. ASSUME NativeResult PROVE Rest
  BY <1>1, <1>4, <1>10, Untouched DEF NativeResult, Rests, java
<1>11. ASSUME NEW c \in Callers, PutNative(c) PROVE Rest
  BY <1>1, <1>4, <1>11, Untouched DEF PutNative, Synchronized, Rests
<1>12. ASSUME NEW c \in Callers, PutCallback(c) PROVE Rest
  BY <1>1, <1>4, <1>12, Untouched DEF PutCallback, Rests, sdk
<1>13. ASSUME NEW p \in Pollers, Leave(p) PROVE Rest
  BY <1>1, <1>4, <1>13, LeaveEnds DEF Leave, Ends, sdk, java
<1>14. ASSUME NEW p \in Pollers,
              Poll(p) \/ GetCallback(p) \/ Invoke(p) \/ RemoveCallback(p)
       PROVE  Rest
  BY <1>1, <1>4, <1>14, PollerRests DEF Rests
<1>15. ASSUME UNCHANGED vars PROVE Rest
  BY <1>1, <1>4, <1>15, Untouched DEF vars, Rests, sdk, java
<1>16. ASSUME ReleaseNotifies PROVE Rest
  BY <1>1, <1>4, <1>16, Untouched DEF ReleaseNotifies, AfterRelease, Rests, sdk, java
<1>17. ASSUME NEW p \in Pollers, PollSleeps(p) \/ SpuriousWakeup(p) PROVE Rest
  BY <1>1, <1>4, <1>17, Untouched DEF PollSleeps, SpuriousWakeup, Rests, sdk, java
<1>18. Rest
  BY <1>5, <1>6, <1>7, <1>8, <1>9, <1>10, <1>11, <1>12, <1>13, <1>14, <1>15, <1>16, <1>17
     DEF Next
<1> QED
  BY <1>3, <1>18 DEF PollersTyped, Places

\* The inductive invariant holds in every reachable state.
THEOREM InvariantHolds == Spec => []IInv
  BY InvariantInit, InvariantStep, PTL DEF Spec

\* QuietAfterRelease: once release() has returned, no callback runs, unless a
\* prepare() too many left a poll thread that it does not join.
THEOREM QuietAfterReleaseHolds == Spec => []QuietAfterRelease
<1>1. IInv => QuietAfterRelease
  BY NullAssumption DEF IInv, HandleFollows, QuietAfterRelease, Live
<1> QED
  BY <1>1, InvariantHolds, PTL

\* DeletedAlone: finalize() deletes what no poll thread uses any more, a
\* prepare() too many or not.
THEOREM DeletedAloneHolds == Spec => []DeletedAlone
<1>1. IInv => DeletedAlone
  BY NoRefs DEF IInv, HandleFollows, LockFollows, ObjectFollows, DeletedAlone,
     Live
<1> QED
  BY <1>1, InvariantHolds, PTL

-----------------------------------------------------------------------------
(* The results of one request in a sequence.                               *)

\* No result.
LEMMA CarriesNone ==
    ASSUME NEW r, NEW a \in Nat
    PROVE  Carries(<<>>, r, a, a)
  BY DEF Carries

\* A single result, of r or of another request.
LEMMA CarriesOne ==
    ASSUME NEW x, NEW r, NEW a \in Nat, NEW b \in Nat, a <= b
    PROVE  /\ Carries(<<x>>, r, a, b) /\ x.req = r => x.n = a + 1 /\ b = a + 1
           /\ Carries(<<x>>, r, a, b) /\ x.req # r => b = a
           /\ x.req = r /\ x.n = a + 1 => Carries(<<x>>, r, a, a + 1)
           /\ x.req # r => Carries(<<x>>, r, a, a)
<1>1. PICK s : s = <<x>>
  OBVIOUS
<1>2. DOMAIN s = {1} /\ s[1] = x
  BY <1>1
<1>3. ASSUME Carries(s, r, a, b), x.req = r
      PROVE  x.n = a + 1 /\ b = a + 1
  <2>1. \A n \in (a + 1) .. b : n = x.n
    BY <1>2, <1>3 DEF Carries
  <2>2. x.n \in (a + 1) .. b
    BY <1>2, <1>3 DEF Carries
  <2>3. a + 1 \in (a + 1) .. b /\ b \in (a + 1) .. b
    BY <2>2
  <2> QED
    BY <2>1, <2>3
<1>4. ASSUME Carries(s, r, a, b), x.req # r
      PROVE  b = a
  <2>1. \A n \in (a + 1) .. b : FALSE
    BY <1>2, <1>4 DEF Carries
  <2> QED
    BY <2>1
<1>5. x.req = r /\ x.n = a + 1 => Carries(s, r, a, a + 1)
  BY <1>2 DEF Carries
<1>6. x.req # r => Carries(s, r, a, a)
  BY <1>2 DEF Carries
<1> QED
  BY <1>1, <1>3, <1>4, <1>5, <1>6

\* One more result behind.
LEMMA CarriesAppend ==
    ASSUME NEW S, NEW s \in Seq(S), NEW x \in S, NEW r, NEW a \in Nat, NEW b \in Nat,
           a <= b, Carries(s, r, a, b), NEW t, t = Append(s, x)
    PROVE  /\ x.req = r /\ x.n = b + 1 => Carries(t, r, a, b + 1)
           /\ x.req # r => Carries(t, r, a, b)
<1>1. PICK l \in Nat : l = Len(s)
  OBVIOUS
<1>2. /\ DOMAIN s = 1 .. l /\ DOMAIN t = 1 .. (l + 1) /\ t[l + 1] = x
      /\ \A i \in 1 .. l : t[i] = s[i]
  BY <1>1
<1>3. \A i \in 1 .. (l + 1) : i = l + 1 \/ i \in 1 .. l
  OBVIOUS
<1>4. /\ \A i \in 1 .. l : s[i].req = r => s[i].n \in (a + 1) .. b
      /\ \A n \in (a + 1) .. b : \E i \in 1 .. l : s[i].req = r /\ s[i].n = n
      /\ \A i, j \in 1 .. l :
            i < j /\ s[i].req = r /\ s[j].req = r => s[i].n < s[j].n
  BY <1>2 DEF Carries
<1>5. ASSUME x.req = r, x.n = b + 1
      PROVE  Carries(t, r, a, b + 1)
  <2>1. ASSUME NEW i \in 1 .. (l + 1), t[i].req = r
        PROVE  t[i].n \in (a + 1) .. (b + 1)
    <3>1. CASE i = l + 1
      BY <1>2, <1>5, <3>1
    <3>2. CASE i \in 1 .. l
      <4>1. PICK n : n = t[i].n
        OBVIOUS
      <4>2. n \in (a + 1) .. b
        BY <1>2, <1>4, <2>1, <3>2, <4>1
      <4>3. n \in (a + 1) .. (b + 1)
        BY <4>2
      <4> QED
        BY <4>1, <4>3
    <3> QED
      BY <1>3, <3>1, <3>2
  <2>2. ASSUME NEW n \in (a + 1) .. (b + 1)
        PROVE  \E i \in 1 .. (l + 1) : t[i].req = r /\ t[i].n = n
    <3>1. CASE n = b + 1
      <4>1. l + 1 \in 1 .. (l + 1)
        OBVIOUS
      <4> QED
        BY <1>2, <1>5, <3>1, <4>1
    <3>2. CASE n \in (a + 1) .. b
      <4>1. PICK i \in 1 .. l : s[i].req = r /\ s[i].n = n
        BY <1>4, <3>2
      <4>2. i \in 1 .. (l + 1) /\ t[i] = s[i]
        BY <1>2
      <4> QED
        BY <4>1, <4>2
    <3>3. n = b + 1 \/ n \in (a + 1) .. b
      OBVIOUS
    <3> QED
      BY <3>1, <3>2, <3>3
  <2>3. ASSUME NEW i \in 1 .. (l + 1), NEW j \in 1 .. (l + 1), i < j,
               t[i].req = r, t[j].req = r
        PROVE  t[i].n < t[j].n
    <3>1. i \in 1 .. l /\ t[i] = s[i] /\ s[i].n \in (a + 1) .. b
      BY <1>2, <1>4, <2>3
    <3>2. CASE j = l + 1
      BY <1>2, <1>5, <3>1, <3>2
    <3>3. CASE j \in 1 .. l
      BY <1>2, <1>4, <2>3, <3>1, <3>3
    <3> QED
      BY <1>3, <3>2, <3>3
  <2> QED
    BY <1>2, <2>1, <2>2, <2>3 DEF Carries
<1>6. ASSUME x.req # r
      PROVE  Carries(t, r, a, b)
  <2>1. \A i \in 1 .. (l + 1) : t[i].req = r => i \in 1 .. l /\ t[i] = s[i]
    BY <1>2, <1>3, <1>6
  <2>2. \A i \in 1 .. l : i \in 1 .. (l + 1) /\ t[i] = s[i]
    BY <1>2
  <2>3. \A i \in 1 .. (l + 1) : t[i].req = r => t[i].n \in (a + 1) .. b
    BY <1>4, <2>1
  <2>4. \A n \in (a + 1) .. b : \E i \in 1 .. (l + 1) : t[i].req = r /\ t[i].n = n
    BY <1>4, <2>2
  <2>5. \A i, j \in 1 .. (l + 1) :
            i < j /\ t[i].req = r /\ t[j].req = r => t[i].n < t[j].n
    BY <1>4, <2>1
  <2> QED
    BY <1>2, <2>3, <2>4, <2>5 DEF Carries
<1> QED
  BY <1>5, <1>6

\* What follows x in a sequence that carries the results of r from a to b.
CarriesOn(t, x, r, a, b) ==
    /\ x.req = r => x.n = a + 1 /\ a + 1 <= b /\ Carries(t, r, a + 1, b)
    /\ x.req # r => Carries(t, r, a, b)

\* The first result taken away.
LEMMA CarriesTail ==
    ASSUME NEW S, NEW s \in Seq(S), s # <<>>, NEW r, NEW a \in Nat, NEW b \in Nat,
           a <= b, Carries(s, r, a, b), NEW t, t = Tail(s), NEW x, x = Head(s)
    PROVE  CarriesOn(t, x, r, a, b)
<1>1. PICK l \in Nat : l + 1 = Len(s)
  <2>1. Len(s) \in Nat /\ Len(s) # 0
    OBVIOUS
  <2> QED
    BY <2>1
<1>2. /\ DOMAIN s = 1 .. (l + 1) /\ DOMAIN t = 1 .. l /\ x = s[1]
      /\ \A i \in 1 .. l : t[i] = s[i + 1] /\ i + 1 \in 1 .. (l + 1)
  BY <1>1
<1>3. /\ 1 \in 1 .. (l + 1)
      /\ \A i \in 1 .. (l + 1) : i = 1 \/ (i - 1 \in 1 .. l /\ 1 < i /\ (i - 1) + 1 = i)
  OBVIOUS
<1>4. /\ \A i \in 1 .. (l + 1) : s[i].req = r => s[i].n \in (a + 1) .. b
      /\ \A n \in (a + 1) .. b : \E i \in 1 .. (l + 1) : s[i].req = r /\ s[i].n = n
      /\ \A i, j \in 1 .. (l + 1) :
            i < j /\ s[i].req = r /\ s[j].req = r => s[i].n < s[j].n
  BY <1>2 DEF Carries
<1>5. \A i, j \in 1 .. l : i < j /\ t[i].req = r /\ t[j].req = r => t[i].n < t[j].n
  BY <1>2, <1>4
<1>6. ASSUME x.req = r
      PROVE  x.n = a + 1 /\ a + 1 <= b /\ Carries(t, r, a + 1, b)
  <2>1. x.n \in (a + 1) .. b
    BY <1>2, <1>3, <1>4, <1>6
  <2>2. a + 1 <= b /\ a + 1 \in (a + 1) .. b
    BY <2>1
  <2>3. PICK i \in 1 .. (l + 1) : s[i].req = r /\ s[i].n = a + 1
    BY <1>4, <2>2
  <2>4. i = 1
    <3>1. 1 < i => x.n < a + 1
      BY <1>2, <1>3, <1>4, <1>6, <2>3
    <3> QED
      BY <1>3, <2>1, <3>1
  <2>5. x.n = a + 1
    BY <1>2, <2>3, <2>4
  <2>6. ASSUME NEW k \in 1 .. l, t[k].req = r
        PROVE  t[k].n \in (a + 2) .. b
    <3>1. k + 1 \in 1 .. (l + 1) /\ t[k] = s[k + 1] /\ 1 < k + 1
      BY <1>2
    <3>2. t[k].n \in (a + 1) .. b /\ x.n < t[k].n
      BY <1>2, <1>3, <1>4, <1>6, <2>6, <3>1
    <3>3. PICK n : n = t[k].n
      OBVIOUS
    <3>4. n \in (a + 1) .. b /\ a + 1 < n
      BY <2>5, <3>2, <3>3
    <3>5. n \in (a + 2) .. b
      BY <3>4
    <3> QED
      BY <3>3, <3>5
  <2>7. ASSUME NEW n \in (a + 2) .. b
        PROVE  \E k \in 1 .. l : t[k].req = r /\ t[k].n = n
    <3>1. PICK j \in 1 .. (l + 1) : s[j].req = r /\ s[j].n = n
      BY <1>4
    <3>2. j # 1
      BY <1>2, <2>5, <3>1
    <3>3. j - 1 \in 1 .. l /\ t[j - 1] = s[j]
      BY <1>2, <1>3, <3>2
    <3> QED
      BY <3>1, <3>3
  <2>8. (a + 1) + 1 = a + 2
    OBVIOUS
  <2> QED
    BY <1>2, <1>5, <2>2, <2>5, <2>6, <2>7, <2>8 DEF Carries
<1>7. ASSUME x.req # r
      PROVE  Carries(t, r, a, b)
  <2>1. \A k \in 1 .. l : t[k].req = r => t[k].n \in (a + 1) .. b
    BY <1>2, <1>4
  <2>2. ASSUME NEW n \in (a + 1) .. b
        PROVE  \E k \in 1 .. l : t[k].req = r /\ t[k].n = n
    <3>1. PICK j \in 1 .. (l + 1) : s[j].req = r /\ s[j].n = n
      BY <1>4
    <3>2. j - 1 \in 1 .. l /\ t[j - 1] = s[j]
      BY <1>2, <1>3, <1>7, <3>1
    <3> QED
      BY <3>1, <3>2
  <2> QED
    BY <1>2, <1>5, <2>1, <2>2 DEF Carries
<1> QED
  BY <1>6, <1>7 DEF CarriesOn

\* None of r.
LEMMA CarriesNothing ==
    ASSUME NEW s, NEW r, NEW a \in Nat
    PROVE  /\ Carries(s, r, a, a) => \A i \in DOMAIN s : s[i].req # r
           /\ (\A i \in DOMAIN s : s[i].req # r) => Carries(s, r, a, a)
  BY DEF Carries

\* With none of its results in the sequence there is no number left out.
LEMMA CarriesEmpty ==
    ASSUME NEW s, NEW r, NEW a \in Nat, NEW b \in Nat, a <= b, Carries(s, r, a, b),
           \A i \in DOMAIN s : s[i].req # r
    PROVE  b = a
<1>1. \A n \in (a + 1) .. b : FALSE
  BY DEF Carries
<1> QED
  BY <1>1

-----------------------------------------------------------------------------
(* The result in the hand of a poll thread.                                *)

Carried == {"get", "invoke"}

Hand(f) ==
    LET p == CHOOSE q \in Pollers : f[q].pc \in Carried IN
    IF \E q \in Pollers : f[q].pc \in Carried THEN <<f[p].res>> ELSE <<>>

LEMMA InHandIs == InHand = Hand(poller) /\ InHand' = Hand(poller')
  BY DEF InHand, Hand, Carried

\* The result of the only thread that has one.
LEMMA HandOf ==
    ASSUME NEW f, \A p, q \in Pollers : f[p].pc \in Carried /\ f[q].pc \in Carried => p = q
    PROVE  /\ \A p \in Pollers : f[p].pc \in Carried => Hand(f) = <<f[p].res>>
           /\ (\A p \in Pollers : f[p].pc \notin Carried) => Hand(f) = <<>>
<1>1. PICK p : p = CHOOSE q \in Pollers : f[q].pc \in Carried
  OBVIOUS
<1>2. (\E q \in Pollers : f[q].pc \in Carried) => p \in Pollers /\ f[p].pc \in Carried
  BY <1>1
<1>3. Hand(f) = IF \E q \in Pollers : f[q].pc \in Carried THEN <<f[p].res>> ELSE <<>>
  BY <1>1 DEF Hand
<1> QED
  BY <1>2, <1>3

\* The hand before and after the only poll thread moves.
LEMMA HandMoves ==
    ASSUME IInv, ~doubled, NEW p \in Live, NEW x, Goes(p, x)
    PROVE  /\ InHand = IF poller[p].pc \in Carried THEN <<poller[p].res>> ELSE <<>>
           /\ InHand' = IF x.pc \in Carried THEN <<x.res>> ELSE <<>>
<1>1. /\ p \in Pollers /\ poller = [q \in Pollers |-> poller[q]]
      /\ poller' = [poller EXCEPT ![p] = x]
  BY DEF IInv, ThreadTypes, Live, Goes
<1>2. \A q \in Pollers : poller'[q] = IF q = p THEN x ELSE poller[q]
  BY <1>1
<1>3. \A q \in Pollers : q # p => poller[q].pc \notin Carried
  BY <1>1 DEF IInv, HandleFollows, Live, Carried
<1>4. \A q \in Pollers : q # p => poller'[q].pc \notin Carried
  BY <1>2, <1>3
<1>5. InHand = IF poller[p].pc \in Carried THEN <<poller[p].res>> ELSE <<>>
  <2>1. /\ \A q \in Pollers : poller[q].pc \in Carried => Hand(poller) = <<poller[q].res>>
        /\ (\A q \in Pollers : poller[q].pc \notin Carried) => Hand(poller) = <<>>
    BY <1>3, HandOf
  <2> QED
    BY <1>1, <1>3, <2>1, InHandIs
<1>6. InHand' = IF x.pc \in Carried THEN <<x.res>> ELSE <<>>
  <2>1. /\ \A q \in Pollers : poller'[q].pc \in Carried => Hand(poller') = <<poller'[q].res>>
        /\ (\A q \in Pollers : poller'[q].pc \notin Carried) => Hand(poller') = <<>>
    BY <1>4, HandOf
  <2> QED
    BY <1>1, <1>2, <1>4, <2>1, InHandIs
<1> QED
  BY <1>5, <1>6

\* The results that Leftover leaves were there, or are of the request it works on.
LEMMA LeftoverLemma ==
    ASSUME DataTypes, NEW s, s \in Leftover
    PROVE  /\ s \in Seq(Responses)
           /\ \A i \in DOMAIN s : \/ \E j \in DOMAIN results : s[i].req = results[j].req
                                  \/ \E j \in DOMAIN pending : s[i].req = pending[j]
<1> DEFINE Known(t) == /\ t \in Seq(Responses)
                       /\ \A i \in DOMAIN t :
                            \/ \E j \in DOMAIN results : t[i].req = results[j].req
                            \/ \E j \in DOMAIN pending : t[i].req = pending[j]
<1>1. /\ results \in Seq(Responses) /\ pending \in Seq(Requests)
      /\ given \in [Requests -> Nat]
  BY DEF DataTypes
<1>2. Known(<<>>)
  OBVIOUS
<1>3. ASSUME NEW t \in Ended
      PROVE  Known(t)
  <2>1. PICK last : last = {i \in DOMAIN results : results[i].last}
    OBVIOUS
  <2>2. PICK n : n = Cardinality(last)
    OBVIOUS
  <2>3. n \in Nat
    <3>1. PICK l \in Nat : DOMAIN results = 1 .. l
      BY <1>1
    <3>2. last \subseteq 1 .. l
      BY <2>1, <3>1
    <3>3. IsFiniteSet(1 .. l)
      BY FS_Interval
    <3> QED
      BY <2>2, <3>2, <3>3, FS_Subset, FS_CardinalityType
  <2>4. PICK at \in [1 .. n -> last] : t = [i \in DOMAIN at |-> results[at[i]]]
    BY <2>1, <2>2 DEF Ended
  <2>5. \A i \in 1 .. n : at[i] \in DOMAIN results /\ t[i] = results[at[i]]
    BY <2>1, <2>4
  <2>6. \A i \in 1 .. n : t[i] \in Responses
    BY <1>1, <2>5
  <2>7. t = [i \in 1 .. n |-> t[i]]
    BY <2>4
  <2>8. t \in Seq(Responses)
    BY <2>3, <2>6, <2>7
  <2> QED
    BY <2>5, <2>7, <2>8
<1>4. Known(Interrupted)
  <2>1. CASE pending = <<>>
    BY <1>2, <2>1 DEF Interrupted
  <2>2. CASE pending # <<>>
    <3>1. PICK r : r = Head(pending)
      OBVIOUS
    <3>2. r \in Requests /\ 1 \in DOMAIN pending /\ r = pending[1]
      BY <1>1, <2>2, <3>1
    <3>3. PICK x : x = Result(r, given[r] + 1, TRUE)
      OBVIOUS
    <3>4. x \in Responses /\ x.req = r
      BY <1>1, <3>2, <3>3 DEF Result, Responses
    <3>5. Interrupted = <<x>>
      BY <2>2, <3>1, <3>3 DEF Interrupted
    <3> QED
      BY <3>2, <3>4, <3>5
  <2> QED
    BY <2>1, <2>2
<1>5. ASSUME NEW t \in Ended
      PROVE  Known(t \o Interrupted)
  <2>1. PICK u : u = Interrupted
    OBVIOUS
  <2>2. PICK v : v = t \o u
    OBVIOUS
  <2>3. Known(t) /\ Known(u)
    BY <1>3, <1>4, <2>1
  <2>4. t \in Seq(Responses) /\ u \in Seq(Responses)
    BY <2>3
  <2>5. PICK n \in Nat, m \in Nat : n = Len(t) /\ m = Len(u)
    BY <2>4
  <2>6. /\ v \in Seq(Responses) /\ DOMAIN v = 1 .. (n + m)
        /\ \A i \in 1 .. (n + m) : v[i] = IF i <= n THEN t[i] ELSE u[i - n]
    BY <2>2, <2>4, <2>5
  <2>7. \A i \in 1 .. (n + m) :
            \/ i \in DOMAIN t /\ v[i] = t[i]
            \/ i - n \in DOMAIN u /\ v[i] = u[i - n]
    BY <2>4, <2>5, <2>6
  <2>8. ASSUME NEW i \in DOMAIN v
        PROVE  \/ \E j \in DOMAIN results : v[i].req = results[j].req
               \/ \E j \in DOMAIN pending : v[i].req = pending[j]
    <3>1. CASE i \in DOMAIN t /\ v[i] = t[i]
      BY <2>3, <3>1
    <3>2. CASE i - n \in DOMAIN u /\ v[i] = u[i - n]
      BY <2>3, <3>2
    <3> QED
      BY <2>6, <2>7, <3>1, <3>2
  <2>9. Known(v)
    BY <2>6, <2>8
  <2> QED
    BY <2>1, <2>2, <2>9
<1>6. Known(s)
  <2> HIDE DEF Known
  <2>1. s = <<>> \/ s \in Ended \/ \E t \in Ended : s = t \o Interrupted
    BY DEF Leftover
  <2> QED
    BY <1>2, <1>3, <1>5, <2>1
<1> QED
  BY <1>6

-----------------------------------------------------------------------------
(* DInv holds initially, and every step keeps it.                          *)

LEMMA ResultsInit == Init => DInv
<1> SUFFICES ASSUME Init PROVE DInv
  OBVIOUS
<1>1. /\ \A p \in Pollers : poller[p].pc = "none"
      /\ \A c \in Callers : caller[c].pc = "idle"
      /\ callbacks = [i \in {} |-> 0] /\ DOMAIN callbacks = {}
      /\ pending = <<>> /\ results = <<>> /\ session = 0 /\ nextId = 0 /\ ~open
      /\ given = [r \in Requests |-> 0] /\ told = [r \in Requests |-> <<>>]
  BY DEF Init
<1>2. DataTypes
  BY <1>1, BoundsAssumption DEF DataTypes, Holds, Puts
<1>3. \A r : ~Coming(r)
  BY <1>1 DEF Coming
<1>4. SessionsFollow /\ PendingFollow /\ CallbacksFollow /\ ToldOwn
  BY <1>1, <1>3
     DEF SessionsFollow, PendingFollow, CallbacksFollow, ToldOwn, Puts
<1>5. LastFollows /\ RegularFollow /\ InOrder
  BY <1>1, <1>3 DEF LastFollows, RegularFollow, InOrder, Regular, Holds
<1> QED
  BY <1>2, <1>4, <1>5 DEF DInv

\* Steps that leave the results and the callbacks alone.
results_vars == <<sdk, poller, caller, java, doubled>>

LEMMA UntouchedResults == DInv /\ UNCHANGED results_vars => DInv'
<1> SUFFICES ASSUME DInv, UNCHANGED results_vars PROVE DInv'
  OBVIOUS
<1> USE DEF results_vars, sdk, java
<1>1. \A r : Coming(r)' <=> Coming(r)
  BY DEF Coming
<1>2. InHand' = InHand
  BY InHandIs
<1>3. DataTypes'
  BY DEF DInv, DataTypes, Holds, Puts
<1>4. SessionsFollow' /\ PendingFollow' /\ CallbacksFollow'
  BY <1>1 DEF DInv, SessionsFollow, PendingFollow, CallbacksFollow, Puts, GivenOut
<1>5. ToldOwn' /\ LastFollows'
  BY DEF DInv, ToldOwn, LastFollows, IsEnd, IsLast, Holds
<1>6. \A r \in Requests : /\ Regular(r)' <=> Regular(r)
                          /\ Registered(r)' <=> Registered(r)
                          /\ GivenOut(r)' <=> GivenOut(r)
  BY DEF Regular, Registered, Puts, GivenOut
<1>7. RegularFollow'
  BY <1>1, <1>6 DEF DInv, RegularFollow, Holds
<1>8. InOrder'
  BY <1>2, <1>6 DEF DInv, InOrder
<1> QED
  BY <1>3, <1>4, <1>5, <1>7, <1>8 DEF DInv

\* A poll thread without a result goes on without one.
LEMMA EmptyHandStep ==
    ASSUME IInv, DInv, NEW p \in Pollers, NEW x, Goes(p, x),
           poller[p].pc \notin Carried, x.pc \notin Carried \cup {"remove"},
           UNCHANGED <<sdk, caller, java, doubled>>
    PROVE  DInv'
<1> USE DEF sdk, java
<1>1. \A q \in Pollers : poller'[q] = IF q = p THEN x ELSE poller[q]
  BY DEF Goes, IInv, ThreadTypes
<1>2. \A q \in Pollers : /\ Holds(q)' <=> Holds(q)
                         /\ poller'[q].pc = "remove" => poller'[q] = poller[q]
                         /\ poller'[q].pc = "invoke" => poller'[q] = poller[q]
                         /\ poller'[q].pc = "get" => poller'[q] = poller[q]
                         /\ poller[q].pc = "get" => poller'[q] = poller[q]
                         /\ Holds(q) => poller'[q] = poller[q]
  BY <1>1 DEF Holds, Carried
<1>3. \A r : Coming(r)' <=> Coming(r)
  BY <1>2 DEF Coming
<1>4. ~doubled => InHand' = InHand
  <2>1. SUFFICES ASSUME ~doubled PROVE InHand' = InHand
    OBVIOUS
  <2>2. CASE p \in Live
    BY <2>1, <2>2, HandMoves
  <2>3. CASE p \notin Live
    <3>1. \A q \in Pollers : poller[q].pc \in Carried => q \in Live /\ q = handle
      BY <2>1 DEF IInv, HandleFollows, Live, Carried
    <3>2. \A q \in Pollers : poller'[q].pc \in Carried => poller[q].pc \in Carried
      BY <1>2 DEF Holds, Carried
    <3>3. /\ \A q \in Pollers : poller[q].pc \in Carried => Hand(poller) = <<poller[q].res>>
          /\ (\A q \in Pollers : poller[q].pc \notin Carried) => Hand(poller) = <<>>
      BY <3>1, HandOf
    <3>4. /\ \A q \in Pollers : poller'[q].pc \in Carried => Hand(poller') = <<poller'[q].res>>
          /\ (\A q \in Pollers : poller'[q].pc \notin Carried) => Hand(poller') = <<>>
      BY <3>1, <3>2, HandOf
    <3>5. \A q \in Pollers : poller[q].pc \in Carried => poller'[q] = poller[q]
      BY <1>2 DEF Holds, Carried
    <3> QED
      BY <3>2, <3>3, <3>4, <3>5, InHandIs
  <2> QED
    BY <2>2, <2>3
<1>5. DataTypes'
  BY <1>2 DEF DInv, DataTypes, Puts, Holds
<1>6. SessionsFollow' /\ PendingFollow' /\ CallbacksFollow'
  BY <1>2, <1>3 DEF DInv, SessionsFollow, PendingFollow, CallbacksFollow, Puts, GivenOut
<1>7. ToldOwn' /\ LastFollows'
  BY <1>2 DEF DInv, ToldOwn, LastFollows, IsEnd, IsLast
<1>8. \A r \in Requests : /\ Regular(r)' <=> Regular(r)
                          /\ Registered(r)' <=> Registered(r)
                          /\ GivenOut(r)' <=> GivenOut(r)
  BY DEF Regular, Registered, Puts, GivenOut
<1>9. RegularFollow'
  BY <1>2, <1>3, <1>8 DEF DInv, RegularFollow
<1>10. InOrder'
  BY <1>4, <1>8 DEF DInv, InOrder, Regular
<1> QED
  BY <1>5, <1>6, <1>7, <1>9, <1>10 DEF DInv

\* prepare() of an SDK that is open: one prepare() too many.  Of a closed one: no
\* poll thread runs, and the requests of the session are still to come.
LEMMA PrepareResults == IInv /\ DInv /\ Prepare => DInv'
<1> SUFFICES ASSUME IInv, DInv, Prepare PROVE DInv'
  OBVIOUS
<1>1. PICK x : x = [pc |-> "poll"]
  OBVIOUS
<1>2. /\ handle' \in Pollers /\ poller[handle'].pc = "none"
      /\ poller' = [poller EXCEPT ![handle'] = x] /\ x.pc = "poll"
  BY <1>1 DEF Prepare
<1>3. \A q \in Pollers : poller'[q] = IF q = handle' THEN x ELSE poller[q]
  BY <1>2 DEF IInv, ThreadTypes
<1>4. \A q \in Pollers : /\ Holds(q)' <=> Holds(q)
                         /\ poller'[q].pc = "remove" => poller'[q] = poller[q]
                         /\ poller'[q].pc = "invoke" => poller'[q] = poller[q]
                         /\ poller'[q].pc = "get" => poller'[q] = poller[q]
                         /\ Holds(q) => poller'[q] = poller[q]
  BY <1>2, <1>3 DEF Holds
<1>5. /\ UNCHANGED <<pending, results, given, stale, caller, lock, callbacks, told, threw>>
      /\ open' = TRUE /\ control = "idle" /\ doubled' = (doubled \/ open)
  BY DEF Prepare, java
<1>6. \A r : Coming(r)' => Coming(r)
  BY <1>4, <1>5 DEF Coming
<1>7. session' \in 1 .. Sessions /\ nextId' \in 0 .. Ids /\ session' >= session
  BY BoundsAssumption DEF Prepare, DInv, DataTypes, SessionsFollow
<1>8. \A r \in Requests : r.session \in Nat /\ r.id \in Nat
  BY BoundsAssumption DEF Requests
<1>9. \A r \in Requests : GivenOut(r) => GivenOut(r)'
  BY <1>8 DEF Prepare, GivenOut, DInv, DataTypes
<1>10. ASSUME NEW r \in Requests, ~open, GivenOut(r)
       PROVE  r.session # session'
  <2>1. PICK n, m : n = r.session /\ m = session
    OBVIOUS
  <2>2. n \in Nat /\ m \in Nat /\ n <= m
    BY <1>8, <1>10, <2>1 DEF DInv, DataTypes, GivenOut
  <2>3. session' = m + 1
    BY <1>10, <2>1 DEF Prepare
  <2>4. n # m + 1
    BY <2>2
  <2> QED
    BY <2>1, <2>3, <2>4
<1>11. DataTypes'
  <2>1. session' \in 0 .. Sessions
    BY <1>7
  <2>2. \A q \in Pollers : poller'[q].pc = "invoke" => poller'[q].cb \in Requests
    BY <1>4 DEF DInv, DataTypes
  <2>3. \A q \in Pollers : Holds(q)' => poller'[q].res \in Responses
    BY <1>4 DEF DInv, DataTypes
  <2> QED
    BY <1>5, <1>7, <2>1, <2>2, <2>3 DEF DInv, DataTypes, Puts
<1>12. SessionsFollow'
  <2>1. \A r \in Requests : Coming(r)' => GivenOut(r)'
    BY <1>6, <1>9 DEF DInv, SessionsFollow
  <2>2. \A c \in Callers : Puts(c)' => GivenOut(caller[c].req)'
    BY <1>5, <1>9 DEF DInv, SessionsFollow, DataTypes, Puts
  <2>3. \A i \in DOMAIN callbacks' : callbacks'[i].session <= session'
    BY <1>5, <1>7, <1>8 DEF DInv, SessionsFollow, DataTypes
  <2>4. ASSUME NEW q \in Pollers, poller'[q].pc = "invoke"
        PROVE  GivenOut(poller[q].res.req)' /\ poller'[q].cb.session <= session'
    <3>1. /\ poller[q].pc = "invoke" /\ poller'[q] = poller[q]
          /\ poller[q].res.req \in Requests /\ poller[q].cb \in Requests
      BY <1>4, <2>4 DEF DInv, DataTypes, Holds, Responses
    <3>2. GivenOut(poller[q].res.req) /\ poller[q].cb.session <= session
      BY <3>1 DEF DInv, SessionsFollow
    <3>3. poller[q].cb.session <= session'
      <4>1. poller[q].cb.session \in Nat /\ session \in Nat /\ session' \in Nat
        BY <1>7, <1>8, <3>1 DEF DInv, DataTypes
      <4> QED
        BY <1>7, <3>2, <4>1
    <3>4. GivenOut(poller[q].res.req)'
      <4>1. PICK r \in Requests : r = poller[q].res.req
        BY <3>1
      <4>2. GivenOut(r)'
        BY <1>9, <3>2, <4>1
      <4> QED
        BY <3>1, <4>1, <4>2 DEF GivenOut
    <3> QED
      BY <3>1, <3>3, <3>4
  <2>5. \A r \in Requests : r.session > session' => given'[r] = 0 /\ told'[r] = <<>>
    BY <1>5, <1>7, <1>8 DEF DInv, SessionsFollow, DataTypes
  <2>6. open' => session' # 0
    BY <1>7
  <2> QED
    BY <2>1, <2>2, <2>3, <2>4, <2>5, <2>6 DEF SessionsFollow
<1>13. PendingFollow'
  <2>1. CASE open
    BY <1>5, <2>1 DEF Prepare, DInv, PendingFollow
  <2>2. CASE ~open
    BY <1>5, <2>2 DEF DInv, PendingFollow
  <2> QED
    BY <2>1, <2>2
<1>14. CallbacksFollow'
  BY <1>5, <1>6 DEF DInv, CallbacksFollow, Puts
<1>15. ToldOwn'
  BY <1>4, <1>5 DEF DInv, ToldOwn
<1>16. LastFollows'
  <2>1. CASE open
    BY <1>4, <1>5, <2>1 DEF Prepare, DInv, LastFollows, IsEnd, IsLast
  <2>2. CASE ~open
    <3>1. ASSUME NEW i \in DOMAIN results
          PROVE  results[i].req.session # session'
      <4>0. results \in Seq(Responses)
        BY DEF DInv, DataTypes
      <4>1. results[i] \in Responses
        BY <4>0
      <4>2. PICK r \in Requests : r = results[i].req
        BY <4>1 DEF Responses
      <4>3. Coming(r)
        BY <4>2 DEF Coming
      <4> QED
        BY <1>10, <2>2, <4>2, <4>3 DEF DInv, SessionsFollow
    <3>2. ASSUME NEW q \in Pollers, Holds(q)'
          PROVE  poller'[q].res.req.session # session'
      <4>1. poller'[q] = poller[q] /\ Holds(q)
        BY <1>4, <3>2
      <4>2. PICK r \in Requests : r = poller[q].res.req
        BY <4>1 DEF DInv, DataTypes, Responses
      <4>3. GivenOut(r)
        <5>1. CASE poller[q].pc = "get"
          BY <4>2, <5>1 DEF Coming, DInv, SessionsFollow
        <5>2. CASE poller[q].pc = "invoke"
          BY <4>2, <5>2 DEF DInv, SessionsFollow
        <5> QED
          BY <4>1, <5>1, <5>2 DEF Holds
      <4> QED
        BY <1>10, <2>2, <4>1, <4>2, <4>3
    <3> QED
      BY <1>5, <3>1, <3>2 DEF LastFollows, IsEnd
  <2> QED
    BY <2>1, <2>2
<1>17. ASSUME NEW r \in Requests, Regular(r)'
       PROVE  /\ ~open /\ ~doubled /\ Live = {} /\ r.session = session + 1
              /\ ~Coming(r)' /\ session' = session + 1
  <2>1. ~open /\ ~doubled /\ r.session = session'
    BY <1>5, <1>17 DEF Regular
  <2>2. session' = session + 1
    BY <2>1 DEF Prepare
  <2>3. Live = {}
    BY <1>5, <2>1, NullAssumption DEF IInv, HandleFollows, Live
  <2>4. ~Coming(r)'
    BY <1>6, <1>10, <2>1 DEF DInv, SessionsFollow
  <2> QED
    BY <2>1, <2>2, <2>3, <2>4
<1>18. RegularFollow'
  <2>1. ASSUME NEW q \in Pollers, ~doubled', Holds(q)'
        PROVE  FALSE
    <3>1. ~open /\ ~doubled
      BY <1>5, <2>1
    <3>2. Live = {}
      BY <1>5, <3>1, NullAssumption DEF IInv, HandleFollows, Live
    <3> QED
      BY <1>4, <2>1, <3>2 DEF Live, Holds
  <2>2. ASSUME NEW q \in Pollers, poller'[q].pc = "remove"
        PROVE  q \in Live
    BY <1>4, <2>2 DEF Live
  <2> QED
    BY <1>17, <2>1, <2>2 DEF RegularFollow
<1>19. InOrder'
  <2>1. ASSUME NEW r \in Requests, Regular(r)'
        PROVE  \E k \in 0 .. given'[r] : \E m \in k .. given'[r] :
                /\ Carries(told[r], r, 0, k)'
                /\ Carries(InHand, r, k, m)'
                /\ Carries(results, r, m, given[r])'
    <3>1. given'[r] = 0 /\ told'[r] = <<>>
      <4>1. r.session > session
        BY <1>17, <2>1 DEF DInv, DataTypes
      <4> QED
        BY <1>5, <2>1, <4>1 DEF DInv, SessionsFollow
    <3>2. InHand' = <<>>
      <4>1. \A q \in Pollers : poller'[q].pc \notin Carried
        BY <1>4, <1>17, <2>1 DEF Live, Holds, Carried
      <4>2. (\A q \in Pollers : poller'[q].pc \notin Carried) => Hand(poller') = <<>>
        BY <4>1, HandOf
      <4> QED
        BY <4>1, <4>2, InHandIs
    <3>3. \A i \in DOMAIN results' : results'[i].req # r
      BY <1>17, <2>1 DEF Coming
    <3>4. /\ Carries(<<>>, r, 0, 0)
          /\ Carries(results', r, 0, 0)
      BY <3>3, CarriesNone, CarriesNothing
    <3>5. 0 \in 0 .. 0
      OBVIOUS
    <3> QED
      BY <3>1, <3>2, <3>4, <3>5
  <2> QED
    BY <2>1 DEF InOrder
<1> QED
  BY <1>11, <1>12, <1>13, <1>14, <1>15, <1>16, <1>18, <1>19 DEF DInv

\* release(): nothing is regular any more; what is left over was coming.
LEMMA ReleaseResults == DInv /\ ReleaseNative => DInv'
<1> SUFFICES ASSUME DInv, ReleaseNative PROVE DInv'
  OBVIOUS
<1>1. UNCHANGED <<session, nextId, given, stale, poller, caller, callbacks, lock,
                  told, threw, doubled>>
  BY DEF ReleaseNative, ReleaseLock
<1>2. CASE ~open
  <2>1. UNCHANGED results_vars
    BY <1>1, <1>2 DEF ReleaseNative, results_vars, sdk, java
  <2> QED
    BY <2>1, UntouchedResults
<1>3. CASE open
  <2>1. open' = FALSE /\ pending' = <<>> /\ results' \in Leftover
    BY <1>3 DEF ReleaseNative
  <2>2. /\ results' \in Seq(Responses)
        /\ \A i \in DOMAIN results' :
                \/ \E j \in DOMAIN results : results'[i].req = results[j].req
                \/ \E j \in DOMAIN pending : results'[i].req = pending[j]
    BY <2>1, LeftoverLemma DEF DInv
  <2>3. \A r : Coming(r)' => Coming(r)
    <3>1. SUFFICES ASSUME NEW r, Coming(r)' PROVE Coming(r)
      OBVIOUS
    <3>2. CASE \E i \in DOMAIN results' : results'[i].req = r
      BY <2>2, <3>2 DEF Coming
    <3>3. CASE \E p \in Pollers : poller'[p].pc = "get" /\ poller'[p].res.req = r
      BY <1>1, <3>3 DEF Coming
    <3> QED
      BY <2>1, <3>1, <3>2, <3>3 DEF Coming
  <2>4. DataTypes'
    BY <1>1, <2>1, <2>2 DEF DInv, DataTypes, Puts, Holds
  <2>5. SessionsFollow' /\ PendingFollow' /\ CallbacksFollow' /\ ToldOwn'
    BY <1>1, <2>1, <2>3
       DEF DInv, SessionsFollow, PendingFollow, CallbacksFollow, ToldOwn, Puts, GivenOut
  <2>6. LastFollows' /\ InOrder'
    BY <2>1 DEF LastFollows, InOrder, Regular
  <2>7. RegularFollow'
    BY <1>1, <2>1 DEF DInv, RegularFollow, Regular, Holds
  <2> QED
    BY <2>4, <2>5, <2>6, <2>7 DEF DInv
<1> QED
  BY <1>2, <1>3

\* With the lock free, no caller is between its two steps.
LEMMA NobodyPuts == DInv /\ lock = NoOne => \A c \in Callers : ~Puts(c)
  BY NullAssumption DEF DInv, CallbacksFollow

\* The fields of a request and of a result.
LEMMA Fields ==
    /\ \A r \in Requests : r.session \in 1 .. Sessions /\ r.id \in 1 .. Ids
    /\ \A r \in Requests : r.session \in Nat /\ r.id \in Nat
    /\ \A r, s \in Requests : r.session = s.session /\ r.id = s.id => r = s
    /\ \A x \in Responses : x.req \in Requests /\ x.n \in Nat /\ x.last \in BOOLEAN
  BY BoundsAssumption DEF Requests, Responses

\* The callers after one of them has moved.
LEMMA CallerMoves ==
    ASSUME IInv, NEW c \in Callers, NEW x, caller' = [caller EXCEPT ![c] = x]
    PROVE  \A b \in Callers : caller'[b] = IF b = c THEN x ELSE caller[b]
<1>1. caller = [b \in Callers |-> caller[b]]
  BY DEF IInv, ThreadTypes
<1>2. caller' = [b \in Callers |-> IF b = c THEN x ELSE caller[b]]
  BY <1>1
<1> QED
  BY <1>2

\* The poll threads after one of them has moved.
LEMMA PollerMoves ==
    ASSUME IInv, NEW p \in Pollers, NEW x, poller' = [poller EXCEPT ![p] = x]
    PROVE  \A q \in Pollers : poller'[q] = IF q = p THEN x ELSE poller[q]
<1>1. poller = [q \in Pollers |-> poller[q]]
  BY DEF IInv, ThreadTypes
<1>2. poller' = [q \in Pollers |-> IF q = p THEN x ELSE poller[q]]
  BY <1>1
<1> QED
  BY <1>2

\* What InOrder says of a regular request.
LEMMA OrderOf ==
    ASSUME DInv, NEW r \in Requests, Regular(r), NEW g, g = given[r]
    PROVE  /\ g \in Nat
           /\ \E k \in 0 .. g : \E m \in k .. g :
                    /\ k \in Nat /\ m \in Nat /\ k <= m
                    /\ Carries(told[r], r, 0, k)
                    /\ Carries(InHand, r, k, m)
                    /\ Carries(results, r, m, g)
<1>1. g \in Nat
  BY DEF DInv, DataTypes
<1>2. PICK k \in 0 .. g : \E m \in k .. g :
            /\ Carries(told[r], r, 0, k)
            /\ Carries(InHand, r, k, m)
            /\ Carries(results, r, m, g)
  BY DEF DInv, InOrder
<1>3. PICK m \in k .. g :
            /\ Carries(told[r], r, 0, k)
            /\ Carries(InHand, r, k, m)
            /\ Carries(results, r, m, g)
  BY <1>2
<1>4. k \in Nat /\ m \in Nat /\ k <= m
  BY <1>1, <1>2, <1>3
<1> QED
  BY <1>1, <1>2, <1>3, <1>4

\* putText() gives out a new request, and its callback is on the way.
LEMMA PutNativeResults ==
    ASSUME IInv, DInv, NEW c \in Callers, PutNative(c)
    PROVE  DInv'
<1>1. CASE ~open
  BY <1>1, UntouchedResults DEF PutNative, results_vars, sdk, java
<1>2. CASE open
  <2>1. PICK w : w = [session |-> session, id |-> nextId + 1]
    OBVIOUS
  <2>2. /\ nextId' = nextId + 1 /\ pending' = Append(pending, w)
        /\ lock = NoOne /\ lock' = c
        /\ caller' = [caller EXCEPT ![c] = [pc |-> "put", req |-> w]]
        /\ UNCHANGED <<open, session, results, given, stale, poller, callbacks,
                       told, threw, doubled>>
        /\ nextId < IF session = 1 THEN Ids ELSE 1
    BY <1>2, <2>1 DEF PutNative, Synchronized
  <2>3. \A b \in Callers : ~Puts(b)
    BY <2>2, NobodyPuts
  <2>4. Puts(c)' /\ caller'[c].req = w /\ \A b \in Callers : Puts(b)' => b = c
    <3>1. PICK x : x = [pc |-> "put", req |-> w]
      OBVIOUS
    <3>2. caller' = [caller EXCEPT ![c] = x]
      BY <2>2, <3>1
    <3>3. \A b \in Callers : caller'[b] = IF b = c THEN x ELSE caller[b]
      BY <3>2, CallerMoves
    <3> QED
      BY <2>3, <3>1, <3>3 DEF Puts
  <2>5. /\ session \in 1 .. Sessions /\ nextId \in Nat /\ nextId + 1 \in 1 .. Ids
        /\ w \in Requests /\ w.session = session /\ w.id = nextId + 1
        /\ session \in Nat
    <3>1. session \in 1 .. Sessions /\ nextId \in 0 .. Ids
      BY <1>2, BoundsAssumption DEF DInv, DataTypes, SessionsFollow
    <3>2. nextId + 1 \in 1 .. Ids
      BY <2>2, <3>1, BoundsAssumption
    <3> QED
      BY <2>1, <3>1, <3>2, BoundsAssumption DEF Requests
  <2>6. \A r : Coming(r)' <=> Coming(r) \/ r = w
    <3>1. pending \in Seq(Requests)
      BY DEF DInv, DataTypes
    <3>2. \A r : (\E i \in DOMAIN pending' : pending'[i] = r)
                    <=> (\E i \in DOMAIN pending : pending[i] = r) \/ r = w
      <4>1. PICK l \in Nat : l = Len(pending)
        BY <3>1
      <4>2. /\ DOMAIN pending = 1 .. l /\ DOMAIN pending' = 1 .. (l + 1)
            /\ pending'[l + 1] = w /\ \A i \in 1 .. l : pending'[i] = pending[i]
            /\ l + 1 \in 1 .. (l + 1) /\ \A i \in 1 .. l : i \in 1 .. (l + 1)
            /\ \A i \in 1 .. (l + 1) : i \in 1 .. l \/ i = l + 1
        BY <2>2, <2>5, <3>1, <4>1
      <4> QED
        BY <4>2
    <3> QED
      BY <2>2, <3>2 DEF Coming
  <2>7. \A r \in Requests : GivenOut(r) => GivenOut(r)' /\ r # w
    BY <2>2, <2>5, Fields DEF GivenOut
  <2>8. GivenOut(w)'
    BY <2>2, <2>5 DEF GivenOut
  <2>9. DataTypes'
    <3>1. pending' \in Seq(Requests)
      BY <2>2, <2>5 DEF DInv, DataTypes
    <3>2. nextId' \in 0 .. Ids
      BY <2>2, <2>5, BoundsAssumption
    <3> QED
      BY <2>2, <2>4, <2>5, <3>1, <3>2 DEF DInv, DataTypes, Holds
  <2>10. SessionsFollow'
    <3>1. \A r \in Requests : Coming(r)' => GivenOut(r)'
      BY <2>6, <2>7, <2>8 DEF DInv, SessionsFollow
    <3>2. ASSUME NEW b \in Callers, Puts(b)'
          PROVE  GivenOut(caller[b].req)'
      BY <2>2, <2>4, <2>8, <3>2 DEF GivenOut
    <3>3. ASSUME NEW p \in Pollers, poller'[p].pc = "invoke"
          PROVE  GivenOut(poller[p].res.req)' /\ poller'[p].cb.session <= session'
      <4>1. PICK r \in Requests : r = poller[p].res.req
        BY <2>2, <3>3, Fields DEF DInv, DataTypes, Holds
      <4>2. GivenOut(r) /\ poller[p].cb.session <= session
        BY <2>2, <3>3, <4>1 DEF DInv, SessionsFollow
      <4>3. GivenOut(r)'
        BY <2>7, <4>2
      <4> QED
        BY <2>2, <4>1, <4>2, <4>3 DEF GivenOut
    <3> QED
      BY <2>2, <3>1, <3>2, <3>3 DEF DInv, SessionsFollow
  <2>11. PendingFollow'
    <3>1. pending \in Seq(Requests)
      BY DEF DInv, DataTypes
    <3>2. PICK l \in Nat : l = Len(pending)
      BY <3>1
    <3>3. /\ DOMAIN pending = 1 .. l /\ DOMAIN pending' = 1 .. (l + 1)
          /\ pending'[l + 1] = w /\ \A i \in 1 .. l : pending'[i] = pending[i]
      BY <2>2, <2>5, <3>1, <3>2
    <3>4. \A i \in 1 .. l : pending[i].session = session /\ pending[i] \in Requests
      BY <3>1, <3>3 DEF DInv, PendingFollow
    <3>5. \A i \in 1 .. l : pending[i].id < w.id
      <4>1. SUFFICES ASSUME NEW i \in 1 .. l PROVE pending[i].id < w.id
        OBVIOUS
      <4>2. PICK r \in Requests : r = pending[i]
        BY <3>4
      <4>3. GivenOut(r)
        BY <3>3, <4>2 DEF DInv, SessionsFollow, Coming
      <4> QED
        BY <2>5, <3>4, <4>2, <4>3, Fields DEF GivenOut
    <3>6. \A i \in 1 .. (l + 1) : i \in 1 .. l \/ i = l + 1
      OBVIOUS
    <3>7. \A i \in 1 .. (l + 1) : pending'[i].session = session'
      BY <2>2, <2>5, <3>3, <3>4, <3>6
    <3>8. \A i, j \in 1 .. (l + 1) : i < j => pending'[i].id < pending'[j].id
      <4>1. SUFFICES ASSUME NEW i \in 1 .. (l + 1), NEW j \in 1 .. (l + 1), i < j
                     PROVE  pending'[i].id < pending'[j].id
        OBVIOUS
      <4>2. i \in 1 .. l
        BY <4>1
      <4>3. CASE j \in 1 .. l
        BY <3>3, <4>1, <4>2, <4>3 DEF DInv, PendingFollow
      <4>4. CASE j = l + 1
        BY <3>3, <3>5, <4>2, <4>4
      <4> QED
        BY <3>6, <4>3, <4>4
    <3> QED
      BY <1>2, <2>2, <3>3, <3>7, <3>8 DEF PendingFollow
  <2>12. CallbacksFollow'
    <3>1. ASSUME NEW r \in Requests, Coming(r)'
          PROVE  r.session <= w.session
      BY <2>5, <2>6, <3>1 DEF DInv, SessionsFollow, GivenOut
    <3>2. ASSUME NEW r \in Requests, Coming(r)', r.id \in DOMAIN callbacks'
          PROVE  \/ callbacks'[r.id].session >= r.session
                 \/ \E b \in Callers : Puts(b)' /\ caller'[b].req.id = r.id
      <4>1. CASE r = w
        BY <2>4, <4>1
      <4>2. CASE r # w
        BY <2>2, <2>3, <2>6, <3>2, <4>2 DEF DInv, CallbacksFollow
      <4> QED
        BY <4>1, <4>2
    <3> QED
      BY <2>2, <2>4, <3>1, <3>2 DEF CallbacksFollow
  <2>13. ToldOwn'
    BY <2>2 DEF DInv, ToldOwn
  <2>14. LastFollows'
    <3>1. ASSUME NEW x \in Responses, IsEnd(x), GivenOut(x.req)
          PROVE  IsEnd(x)'
      <4>1. x.req # w
        BY <2>7, <3>1, Fields
      <4>2. \A i \in DOMAIN pending' : pending'[i] = w \/ \E j \in DOMAIN pending : pending'[i] = pending[j]
        <5>1. pending \in Seq(Requests)
          BY DEF DInv, DataTypes
        <5> QED
          BY <2>2, <2>5, <5>1
      <4> QED
        BY <2>2, <3>1, <4>1, <4>2 DEF IsEnd
    <3>2. ASSUME NEW i \in DOMAIN results, IsLast(results[i])
          PROVE  IsEnd(results[i])'
      <4>1. PICK x \in Responses : x = results[i]
        BY DEF DInv, DataTypes
      <4>2. GivenOut(x.req)
        BY <4>1, Fields DEF DInv, SessionsFollow, Coming
      <4>3. IsEnd(x)
        BY <1>2, <3>2, <4>1 DEF DInv, LastFollows
      <4>4. IsEnd(x)'
        BY <3>1, <4>2, <4>3
      <4> QED
        BY <2>2, <4>1, <4>4 DEF IsEnd
    <3>3. ASSUME NEW p \in Pollers, Holds(p), IsLast(poller[p].res)
          PROVE  IsEnd(poller[p].res)'
      <4>1. PICK x \in Responses : x = poller[p].res
        BY <3>3 DEF DInv, DataTypes
      <4>2. GivenOut(x.req)
        BY <3>3, <4>1, Fields DEF DInv, SessionsFollow, Coming, Holds
      <4>3. IsEnd(x)
        BY <1>2, <3>3, <4>1 DEF DInv, LastFollows
      <4>4. IsEnd(x)'
        BY <3>1, <4>2, <4>3
      <4> QED
        BY <2>2, <4>1, <4>4 DEF IsEnd
    <3> QED
      BY <2>2, <3>2, <3>3 DEF LastFollows, Holds, IsLast
  <2>15. \A r : Regular(r)' <=> Regular(r)
    BY <2>2 DEF Regular
  <2>16. RegularFollow'
    <3>1. ASSUME NEW r \in Requests, Regular(r)', Coming(r)'
          PROVE  Registered(r)'
      <4>1. CASE r = w
        BY <2>4, <4>1 DEF Registered
      <4>2. CASE r # w
        BY <2>2, <2>3, <2>6, <2>15, <3>1, <4>2 DEF DInv, RegularFollow, Registered
      <4> QED
        BY <4>1, <4>2
    <3>2. ASSUME NEW p \in Pollers, poller[p].pc = "remove",
                 NEW r \in Requests, Regular(r)', r.id = poller[p].id
          PROVE  ~Coming(r)' /\ GivenOut(r)'
      <4>1. ~Coming(r) /\ GivenOut(r)
        BY <2>15, <3>2 DEF DInv, RegularFollow
      <4> QED
        BY <2>6, <2>7, <4>1
    <3> QED
      BY <2>2, <3>1, <3>2 DEF DInv, RegularFollow, Holds
  <2>17. InOrder'
    <3>1. InHand' = InHand
      BY <2>2, InHandIs
    <3> QED
      BY <2>2, <2>15, <3>1 DEF DInv, InOrder
  <2> QED
    BY <2>9, <2>10, <2>11, <2>12, <2>13, <2>14, <2>16, <2>17 DEF DInv
<1> QED
  BY <1>1, <1>2

\* The callback is in the map: of the request that was on the way, or of a newer one
\* than any other with its id.
LEMMA PutCallbackResults ==
    ASSUME IInv, DInv, NEW c \in Callers, PutCallback(c)
    PROVE  DInv'
<1>1. PICK w : w = caller[c].req
  OBVIOUS
<1>2. /\ Puts(c) /\ w \in Requests
      /\ callbacks' = [i \in DOMAIN callbacks \cup {w.id} |-> IF i = w.id THEN w ELSE callbacks[i]]
      /\ lock' = NoOne
      /\ UNCHANGED <<open, session, nextId, pending, results, given, stale, poller, told, threw, doubled>>
  BY <1>1 DEF PutCallback, sdk, DInv, DataTypes, Puts
<1>3. \A b \in Callers : Puts(b) => b = c
  BY <1>2 DEF DInv, CallbacksFollow
<1>4. \A b \in Callers : ~Puts(b)'
  <2>1. PICK x : x = [pc |-> "idle"]
    OBVIOUS
  <2>2. caller' = [caller EXCEPT ![c] = x]
    BY <2>1 DEF PutCallback
  <2>3. \A b \in Callers : caller'[b] = IF b = c THEN x ELSE caller[b]
    BY <2>2, CallerMoves
  <2> QED
    BY <1>3, <2>1, <2>3 DEF Puts
<1>5. /\ DOMAIN callbacks' = DOMAIN callbacks \cup {w.id} /\ callbacks'[w.id] = w
      /\ \A i \in DOMAIN callbacks : i # w.id => callbacks'[i] = callbacks[i]
      /\ \A i \in DOMAIN callbacks' : i = w.id \/ i \in DOMAIN callbacks
  BY <1>2
<1>6. \A r : Coming(r)' <=> Coming(r)
  BY <1>2 DEF Coming
<1>7. GivenOut(w)
  BY <1>1, <1>2 DEF DInv, SessionsFollow
<1>8. \A r \in Requests : Coming(r) => r.session <= w.session
  BY <1>1, <1>2 DEF DInv, CallbacksFollow
<1>9. DataTypes'
  <2>1. \A i \in DOMAIN callbacks' : callbacks'[i] \in Requests /\ callbacks'[i].id = i
    BY <1>2, <1>5 DEF DInv, DataTypes
  <2> QED
    BY <1>2, <1>4, <2>1 DEF DInv, DataTypes, Holds
<1>10. SessionsFollow'
  <2>1. \A i \in DOMAIN callbacks' : callbacks'[i].session <= session
    BY <1>5, <1>7 DEF DInv, SessionsFollow, GivenOut
  <2> QED
    BY <1>2, <1>4, <1>6, <2>1 DEF DInv, SessionsFollow, GivenOut
<1>11. PendingFollow' /\ ToldOwn' /\ LastFollows'
  BY <1>2 DEF DInv, PendingFollow, ToldOwn, LastFollows, IsEnd, IsLast, Holds
<1>12. CallbacksFollow'
  <2>1. ASSUME NEW r \in Requests, Coming(r), r.id \in DOMAIN callbacks'
        PROVE  callbacks'[r.id].session >= r.session
    <3>1. CASE r.id = w.id
      BY <1>2, <1>5, <1>8, <2>1, <3>1, Fields
    <3>2. CASE r.id # w.id
      <4>1. r.id \in DOMAIN callbacks /\ callbacks'[r.id] = callbacks[r.id]
        BY <1>5, <2>1, <3>2
      <4>2. ~\E b \in Callers : Puts(b) /\ caller[b].req.id = r.id
        BY <1>1, <1>3, <3>2
      <4> QED
        BY <2>1, <4>1, <4>2 DEF DInv, CallbacksFollow
    <3> QED
      BY <3>1, <3>2
  <2> QED
    BY <1>4, <1>6, <2>1 DEF CallbacksFollow
<1>13. \A r : /\ Regular(r)' <=> Regular(r)
              /\ GivenOut(r)' <=> GivenOut(r)
  BY <1>2 DEF Regular, GivenOut
<1>14. RegularFollow'
  <2>1. ASSUME NEW r \in Requests, Regular(r), Coming(r)
        PROVE  Registered(r)'
    <3>1. CASE r.id = w.id
      <4>1. r.session = w.session
        BY <1>2, <1>7, <1>8, <2>1, Fields DEF Regular, GivenOut, DInv, DataTypes
      <4>2. r = w
        BY <1>2, <3>1, <4>1, Fields
      <4> QED
        BY <1>5, <4>2 DEF Registered
    <3>2. CASE r.id # w.id
      <4>1. ~\E b \in Callers : Puts(b) /\ caller[b].req = r
        BY <1>1, <1>3, <3>2
      <4>2. r.id \in DOMAIN callbacks /\ callbacks[r.id] = r
        BY <2>1, <4>1 DEF DInv, RegularFollow, Registered
      <4> QED
        BY <1>5, <3>2, <4>2 DEF Registered
    <3> QED
      BY <3>1, <3>2
  <2> QED
    BY <1>2, <1>6, <1>13, <2>1 DEF DInv, RegularFollow, Holds
<1>15. InOrder'
  BY <1>2, <1>13, InHandIs DEF DInv, InOrder
<1> QED
  BY <1>9, <1>10, <1>11, <1>12, <1>14, <1>15 DEF DInv

\* The request the SDK works on gets its next result; after the last one the SDK
\* goes on to requests with higher ids.
LEMMA NativeResultResults == DInv /\ NativeResult => DInv'
<1> SUFFICES ASSUME DInv, NativeResult PROVE DInv'
  OBVIOUS
<1>w. PICK w : w = Head(pending)
  OBVIOUS
<1>n. PICK n : n = given[w] + 1
  OBVIOUS
<1>0. PICK last \in BOOLEAN :
        /\ results' = Append(results, Result(w, n, last))
        /\ given' = [given EXCEPT ![w] = n]
        /\ pending' = IF last THEN Tail(pending) ELSE pending
  BY <1>w, <1>n DEF NativeResult
<1>x. PICK x : x = Result(w, n, last)
  OBVIOUS
<1>1. /\ last \in BOOLEAN
      /\ w = Head(pending) /\ n = given[w] + 1 /\ x = Result(w, n, last)
      /\ results' = Append(results, x) /\ given' = [given EXCEPT ![w] = n]
      /\ pending' = IF last THEN Tail(pending) ELSE pending
  BY <1>0, <1>w, <1>n, <1>x
<1>2. /\ open /\ pending # <<>>
      /\ UNCHANGED <<open, session, nextId, stale, poller, caller, lock, callbacks, told, threw, doubled>>
  BY DEF NativeResult, java
<1>3. /\ pending \in Seq(Requests) /\ results \in Seq(Responses)
      /\ given \in [Requests -> Nat] /\ session \in Nat
  BY DEF DInv, DataTypes
<1>4. PICK l \in Nat : l + 1 = Len(pending)
  <2>1. Len(pending) \in Nat /\ Len(pending) # 0
    BY <1>2, <1>3
  <2> QED
    BY <2>1
<1>5. /\ DOMAIN pending = 1 .. (l + 1) /\ 1 \in 1 .. (l + 1) /\ pending[1] = w /\ w \in Requests
      /\ w.session = session
  <2>1. DOMAIN pending = 1 .. (l + 1) /\ 1 \in 1 .. (l + 1) /\ pending[1] = w /\ w \in Requests
    BY <1>1, <1>2, <1>3, <1>4
  <2> QED
    BY <2>1 DEF DInv, PendingFollow
<1>6. n \in Nat /\ n = given[w] + 1 /\ given[w] \in Nat
  BY <1>1, <1>3, <1>5
<1>7. x \in Responses /\ x.req = w /\ x.n = n /\ x.last = last
  BY <1>1, <1>5, <1>6 DEF Result, Responses
<1>8. /\ given' \in [Requests -> Nat] /\ given'[w] = n
      /\ \A r \in Requests : r # w => given'[r] = given[r]
  BY <1>1, <1>3, <1>5, <1>6
<1>9. /\ pending' \in Seq(Requests)
      /\ \A i \in DOMAIN pending' : \E d \in 1 .. (l + 1) : pending'[i] = pending[d]
      /\ \A i, j \in DOMAIN pending' : i < j => pending'[i].id < pending'[j].id
      /\ last => \A i \in DOMAIN pending' : pending'[i] # w
  <2>1. \A i, j \in 1 .. (l + 1) : i < j => pending[i].id < pending[j].id
    BY <1>5 DEF DInv, PendingFollow
  <2>2. CASE ~last
    BY <1>1, <1>3, <1>5, <2>1, <2>2
  <2>3. CASE last
    <3>1. /\ pending' \in Seq(Requests) /\ DOMAIN pending' = 1 .. l
          /\ \A i \in 1 .. l : pending'[i] = pending[i + 1]
      BY <1>1, <1>2, <1>3, <1>4, <2>3
    <3>2. \A i \in 1 .. l : i + 1 \in 1 .. (l + 1) /\ 1 < i + 1
      OBVIOUS
    <3>3. \A i, j \in 1 .. l : i < j => pending'[i].id < pending'[j].id
      <4>1. SUFFICES ASSUME NEW i \in 1 .. l, NEW j \in 1 .. l, i < j
                     PROVE  pending'[i].id < pending'[j].id
        OBVIOUS
      <4>2. i + 1 < j + 1
        BY <4>1
      <4>3. pending[i + 1].id < pending[j + 1].id
        BY <2>1, <3>2, <4>1, <4>2
      <4> QED
        BY <3>1, <4>1, <4>3
    <3>4. \A i \in 1 .. l : pending'[i] # w
      <4>1. SUFFICES ASSUME NEW i \in 1 .. l, pending'[i] = w PROVE FALSE
        OBVIOUS
      <4>2. w.id < w.id
        BY <1>5, <2>1, <3>1, <3>2, <4>1
      <4> QED
        BY <1>5, <4>2, Fields
    <3> QED
      BY <3>1, <3>2, <3>3, <3>4
  <2> QED
    BY <2>2, <2>3
<1>10. PICK d \in Nat : d = Len(results)
  BY <1>3
<1>11. /\ results' \in Seq(Responses) /\ DOMAIN results' = 1 .. (d + 1)
       /\ DOMAIN results = 1 .. d /\ results'[d + 1] = x
       /\ \A i \in 1 .. d : results'[i] = results[i]
       /\ \A i \in 1 .. (d + 1) : i \in 1 .. d \/ i = d + 1
  BY <1>1, <1>3, <1>7, <1>10
<1>12. \A r : Coming(r)' => Coming(r)
  <2>1. SUFFICES ASSUME NEW r, Coming(r)' PROVE Coming(r)
    OBVIOUS
  <2>2. CASE \E i \in DOMAIN pending' : pending'[i] = r
    BY <1>5, <1>9, <2>2 DEF Coming
  <2>3. CASE \E i \in DOMAIN results' : results'[i].req = r
    <3>1. (\E i \in 1 .. d : results[i].req = r) \/ r = w
      BY <1>7, <1>11, <2>3
    <3> QED
      BY <1>5, <1>11, <3>1 DEF Coming
  <2>4. CASE \E p \in Pollers : poller'[p].pc = "get" /\ poller'[p].res.req = r
    BY <1>2, <2>4 DEF Coming
  <2> QED
    BY <2>1, <2>2, <2>3, <2>4 DEF Coming
<1>13. DataTypes'
  BY <1>2, <1>8, <1>9, <1>11 DEF DInv, DataTypes, Holds, Puts
<1>14. SessionsFollow'
  <2>1. \A r \in Requests : r.session > session => given'[r] = 0 /\ told[r] = <<>>
    BY <1>3, <1>5, <1>8 DEF DInv, SessionsFollow
  <2> QED
    BY <1>2, <1>12, <2>1 DEF DInv, SessionsFollow, Puts, GivenOut
<1>15. PendingFollow'
  <2>1. \A i \in DOMAIN pending' : pending'[i].session = session
    BY <1>5, <1>9 DEF DInv, PendingFollow
  <2> QED
    BY <1>2, <1>9, <2>1 DEF PendingFollow
<1>16. CallbacksFollow' /\ ToldOwn'
  BY <1>2, <1>12 DEF DInv, CallbacksFollow, ToldOwn, Puts
<1>17. LastFollows'
  <2>1. ASSUME NEW y \in Responses, IsEnd(y)
        PROVE  IsEnd(y)'
    <3>1. SUFFICES ASSUME y.req.session = session
                   PROVE  /\ \A i \in DOMAIN pending' : pending'[i] # y.req
                          /\ y.n = given'[y.req]
      BY <1>2 DEF IsEnd
    <3>2. y.req # w /\ y.req \in Requests
      BY <1>5, <2>1, <3>1, Fields DEF IsEnd
    <3>3. \A i \in DOMAIN pending' : pending'[i] # y.req
      BY <1>5, <1>9, <2>1, <3>1 DEF IsEnd
    <3>4. y.n = given'[y.req]
      BY <1>8, <2>1, <3>1, <3>2 DEF IsEnd
    <3> QED
      BY <3>3, <3>4
  <2>2. last => IsEnd(x)'
    BY <1>7, <1>8, <1>9 DEF IsEnd
  <2>3. ASSUME NEW i \in 1 .. (d + 1), IsLast(results'[i])
        PROVE  IsEnd(results[i])'
    <3>1. CASE i = d + 1
      <4>1. IsEnd(x)'
        BY <1>7, <1>11, <2>2, <2>3, <3>1 DEF IsLast
      <4> QED
        BY <1>11, <3>1, <4>1 DEF IsEnd
    <3>2. CASE i \in 1 .. d
      <4>1. PICK y \in Responses : y = results[i] /\ y = results'[i]
        BY <1>3, <1>11, <3>2
      <4>2. IsEnd(y)'
        BY <1>2, <1>11, <2>1, <2>3, <3>2, <4>1 DEF DInv, LastFollows, IsLast
      <4> QED
        BY <4>1, <4>2 DEF IsEnd
    <3> QED
      BY <1>11, <3>1, <3>2
  <2>4. ASSUME NEW p \in Pollers, Holds(p), IsLast(poller[p].res)
        PROVE  IsEnd(poller[p].res)'
    <3>1. PICK y \in Responses : y = poller[p].res
      BY <2>4 DEF DInv, DataTypes
    <3>2. IsEnd(y)'
      BY <1>2, <2>1, <2>4, <3>1 DEF DInv, LastFollows
    <3> QED
      BY <1>2, <3>1, <3>2 DEF IsEnd
  <2> QED
    BY <1>2, <1>11, <2>3, <2>4 DEF LastFollows, Holds, IsLast
<1>18. \A r : /\ Regular(r)' <=> Regular(r)
              /\ Registered(r)' <=> Registered(r)
              /\ GivenOut(r)' <=> GivenOut(r)
  BY <1>2 DEF Regular, GivenOut, Registered, Puts
<1>19. RegularFollow'
  BY <1>2, <1>12, <1>18 DEF DInv, RegularFollow, Holds
<1>20. InOrder'
  <2>1. InHand' = InHand /\ told' = told
    BY <1>2, InHandIs
  <2>2. ASSUME NEW r \in Requests, Regular(r)
        PROVE  \E k \in 0 .. given'[r] : \E m \in k .. given'[r] :
                    /\ Carries(told'[r], r, 0, k)
                    /\ Carries(InHand', r, k, m)
                    /\ Carries(results', r, m, given'[r])
    <3>1. PICK g \in Nat : g = given[r]
      BY <1>3
    <3>2. PICK k \in 0 .. g : \E m \in k .. g :
                    /\ Carries(told[r], r, 0, k)
                    /\ Carries(InHand, r, k, m)
                    /\ Carries(results, r, m, g)
      BY <2>2, <3>1 DEF DInv, InOrder
    <3>3. PICK m \in k .. g :
                    /\ Carries(told[r], r, 0, k)
                    /\ Carries(InHand, r, k, m)
                    /\ Carries(results, r, m, g)
      BY <3>2
    <3>4. m \in Nat /\ m <= g /\ k \in Nat /\ k <= m
      BY <3>1, <3>2, <3>3
    <3>5. /\ x.req = r /\ x.n = g + 1 => Carries(results', r, m, g + 1)
          /\ x.req # r => Carries(results', r, m, g)
      <4>1. PICK t : t = results'
        OBVIOUS
      <4>2. t = Append(results, x) /\ Carries(results, r, m, g)
        BY <1>1, <3>3, <4>1
      <4>3. /\ x.req = r /\ x.n = g + 1 => Carries(t, r, m, g + 1)
            /\ x.req # r => Carries(t, r, m, g)
        BY <1>3, <1>7, <3>1, <3>4, <4>2, CarriesAppend
      <4> QED
        BY <4>1, <4>3
    <3>6. CASE r = w
      <4>1. given'[r] = g + 1 /\ Carries(results', r, m, g + 1)
        BY <1>6, <1>7, <1>8, <3>1, <3>5, <3>6
      <4>2. k \in 0 .. (g + 1) /\ m \in k .. (g + 1)
        BY <3>1, <3>4
      <4> QED
        BY <2>1, <3>3, <4>1, <4>2
    <3>7. CASE r # w
      <4>1. given'[r] = g /\ Carries(results', r, m, g)
        BY <1>7, <1>8, <3>1, <3>5, <3>7
      <4> QED
        BY <2>1, <3>2, <3>3, <4>1
    <3> QED
      BY <3>6, <3>7
  <2> QED
    BY <1>18, <2>2 DEF InOrder
<1> QED
  BY <1>13, <1>14, <1>15, <1>16, <1>17, <1>19, <1>20 DEF DInv

\* A result goes from the queue into the hand.
LEMMA PollResults ==
    ASSUME IInv, DInv, NEW p \in Pollers, Poll(p), open
    PROVE  DInv'
<1>1. /\ UNCHANGED <<open, session, nextId, pending, given, caller, lock, callbacks, told,
                     threw, doubled>>
      /\ results # <<>> /\ results' = Tail(results) /\ poller[p].pc = "poll"
  BY DEF Poll, java
<1>2. PICK y : y = Head(results)
  OBVIOUS
<1>3. PICK x : x = [pc |-> "get", res |-> y]
  OBVIOUS
<1>4. /\ poller' = [poller EXCEPT ![p] = x] /\ x.pc = "get" /\ x.res = y
      /\ stale' = IF y.req.session = session THEN stale
                  ELSE stale \cup {[session |-> session, id |-> y.req.id]}
  BY <1>2, <1>3 DEF Poll
<1>5. \A q \in Pollers : poller'[q] = IF q = p THEN x ELSE poller[q]
  BY <1>4, PollerMoves
<1>6. results \in Seq(Responses)
  BY DEF DInv, DataTypes
<1>7. PICK l \in Nat : l + 1 = Len(results)
  <2>1. Len(results) \in Nat /\ Len(results) # 0
    BY <1>1, <1>6
  <2> QED
    BY <2>1
<1>8. /\ DOMAIN results = 1 .. (l + 1) /\ DOMAIN results' = 1 .. l
      /\ results' \in Seq(Responses) /\ y \in Responses
      /\ 1 \in 1 .. (l + 1) /\ y = results[1]
      /\ \A i \in 1 .. l : i + 1 \in 1 .. (l + 1) /\ results'[i] = results[i + 1]
  BY <1>1, <1>2, <1>6, <1>7
<1>9. \A i \in DOMAIN results' : \E j \in DOMAIN results : results'[i] = results[j]
  BY <1>8
<1>10. \A q \in Pollers :
            /\ poller'[q].pc \in {"invoke", "remove"} => poller'[q] = poller[q]
            /\ Holds(q)' => poller'[q].res = y \/ (Holds(q) /\ poller'[q] = poller[q])
  <2>1. poller'[p].pc = "get" /\ poller'[p].res = y
    BY <1>4, <1>5
  <2>2. \A q \in Pollers : q = p \/ poller'[q] = poller[q]
    BY <1>5
  <2>3. \A q \in Pollers : poller'[q].pc \in {"invoke", "remove"} => poller'[q] = poller[q]
    BY <2>1, <2>2
  <2>4. \A q \in Pollers : poller'[q] = poller[q] => (Holds(q)' <=> Holds(q))
    BY DEF Holds
  <2>5. \A q \in Pollers : Holds(q)' => poller'[q].res = y \/ (Holds(q) /\ poller'[q] = poller[q])
    BY <2>1, <2>2, <2>4
  <2> QED
    BY <2>3, <2>5
<1>11. \A r : Coming(r)' => Coming(r)
  <2>1. SUFFICES ASSUME NEW r, Coming(r)' PROVE Coming(r)
    OBVIOUS
  <2>2. CASE \E i \in DOMAIN results' : results'[i].req = r
    BY <1>9, <2>2 DEF Coming
  <2>3. CASE \E q \in Pollers : poller'[q].pc = "get" /\ poller'[q].res.req = r
    <3>1. y.req = r \/ \E q \in Pollers : poller[q].pc = "get" /\ poller[q].res.req = r
      BY <1>4, <1>5, <2>3
    <3> QED
      BY <1>8, <3>1 DEF Coming
  <2> QED
    BY <1>1, <2>1, <2>2, <2>3 DEF Coming
<1>12. DataTypes'
  <2>1. \A q \in Pollers : Holds(q)' => poller'[q].res \in Responses
    BY <1>8, <1>10 DEF DInv, DataTypes
  <2>2. \A q \in Pollers : poller'[q].pc = "invoke" => poller'[q].cb \in Requests
    BY <1>10 DEF DInv, DataTypes
  <2> QED
    BY <1>1, <1>8, <2>1, <2>2 DEF DInv, DataTypes, Puts
<1>13. SessionsFollow' /\ PendingFollow' /\ CallbacksFollow' /\ ToldOwn'
  BY <1>1, <1>10, <1>11
     DEF DInv, SessionsFollow, PendingFollow, CallbacksFollow, ToldOwn, Puts, GivenOut
<1>14. LastFollows'
  <2>1. \A i \in DOMAIN results : IsLast(results[i]) => IsEnd(results[i])
    BY DEF DInv, LastFollows
  <2>2. ASSUME NEW q \in Pollers, Holds(q)', IsLast(poller'[q].res)
        PROVE  IsEnd(poller[q].res)'
    <3>1. IsEnd(poller'[q].res)
      <4>1. CASE poller'[q].res = y
        BY <1>8, <2>1, <2>2, <4>1
      <4>2. CASE poller'[q] = poller[q] /\ Holds(q)
        BY <2>2, <4>2 DEF DInv, LastFollows
      <4> QED
        BY <1>10, <2>2, <4>1, <4>2
    <3> QED
      BY <1>1, <3>1 DEF IsEnd
  <2>3. ASSUME NEW i \in DOMAIN results', IsLast(results'[i])
        PROVE  IsEnd(results[i])'
    <3>1. IsEnd(results'[i])
      BY <1>9, <2>1, <2>3
    <3> QED
      BY <1>1, <3>1 DEF IsEnd
  <2> QED
    BY <1>1, <2>2, <2>3 DEF LastFollows, IsLast
<1>15. \A r : /\ Regular(r)' => Regular(r)
              /\ Registered(r)' <=> Registered(r)
              /\ GivenOut(r)' <=> GivenOut(r)
  BY <1>1, <1>4 DEF Regular, GivenOut, Registered, Puts
<1>16. RegularFollow'
  <2>1. \A r \in Requests : Regular(r)' /\ Coming(r)' => Registered(r)'
    BY <1>11, <1>15 DEF DInv, RegularFollow
  <2>2. ASSUME NEW q \in Pollers, ~doubled, Holds(q)'
        PROVE  \/ poller'[q].res.req.session = session
               \/ [session |-> session, id |-> poller'[q].res.req.id] \in stale'
    <3>1. CASE poller'[q].res = y
      BY <1>4, <3>1
    <3>2. CASE poller'[q] = poller[q] /\ Holds(q)
      BY <1>4, <2>2, <3>2 DEF DInv, RegularFollow
    <3> QED
      BY <1>10, <2>2, <3>1, <3>2
  <2>3. ASSUME NEW q \in Pollers, poller'[q].pc = "remove", NEW r \in Requests, Regular(r)',
               r.id = poller'[q].id
        PROVE  ~Coming(r)' /\ GivenOut(r)'
    BY <1>10, <1>11, <1>15, <2>3 DEF DInv, RegularFollow
  <2> QED
    BY <1>1, <2>1, <2>2, <2>3 DEF RegularFollow
<1>17. InOrder'
  <2>1. ASSUME NEW r \in Requests, Regular(r)'
        PROVE  \E k \in 0 .. given[r] : \E m \in k .. given[r] :
                    /\ Carries(told[r], r, 0, k)
                    /\ Carries(InHand', r, k, m)
                    /\ Carries(results', r, m, given[r])
    <3>1. PICK g \in Nat : g = given[r]
      BY DEF DInv, DataTypes
    <3>2. InHand = <<>> /\ InHand' = <<y>>
      <4>1. Goes(p, x) /\ p \in Live /\ ~doubled
        BY <1>1, <1>4, <2>1 DEF Goes, Places, Live, Regular
      <4> QED
        BY <1>1, <1>4, <4>1, HandMoves DEF Carried
    <3>3. PICK k \in 0 .. g : \E m \in k .. g :
                    /\ Carries(told[r], r, 0, k)
                    /\ Carries(InHand, r, k, m)
                    /\ Carries(results, r, m, g)
      BY <1>15, <2>1, <3>1 DEF DInv, InOrder
    <3>4. PICK m \in k .. g :
                    /\ Carries(told[r], r, 0, k)
                    /\ Carries(InHand, r, k, m)
                    /\ Carries(results, r, m, g)
      BY <3>3
    <3>5. m \in Nat /\ m <= g /\ k \in Nat /\ k <= m
      BY <3>1, <3>3, <3>4
    <3>6. m = k
      <4>1. DOMAIN <<>> = {}
        OBVIOUS
      <4> QED
        BY <3>2, <3>4, <3>5, <4>1, CarriesEmpty
    <3>7. /\ y.req = r => y.n = m + 1 /\ m + 1 <= g /\ Carries(results', r, m + 1, g)
          /\ y.req # r => Carries(results', r, m, g)
      <4>1. PICK s \in Seq(Responses) : s = results
        BY <1>6
      <4>2. PICK t : t = results'
        OBVIOUS
      <4>3. /\ s # <<>> /\ t = Tail(s) /\ y = Head(s) /\ Carries(s, r, m, g)
            /\ g \in Nat /\ m \in Nat /\ m <= g
        BY <1>1, <1>2, <3>1, <3>4, <3>5, <4>1, <4>2
      <4>4. CarriesOn(t, y, r, m, g)
        BY <4>1, <4>3, CarriesTail
      <4> QED
        BY <4>2, <4>4 DEF CarriesOn
    <3>8. /\ y.req = r /\ y.n = m + 1 => Carries(InHand', r, m, m + 1)
          /\ y.req # r => Carries(InHand', r, m, m)
      BY <3>2, <3>5, CarriesOne
    <3>9. CASE y.req = r
      <4>1. m + 1 \in k .. g
        BY <3>1, <3>5, <3>7, <3>9
      <4> QED
        BY <3>1, <3>3, <3>4, <3>6, <3>7, <3>8, <3>9, <4>1
    <3>10. CASE y.req # r
      BY <3>1, <3>3, <3>4, <3>6, <3>7, <3>8, <3>10
    <3> QED
      BY <3>9, <3>10
  <2> QED
    BY <1>1, <2>1 DEF InOrder
<1> QED
  BY <1>12, <1>13, <1>14, <1>16, <1>17 DEF DInv

\* The callback of the result's own request is found, or one of a later session
\* with its id.
LEMMA GetFound ==
    ASSUME IInv, DInv, NEW p \in Pollers, GetCallback(p),
           poller[p].res.req.id \in DOMAIN callbacks
    PROVE  DInv'
<1>1. /\ UNCHANGED <<open, session, nextId, pending, results, given, stale, caller, lock,
                     callbacks, told, threw, doubled>>
      /\ poller[p].pc = "get" /\ lock = NoOne /\ Holds(p)
  BY DEF GetCallback, java, sdk, Holds
<1>2. PICK y \in Responses : y = poller[p].res
  BY <1>1 DEF DInv, DataTypes
<1>3. PICK cb \in Requests : cb = callbacks[y.req.id] /\ cb.id = y.req.id
  BY <1>2 DEF DInv, DataTypes
<1>4. PICK x : x = [pc |-> "invoke", res |-> y, cb |-> cb]
  OBVIOUS
<1>5. /\ poller' = [poller EXCEPT ![p] = x] /\ x.pc = "invoke" /\ x.res = y /\ x.cb = cb
  BY <1>2, <1>3, <1>4 DEF GetCallback
<1>6. \A q \in Pollers : poller'[q] = IF q = p THEN x ELSE poller[q]
  BY <1>5, PollerMoves
<1>7. poller'[p].pc = "invoke" /\ poller'[p].res = y /\ poller'[p].cb = cb
  BY <1>5, <1>6
<1>8. \A q \in Pollers : q = p \/ poller'[q] = poller[q]
  BY <1>6
<1>9. \A q \in Pollers : poller'[q].pc \in {"get", "remove"} => poller'[q] = poller[q]
  BY <1>7, <1>8
<1>10. \A q \in Pollers : (Holds(q)' <=> Holds(q)) /\ (Holds(q) => poller'[q].res = poller[q].res)
  BY <1>1, <1>2, <1>7, <1>8 DEF Holds
<1>11. \A r : Coming(r)' => Coming(r)
  BY <1>1, <1>9 DEF Coming
<1>12. Coming(y.req) /\ y.req \in Requests
  BY <1>1, <1>2, Fields DEF Coming
<1>13. GivenOut(y.req) /\ cb.session <= session
  BY <1>2, <1>3, <1>12 DEF DInv, SessionsFollow
<1>14. y.req = cb \/ y.req.session < cb.session
  <2>1. ~\E c \in Callers : Puts(c) /\ caller[c].req.id = y.req.id
    BY <1>1, NobodyPuts
  <2>2. cb.session >= y.req.session
    BY <1>2, <1>3, <1>12, <2>1 DEF DInv, CallbacksFollow
  <2> QED
    BY <1>3, <1>12, <2>2, Fields
<1>15. DataTypes'
  <2>1. \A q \in Pollers : Holds(q)' => poller'[q].res \in Responses
    BY <1>10 DEF DInv, DataTypes
  <2>2. \A q \in Pollers : poller'[q].pc = "invoke" => poller'[q].cb \in Requests
    BY <1>7, <1>8 DEF DInv, DataTypes
  <2> QED
    BY <1>1, <2>1, <2>2 DEF DInv, DataTypes, Puts
<1>16. SessionsFollow'
  <2>1. ASSUME NEW q \in Pollers, poller'[q].pc = "invoke"
        PROVE  GivenOut(poller[q].res.req)' /\ poller'[q].cb.session <= session'
    <3>1. GivenOut(poller'[q].res.req) /\ poller'[q].cb.session <= session
      BY <1>7, <1>8, <1>13, <2>1 DEF DInv, SessionsFollow
    <3> QED
      BY <1>1, <3>1 DEF GivenOut
  <2> QED
    BY <1>1, <1>11, <2>1 DEF DInv, SessionsFollow, Puts, GivenOut
<1>17. PendingFollow' /\ CallbacksFollow'
  BY <1>1, <1>11 DEF DInv, PendingFollow, CallbacksFollow, Puts
<1>18. ToldOwn'
  <2>1. \A q \in Pollers : poller'[q].pc = "invoke" =>
            /\ poller'[q].res.req.id = poller'[q].cb.id
            /\ \/ poller'[q].res.req = poller'[q].cb
               \/ poller'[q].res.req.session < poller'[q].cb.session
    BY <1>3, <1>7, <1>8, <1>14 DEF DInv, ToldOwn
  <2> QED
    BY <1>1, <2>1 DEF DInv, ToldOwn
<1>19. LastFollows'
  <2>1. ASSUME open, NEW q \in Pollers, Holds(q)', IsLast(poller'[q].res)
        PROVE  IsEnd(poller[q].res)'
    <3>1. IsEnd(poller'[q].res)
      BY <1>10, <2>1 DEF DInv, LastFollows
    <3> QED
      BY <1>1, <3>1 DEF IsEnd
  <2> QED
    BY <1>1, <2>1 DEF DInv, LastFollows, IsLast, IsEnd
<1>20. \A r : /\ Regular(r)' <=> Regular(r)
              /\ Registered(r)' <=> Registered(r)
              /\ GivenOut(r)' <=> GivenOut(r)
  BY <1>1 DEF Regular, GivenOut, Registered, Puts
<1>21. RegularFollow'
  BY <1>1, <1>9, <1>10, <1>11, <1>20 DEF DInv, RegularFollow
<1>22. InOrder'
  <2>1. ~doubled => InHand' = InHand
    <3>1. ASSUME ~doubled
          PROVE  InHand = <<y>> /\ InHand' = <<y>>
      <4>1. Goes(p, x) /\ p \in Live
        BY <1>1, <1>5 DEF Goes, Places, Live
      <4> QED
        BY <1>1, <1>2, <1>5, <3>1, <4>1, HandMoves DEF Carried
    <3> QED
      BY <3>1
  <2> QED
    BY <1>1, <1>20, <2>1 DEF DInv, InOrder, Regular
<1> QED
  BY <1>15, <1>16, <1>17, <1>18, <1>19, <1>21, <1>22 DEF DInv

\* A result with no callback in the map is not one of a regular request.
LEMMA GetNothing ==
    ASSUME IInv, DInv, NEW p \in Pollers, GetCallback(p),
           poller[p].res.req.id \notin DOMAIN callbacks
    PROVE  DInv'
<1>1. /\ UNCHANGED <<open, session, nextId, pending, results, given, stale, caller, lock,
                     callbacks, told, threw, doubled>>
      /\ poller[p].pc = "get" /\ lock = NoOne /\ Holds(p)
  BY DEF GetCallback, java, sdk, Holds
<1>2. PICK y \in Responses : y = poller[p].res
  BY <1>1 DEF DInv, DataTypes
<1>3. PICK x : x = [pc |-> "poll"]
  OBVIOUS
<1>4. poller' = [poller EXCEPT ![p] = x] /\ x.pc = "poll"
  BY <1>3 DEF GetCallback
<1>5. \A q \in Pollers : poller'[q] = IF q = p THEN x ELSE poller[q]
  BY <1>4, PollerMoves
<1>6. poller'[p].pc = "poll"
  BY <1>4, <1>5
<1>7. \A q \in Pollers : q = p \/ poller'[q] = poller[q]
  BY <1>5
<1>8. \A q \in Pollers : poller'[q].pc \in {"get", "remove", "invoke"} => poller'[q] = poller[q]
  BY <1>6, <1>7
<1>9. \A q \in Pollers : Holds(q)' => Holds(q) /\ poller'[q] = poller[q]
  BY <1>8 DEF Holds
<1>10. \A r : Coming(r)' => Coming(r)
  BY <1>1, <1>8 DEF Coming
<1>11. DataTypes'
  <2>1. \A q \in Pollers : Holds(q)' => poller'[q].res \in Responses
    BY <1>9 DEF DInv, DataTypes
  <2>2. \A q \in Pollers : poller'[q].pc = "invoke" => poller'[q].cb \in Requests
    BY <1>8 DEF DInv, DataTypes
  <2> QED
    BY <1>1, <2>1, <2>2 DEF DInv, DataTypes, Puts
<1>12. SessionsFollow' /\ PendingFollow' /\ CallbacksFollow' /\ ToldOwn'
  BY <1>1, <1>8, <1>10
     DEF DInv, SessionsFollow, PendingFollow, CallbacksFollow, ToldOwn, Puts, GivenOut
<1>13. LastFollows'
  BY <1>1, <1>9 DEF DInv, LastFollows, IsEnd, IsLast
<1>14. \A r : /\ Regular(r)' <=> Regular(r)
              /\ Registered(r)' <=> Registered(r)
              /\ GivenOut(r)' <=> GivenOut(r)
  BY <1>1 DEF Regular, GivenOut, Registered, Puts
<1>15. RegularFollow'
  BY <1>1, <1>8, <1>9, <1>10, <1>14 DEF DInv, RegularFollow
<1>16. InOrder'
  <2>1. ASSUME NEW r \in Requests, Regular(r)
        PROVE  \E k \in 0 .. given[r] : \E m \in k .. given[r] :
                    /\ Carries(told[r], r, 0, k)
                    /\ Carries(InHand', r, k, m)
                    /\ Carries(results, r, m, given[r])
    <3>1. InHand = <<y>> /\ InHand' = <<>>
      <4>1. Goes(p, x) /\ p \in Live /\ ~doubled
        BY <1>1, <1>4, <2>1 DEF Goes, Places, Live, Regular
      <4> QED
        BY <1>1, <1>2, <1>4, <4>1, HandMoves DEF Carried
    <3>2. y.req # r
      <4>1. SUFFICES ASSUME y.req = r PROVE FALSE
        OBVIOUS
      <4>2. Coming(r)
        BY <1>1, <1>2, <4>1 DEF Coming
      <4>3. Registered(r)
        BY <2>1, <4>2 DEF DInv, RegularFollow
      <4>4. r.id \in DOMAIN callbacks
        BY <1>1, <4>3, NobodyPuts DEF Registered
      <4> QED
        BY <1>2, <4>1, <4>4
    <3>3. PICK g : g = given[r]
      OBVIOUS
    <3>4. g \in Nat
      BY <2>1, <3>3, OrderOf
    <3>5. PICK k \in 0 .. g : \E m \in k .. g :
                    /\ k \in Nat /\ m \in Nat /\ k <= m
                    /\ Carries(told[r], r, 0, k)
                    /\ Carries(InHand, r, k, m)
                    /\ Carries(results, r, m, g)
      BY <2>1, <3>3, OrderOf
    <3>6. PICK m \in k .. g :
                    /\ k \in Nat /\ m \in Nat /\ k <= m
                    /\ Carries(told[r], r, 0, k)
                    /\ Carries(InHand, r, k, m)
                    /\ Carries(results, r, m, g)
      BY <3>5
    <3>7. m = k
      BY <3>1, <3>2, <3>6, CarriesOne
    <3>8. Carries(<<>>, r, k, k)
      BY <3>6, CarriesNone
    <3> QED
      BY <3>1, <3>3, <3>5, <3>6, <3>7, <3>8
  <2> QED
    BY <1>1, <1>14, <2>1 DEF InOrder
<1> QED
  BY <1>11, <1>12, <1>13, <1>15, <1>16 DEF DInv

\* A callback runs: the result in the hand is told, and is of the request it was put for
\* when that is a regular one.  After a last result nothing of the request comes, and a
\* callback that threw is not regular.
LEMMA InvokeResults ==
    ASSUME IInv, DInv, NEW p \in Pollers, Invoke(p)
    PROVE  DInv'
<1>1. /\ UNCHANGED <<open, session, nextId, pending, results, given, stale, caller, lock,
                     callbacks, doubled>>
      /\ poller[p].pc = "invoke" /\ Holds(p)
  BY DEF Invoke, sdk, Holds
<1>2. PICK y \in Responses : y = poller[p].res
  BY <1>1 DEF DInv, DataTypes
<1>3. PICK cb \in Requests : cb = poller[p].cb
  BY <1>1 DEF DInv, DataTypes
<1>4. PICK throws \in BOOLEAN :
        /\ told' = [told EXCEPT ![cb] = Append(told[cb], y)]
        /\ threw' = IF throws THEN threw \cup {cb} ELSE threw
        /\ poller' = [poller EXCEPT ![p] =
                IF IsLast(y) \/ throws THEN [pc |-> "remove", id |-> y.req.id] ELSE [pc |-> "poll"]]
  BY <1>2, <1>3 DEF Invoke
<1>5. PICK x : x = IF IsLast(y) \/ throws THEN [pc |-> "remove", id |-> y.req.id] ELSE [pc |-> "poll"]
  OBVIOUS
<1>6. /\ poller' = [poller EXCEPT ![p] = x] /\ x.pc \in {"poll", "remove"}
      /\ x.pc = "remove" => x.id = y.req.id /\ (IsLast(y) \/ throws)
  BY <1>4, <1>5
<1>7. \A q \in Pollers : poller'[q] = IF q = p THEN x ELSE poller[q]
  BY <1>6, PollerMoves
<1>8. poller'[p] = x
  BY <1>7
<1>9. \A q \in Pollers : q = p \/ poller'[q] = poller[q]
  BY <1>7
<1>10. \A q \in Pollers : poller'[q].pc \in {"get", "invoke"} => poller'[q] = poller[q]
  BY <1>6, <1>8, <1>9
<1>11. \A q \in Pollers : Holds(q)' => Holds(q) /\ poller'[q] = poller[q]
  BY <1>10 DEF Holds
<1>12. \A r : Coming(r)' => Coming(r)
  BY <1>1, <1>10 DEF Coming
<1>13. /\ GivenOut(y.req) /\ cb.session <= session
       /\ y.req.id = cb.id
       /\ y.req = cb \/ y.req.session < cb.session
  BY <1>1, <1>2, <1>3 DEF DInv, SessionsFollow, ToldOwn
<1>14. told \in [Requests -> Seq(Responses)]
  BY DEF DInv, DataTypes
<1>15. /\ told' \in [Requests -> Seq(Responses)] /\ told'[cb] = Append(told[cb], y)
       /\ \A r \in Requests : r # cb => told'[r] = told[r]
  BY <1>4, <1>14
<1>16. DataTypes'
  <2>1. \A q \in Pollers : Holds(q)' => poller'[q].res \in Responses
    BY <1>11 DEF DInv, DataTypes
  <2>2. \A q \in Pollers : poller'[q].pc = "invoke" => poller'[q].cb \in Requests
    BY <1>10 DEF DInv, DataTypes
  <2> QED
    BY <1>1, <1>15, <2>1, <2>2 DEF DInv, DataTypes, Puts
<1>17. SessionsFollow'
  <2>1. \A r \in Requests : r.session > session => given[r] = 0 /\ told'[r] = <<>>
    <3>1. SUFFICES ASSUME NEW r \in Requests, r.session > session
                   PROVE  given[r] = 0 /\ told'[r] = <<>>
      OBVIOUS
    <3>2. session \in Nat
      BY DEF DInv, DataTypes
    <3>3. r # cb
      BY <1>13, <3>1, <3>2, Fields
    <3> QED
      BY <1>15, <3>1, <3>3 DEF DInv, SessionsFollow
  <2> QED
    BY <1>1, <1>10, <1>12, <2>1 DEF DInv, SessionsFollow, Puts, GivenOut
<1>18. PendingFollow' /\ CallbacksFollow'
  BY <1>1, <1>12 DEF DInv, PendingFollow, CallbacksFollow, Puts
<1>19. ToldOwn'
  <2>1. ASSUME NEW r \in Requests, NEW i \in DOMAIN told'[r]
        PROVE  told'[r][i].req = r \/ told'[r][i].req.session < r.session
    <3>1. CASE r # cb
      <4>1. told'[r] = told[r]
        BY <1>15, <3>1
      <4> QED
        BY <2>1, <4>1 DEF DInv, ToldOwn
    <3>2. CASE r = cb
      <4>1. PICK s \in Seq(Responses) : s = told[r]
        BY <1>14
      <4>2. told'[r] = Append(s, y)
        BY <1>15, <3>2, <4>1
      <4>3. told'[r][i] = y \/ (i \in DOMAIN s /\ told'[r][i] = s[i])
        <5>1. PICK n \in Nat : n = Len(s)
          BY <4>1
        <5>2. PICK t : t = told'[r]
          OBVIOUS
        <5>3. /\ DOMAIN s = 1 .. n /\ DOMAIN t = 1 .. (n + 1) /\ t[n + 1] = y
              /\ \A j \in 1 .. n : t[j] = s[j]
          BY <4>2, <5>1, <5>2
        <5>4. i = n + 1 \/ i \in 1 .. n
          BY <2>1, <5>2, <5>3
        <5>5. t[i] = y \/ (i \in DOMAIN s /\ t[i] = s[i])
          BY <5>3, <5>4
        <5> QED
          BY <5>2, <5>5
      <4> QED
        BY <1>13, <3>2, <4>1, <4>3 DEF DInv, ToldOwn
    <3> QED
      BY <3>1, <3>2
  <2> QED
    BY <1>10, <2>1 DEF DInv, ToldOwn
<1>20. LastFollows'
  BY <1>1, <1>11 DEF DInv, LastFollows, IsEnd, IsLast
<1>21. \A r : /\ Regular(r)' => Regular(r)
              /\ Registered(r)' <=> Registered(r)
              /\ GivenOut(r)' <=> GivenOut(r)
  BY <1>1, <1>4 DEF Regular, GivenOut, Registered, Puts
<1>22. ASSUME NEW r \in Requests, Regular(r), r.id = y.req.id
       PROVE  y.req = r /\ cb = r
  <2>1. r.session = session /\ ~doubled /\ r \notin stale
    BY <1>22 DEF Regular
  <2>2. y.req.session = session \/ [session |-> session, id |-> y.req.id] \in stale
    BY <1>1, <1>2, <2>1 DEF DInv, RegularFollow
  <2>3. r = [session |-> session, id |-> y.req.id]
    BY <1>22, <2>1 DEF Requests
  <2>4. y.req.session = session /\ y.req \in Requests
    BY <1>2, <2>1, <2>2, <2>3, Fields
  <2>5. y.req = r
    BY <1>22, <2>1, <2>4, Fields
  <2>6. session \in Nat
    BY DEF DInv, DataTypes
  <2>7. ~(y.req.session < cb.session)
    BY <1>3, <1>13, <2>4, <2>6, Fields
  <2> QED
    BY <1>13, <2>5, <2>7
<1>23. ASSUME NEW r \in Requests, Regular(r)
       PROVE  InHand = <<y>> /\ InHand' = <<>> /\ (y.req = r <=> cb = r)
  <2>1. Goes(p, x) /\ p \in Live /\ ~doubled
    BY <1>1, <1>6, <1>23 DEF Goes, Places, Live, Regular
  <2>2. InHand = <<y>> /\ InHand' = <<>>
    BY <1>1, <1>2, <1>6, <2>1, HandMoves DEF Carried
  <2>3. y.req = r => cb = r
    BY <1>22, <1>23
  <2>4. cb = r => y.req = r
    BY <1>13, <1>22, <1>23
  <2> QED
    BY <2>2, <2>3, <2>4
<1>24. ASSUME NEW r \in Requests, Regular(r), y.req = r, IsLast(y)
       PROVE  ~Coming(r)'
  <2>1. IsEnd(y) /\ r.session = session /\ ~doubled
    BY <1>1, <1>2, <1>24 DEF Regular, DInv, LastFollows
  <2>2. PICK g : g = given[r]
    OBVIOUS
  <2>3. g \in Nat
    BY <1>24, <2>2, OrderOf
  <2>4. PICK k \in 0 .. g : \E m \in k .. g :
                    /\ k \in Nat /\ m \in Nat /\ k <= m
                    /\ Carries(told[r], r, 0, k)
                    /\ Carries(InHand, r, k, m)
                    /\ Carries(results, r, m, g)
    BY <1>24, <2>2, OrderOf
  <2>5. PICK m \in k .. g :
                    /\ k \in Nat /\ m \in Nat /\ k <= m
                    /\ Carries(told[r], r, 0, k)
                    /\ Carries(InHand, r, k, m)
                    /\ Carries(results, r, m, g)
    BY <2>4
  <2>6. y.n = g /\ \A i \in DOMAIN pending : pending[i] # r
    BY <1>24, <2>1, <2>2 DEF IsEnd
  <2>7. m = g
    <3>1. Carries(<<y>>, r, k, m)
      BY <1>23, <1>24, <2>5
    <3>2. y.n = k + 1 /\ m = k + 1
      BY <1>24, <2>5, <3>1, CarriesOne
    <3> QED
      BY <2>6, <3>2
  <2>8. \A i \in DOMAIN results : results[i].req # r
    BY <2>3, <2>5, <2>7, CarriesNothing
  <2>9. \A q \in Pollers : poller'[q].pc # "get"
    <3>1. p = handle /\ \A q \in Pollers : poller[q].pc = "get" => q = handle
      BY <1>1, <2>1 DEF IInv, HandleFollows, Live
    <3> QED
      BY <1>1, <1>10, <3>1
  <2> QED
    BY <1>1, <2>6, <2>8, <2>9 DEF Coming
<1>25. RegularFollow'
  <2>1. ASSUME NEW q \in Pollers, poller'[q].pc = "remove", NEW r \in Requests, Regular(r)',
               r.id = poller'[q].id
        PROVE  ~Coming(r)' /\ GivenOut(r)'
    <3>1. CASE q = p
      <4>1. y.req = r /\ cb = r /\ (IsLast(y) \/ throws)
        BY <1>6, <1>8, <1>21, <1>22, <2>1, <3>1
      <4>2. ~throws
        BY <1>4, <2>1, <4>1 DEF Regular
      <4> QED
        BY <1>13, <1>21, <1>24, <2>1, <4>1, <4>2
    <3>2. CASE q # p
      <4>1. poller'[q] = poller[q]
        BY <1>9, <3>2
      <4> QED
        BY <1>12, <1>21, <2>1, <4>1 DEF DInv, RegularFollow
    <3> QED
      BY <3>1, <3>2
  <2> QED
    BY <1>1, <1>11, <1>12, <1>21, <2>1 DEF DInv, RegularFollow
<1>26. InOrder'
  <2>1. ASSUME NEW r \in Requests, Regular(r)
        PROVE  \E k \in 0 .. given[r] : \E m \in k .. given[r] :
                    /\ Carries(told'[r], r, 0, k)
                    /\ Carries(InHand', r, k, m)
                    /\ Carries(results, r, m, given[r])
    <3>1. PICK g : g = given[r]
      OBVIOUS
    <3>2. g \in Nat
      BY <2>1, <3>1, OrderOf
    <3>3. PICK k \in 0 .. g : \E m \in k .. g :
                    /\ k \in Nat /\ m \in Nat /\ k <= m
                    /\ Carries(told[r], r, 0, k)
                    /\ Carries(InHand, r, k, m)
                    /\ Carries(results, r, m, g)
      BY <2>1, <3>1, OrderOf
    <3>4. PICK m \in k .. g :
                    /\ k \in Nat /\ m \in Nat /\ k <= m
                    /\ Carries(told[r], r, 0, k)
                    /\ Carries(InHand, r, k, m)
                    /\ Carries(results, r, m, g)
      BY <3>3
    <3>5. Carries(InHand', r, m, m) /\ Carries(<<y>>, r, k, m)
      <4>1. InHand = <<y>> /\ InHand' = <<>>
        BY <1>23, <2>1
      <4>2. Carries(<<>>, r, m, m)
        BY <3>4, CarriesNone
      <4> QED
        BY <3>4, <4>1, <4>2
    <3>6. CASE y.req = r
      <4>1. y.n = k + 1 /\ m = k + 1
        BY <3>4, <3>5, <3>6, CarriesOne
      <4>2. PICK s \in Seq(Responses) : s = told[r]
        BY <1>14
      <4>3. PICK t : t = told'[r]
        OBVIOUS
      <4>4. t = Append(s, y)
        BY <1>15, <1>23, <2>1, <3>6, <4>2, <4>3
      <4>5. 0 \in Nat /\ 0 <= k /\ k \in Nat /\ Carries(s, r, 0, k)
        BY <3>4, <4>2
      <4>6. Carries(t, r, 0, m)
        BY <3>6, <4>1, <4>4, <4>5, CarriesAppend
      <4>7. m \in 0 .. g /\ m \in m .. g
        BY <3>2, <3>4
      <4> QED
        BY <3>1, <3>4, <3>5, <4>3, <4>6, <4>7
    <3>7. CASE y.req # r
      <4>1. m = k
        BY <3>4, <3>5, <3>7, CarriesOne
      <4>2. told'[r] = told[r]
        BY <1>15, <1>23, <2>1, <3>7
      <4> QED
        BY <3>1, <3>3, <3>4, <3>5, <4>1, <4>2
    <3> QED
      BY <3>6, <3>7
  <2> QED
    BY <1>1, <1>21, <2>1 DEF InOrder
<1> QED
  BY <1>16, <1>17, <1>18, <1>19, <1>20, <1>25, <1>26 DEF DInv

\* A callback leaves the map: of a request that nothing more comes for, unless it is
\* not a regular one.
LEMMA RemoveResults ==
    ASSUME IInv, DInv, NEW p \in Pollers, RemoveCallback(p)
    PROVE  DInv'
<1>1. /\ UNCHANGED <<open, session, nextId, pending, results, given, stale, caller, lock,
                     told, threw, doubled>>
      /\ poller[p].pc = "remove" /\ lock = NoOne
      /\ callbacks' = [i \in DOMAIN callbacks \ {poller[p].id} |-> callbacks[i]]
  BY DEF RemoveCallback, sdk
<1>2. PICK x : x = [pc |-> "poll"]
  OBVIOUS
<1>3. poller' = [poller EXCEPT ![p] = x] /\ x.pc = "poll"
  BY <1>2 DEF RemoveCallback
<1>4. \A q \in Pollers : poller'[q] = IF q = p THEN x ELSE poller[q]
  BY <1>3, PollerMoves
<1>5. poller'[p].pc = "poll" /\ \A q \in Pollers : q = p \/ poller'[q] = poller[q]
  BY <1>3, <1>4
<1>6. \A q \in Pollers : /\ poller'[q].pc \in {"get", "remove", "invoke"} => poller'[q] = poller[q]
                         /\ poller[q].pc = "get" => poller'[q] = poller[q]
  BY <1>1, <1>5
<1>7. \A q \in Pollers : Holds(q)' => Holds(q) /\ poller'[q] = poller[q]
  BY <1>6 DEF Holds
<1>8. \A r : Coming(r)' <=> Coming(r)
  BY <1>1, <1>6 DEF Coming
<1>9. DOMAIN callbacks' = DOMAIN callbacks \ {poller[p].id}
  BY <1>1
<1>10. \A i \in DOMAIN callbacks' : i \in DOMAIN callbacks /\ callbacks'[i] = callbacks[i]
  BY <1>1
<1>11. DataTypes'
  <2>1. \A q \in Pollers : Holds(q)' => poller'[q].res \in Responses
    BY <1>7 DEF DInv, DataTypes
  <2>2. \A q \in Pollers : poller'[q].pc = "invoke" => poller'[q].cb \in Requests
    BY <1>6 DEF DInv, DataTypes
  <2>3. \A i \in DOMAIN callbacks' : callbacks'[i] \in Requests /\ callbacks'[i].id = i
    BY <1>10 DEF DInv, DataTypes
  <2> QED
    BY <1>1, <2>1, <2>2, <2>3 DEF DInv, DataTypes, Puts
<1>12. SessionsFollow' /\ PendingFollow' /\ CallbacksFollow' /\ ToldOwn'
  BY <1>1, <1>6, <1>8, <1>10
     DEF DInv, SessionsFollow, PendingFollow, CallbacksFollow, ToldOwn, Puts, GivenOut
<1>13. LastFollows'
  BY <1>1, <1>7 DEF DInv, LastFollows, IsEnd, IsLast
<1>14. \A r : /\ Regular(r)' <=> Regular(r)
              /\ GivenOut(r)' <=> GivenOut(r)
  BY <1>1 DEF Regular, GivenOut
<1>15. ASSUME NEW r \in Requests, Regular(r), Coming(r)
       PROVE  Registered(r)'
  <2>1. r.id # poller[p].id
    BY <1>1, <1>15 DEF DInv, RegularFollow
  <2>2. r.id \in DOMAIN callbacks /\ callbacks[r.id] = r
    BY <1>1, <1>15, NobodyPuts DEF DInv, RegularFollow, Registered
  <2>3. r.id \in DOMAIN callbacks' /\ callbacks'[r.id] = r
    BY <1>9, <1>10, <2>1, <2>2
  <2> QED
    BY <2>3 DEF Registered
<1>16. RegularFollow'
  BY <1>1, <1>6, <1>7, <1>8, <1>14, <1>15 DEF DInv, RegularFollow
<1>17. InOrder'
  <2>1. ~doubled => InHand' = InHand
    <3>1. ASSUME ~doubled
          PROVE  InHand = <<>> /\ InHand' = <<>>
      <4>1. Goes(p, x) /\ p \in Live
        BY <1>1, <1>3 DEF Goes, Places, Live
      <4> QED
        BY <1>1, <1>3, <3>1, <4>1, HandMoves DEF Carried
    <3> QED
      BY <3>1
  <2> QED
    BY <1>1, <1>14, <2>1 DEF DInv, InOrder, Regular
<1> QED
  BY <1>11, <1>12, <1>13, <1>16, <1>17 DEF DInv

\* Every step keeps where the results and the callbacks are.
LEMMA ResultsStep == IInv /\ DInv /\ [Next]_vars => DInv'
<1> SUFFICES ASSUME IInv, DInv, [Next]_vars PROVE DInv'
  OBVIOUS
<1>1. CASE Prepare
  BY <1>1, PrepareResults
<1>2. CASE ReleaseNative
  BY <1>2, ReleaseResults
<1>3. CASE Join \/ Drop \/ Delete
  BY <1>3, UntouchedResults DEF Join, Drop, Delete, results_vars
<1>4. CASE NativeResult
  BY <1>4, NativeResultResults
<1>5. CASE \E c \in Callers : PutNative(c) \/ PutCallback(c)
  BY <1>5, PutNativeResults, PutCallbackResults
<1>6. ASSUME NEW p \in Pollers, Poll(p)
      PROVE  DInv'
  <2>1. CASE open
    BY <1>6, <2>1, PollResults
  <2>2. CASE ~open
    <3>1. PICK x : x = [pc |-> "leave"]
      OBVIOUS
    <3>2. /\ Goes(p, x) /\ x.pc = "leave" /\ poller[p].pc = "poll"
          /\ UNCHANGED <<sdk, caller, java, doubled>>
      BY <1>6, <2>2, <3>1 DEF Poll, Goes, Places, sdk
    <3>3. poller[p].pc \notin Carried /\ x.pc \notin Carried \cup {"remove"}
      BY <3>2 DEF Carried
    <3> QED
      BY <3>2, <3>3, EmptyHandStep
  <2> QED
    BY <2>1, <2>2
<1>7. ASSUME NEW p \in Pollers, Leave(p)
      PROVE  DInv'
  <2>1. PICK x : x = [pc |-> "done"]
    OBVIOUS
  <2>2. /\ Goes(p, x) /\ x.pc = "done" /\ poller[p].pc = "leave"
        /\ UNCHANGED <<sdk, caller, java, doubled>>
    BY <1>7, <2>1 DEF Leave, Goes, Places
  <2>3. poller[p].pc \notin Carried /\ x.pc \notin Carried \cup {"remove"}
    BY <2>2 DEF Carried
  <2> QED
    BY <2>2, <2>3, EmptyHandStep
<1>8. CASE \E p \in Pollers : GetCallback(p)
  BY <1>8, GetFound, GetNothing
<1>9. CASE \E p \in Pollers : Invoke(p) \/ RemoveCallback(p)
  BY <1>9, InvokeResults, RemoveResults
<1>10. CASE ReleaseNotifies \/ \E p \in Pollers : PollSleeps(p) \/ SpuriousWakeup(p)
  BY <1>10, UntouchedResults DEF ReleaseNotifies, PollSleeps, SpuriousWakeup, results_vars
<1>11. CASE UNCHANGED vars
  BY <1>11, UntouchedResults DEF vars, results_vars
<1> QED
  BY <1>1, <1>2, <1>3, <1>4, <1>5, <1>6, <1>7, <1>8, <1>9, <1>10, <1>11 DEF Next

\* Where the results and the callbacks are, in every reachable state.
THEOREM ResultsInvariant == Spec => []DInv
<1>1. Init => DInv
  BY ResultsInit
<1>2. IInv /\ DInv /\ [Next]_vars => DInv'
  BY ResultsStep
<1>3. Spec => []IInv
  BY InvariantHolds
<1> QED
  BY <1>1, <1>2, <1>3, PTL DEF Spec

\* Every result of a request reaches its callback once and in order, however early
\* it comes and whatever the application does meanwhile, but for the three cases that
\* Delivered excepts (Speech.java:47-60 and 99-145, com_rokid_speech_Speech.cc:76-87).
THEOREM DeliveredHolds == Spec => []Delivered
<1>1. DInv => Delivered
  BY DEF DInv, ToldOwn, InOrder, Regular, Delivered
<1> QED
  BY <1>1, ResultsInvariant, PTL
===============================================================================

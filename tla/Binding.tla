-------------------------------- MODULE Binding --------------------------------
(***************************************************************************)
(* The Android binding of one Speech (or Tts) object: the Java class with   *)
(* its map of callbacks (Speech.java, Tts.java) and the native methods with *)
(* their poll thread (com_rokid_speech_Speech.cc, com_rokid_speech_Tts.cc). *)
(*                                                                          *)
(* The SDK below is what Speech.tla and Tts.tla show of it: the results of  *)
(* a request come in order, requests one after the other, poll() sleeps on  *)
(* resp_cond_ while there is none, each notify wakes one of its sleepers,   *)
(* it returns false when it finds the SDK released, and results of          *)
(* operations that had ended may be left over for the next session, whose   *)
(* ids begin again.  release() of the SDK may hang, as that of Tts does.    *)
(* The application calls prepare() and release() from one thread, and not   *)
(* from a callback, where release() would join the thread it runs on.       *)
(***************************************************************************)
EXTENDS Integers, Sequences, FiniteSets, SequencesExt

CONSTANTS Callers,        \* threads that put requests
          Pollers,        \* names for the poll threads, one for each prepare()
          Sessions, Ids,  \* numbers of sessions, and of requests in the first (then one)
          MaxResults,     \* results of a request
          NoOne           \* null

ASSUME BoundsAssumption ==
    Sessions \in Nat /\ Ids \in Nat \ {0} /\ MaxResults \in Nat \ {0}

ASSUME NullAssumption == NoOne \notin Pollers \cup Callers

\* A request is named by its session and its id, which is all that Java knows.
Requests == [session : 1 .. Sessions, id : 1 .. Ids]
Result(r, n, last) == [req |-> r, n |-> n, last |-> last]

VARIABLES
    open,       \* initialized_ of the SDK
    session,    \* how many times it was prepared
    nextId,     \* the last id given out in this session
    pending,    \* the requests it has not given the last result of, in order
    results,    \* what poll() will return
    poller,     \* the poll threads: where each is, with the result and callback in hand
    asleep,     \* those of them that sleep on resp_cond_ in poll()
    handle,     \* SpeechNativeInfo::poll_thread
    refs,       \* the global references to the Java object that are held
    control,    \* where the thread is that calls prepare() and release()
    caller,     \* where a putText() or startVoice() is, with its id
    lock,       \* who is in synchronized (_callbacks)
    callbacks,  \* _callbacks: from ids to the requests they were put for
    object,     \* the Java object: "used", "dropped" by the application, "deleted"
    given, told, threw, stale, doubled     \* history: results given of each request, results
                \* its callback was told, callbacks that threw,
                \* requests with the id of a result left over, a prepare() too many

sdk == <<open, session, nextId, pending, results, given, stale>>
java == <<lock, callbacks, told, threw>>
vars == <<sdk, poller, asleep, handle, refs, control, caller, java, object, doubled>>

Init ==
    /\ open = FALSE /\ session = 0 /\ nextId = 0 /\ pending = <<>> /\ results = <<>>
    /\ stale = {}
    /\ poller = [p \in Pollers |-> [pc |-> "none"]] /\ asleep = {}
    /\ handle = NoOne /\ refs = 0
    /\ control = "idle"
    /\ caller = [c \in Callers |-> [pc |-> "idle"]]
    /\ lock = NoOne
    /\ callbacks = [i \in {} |-> 0]
    /\ object = "used"
    /\ given = [r \in Requests |-> 0]
    /\ told = [r \in Requests |-> <<>>]
    /\ threw = {} /\ doubled = FALSE

-----------------------------------------------------------------------------
(* prepare() and release().                                                 *)

\* Variant: start() is given thiz itself.
BorrowedRef == UNCHANGED refs

NewGlobalRef == refs' = refs + 1

\* SpeechImpl::prepare() succeeds when it is open already, too: either way
\* there is a new poll thread, with a reference of its own, in the handle.
Prepare ==
    /\ control = "idle" /\ object = "used"
    /\ open \/ session < Sessions
    /\ open' = TRUE
    /\ IF open THEN UNCHANGED <<session, nextId>> ELSE session' = session + 1 /\ nextId' = 0
    /\ doubled' = (doubled \/ open)
    /\ \E p \in Pollers : poller[p].pc = "none"
    /\ handle' = CHOOSE p \in Pollers : poller[p].pc = "none"
    /\ poller' = [poller EXCEPT ![handle'] = [pc |-> "poll"]]
    /\ NewGlobalRef
    /\ UNCHANGED <<pending, results, given, stale, asleep, control, caller, java, object>>

\* The last results that were not polled, in order.
Ended ==
    LET last == {i \in DOMAIN results : results[i].last}
        listed == {at \in [1 .. Cardinality(last) -> last] :
                        \A i, j \in DOMAIN at : i < j => at[i] < at[j]}
    IN  {[i \in DOMAIN at |-> results[at[i]]] : at \in listed}

\* The current request, which ends with an error.
Interrupted ==
    IF pending = <<>> THEN <<>>
    ELSE <<Result(Head(pending), given[Head(pending)] + 1, TRUE)>>

\* What stays of the operations when the SDK is released.
Leftover == {<<>>} \cup Ended \cup {s \o Interrupted : s \in Ended}

\* Variant: the poll thread is not joined.
NotJoined == IF object = "dropped" THEN "delete" ELSE "idle"

AfterRelease ==
    IF handle # NoOne THEN "join" ELSE IF object = "dropped" THEN "delete" ELSE "idle"

\* Variant: release() is synchronized.
HoldsLock == lock = NoOne /\ lock' = "release"

ReleaseLock == UNCHANGED lock

\* resp_cond_.notify_one(): any one of those asleep wakes up.
NotifyOne ==
    \/ \E p \in asleep : asleep' = asleep \ {p}
    \/ asleep = {} /\ UNCHANGED asleep

\* release() of the SDK up to its join of send_reqs, which does not return
\* while that sleeps in wait_op_finish() of Tts ("hung").
ReleaseNative ==
    /\ control = "idle" /\ object # "deleted"
    /\ object = "used" \/ refs = 0          \* the call of finalize()
    /\ IF open THEN /\ open' = FALSE /\ pending' = <<>> /\ results' \in Leftover
               ELSE UNCHANGED <<open, pending, results>>
    /\ IF open THEN control' \in {"release", "hung"} ELSE control' = AfterRelease
    /\ ReleaseLock
    /\ UNCHANGED <<session, nextId, given, stale, poller, asleep, handle, refs, caller,
                   callbacks, told, threw, object, doubled>>

\* The rest of it, which wakes one poll thread.
ReleaseNotifies ==
    /\ control = "release"
    /\ NotifyOne
    /\ control' = AfterRelease
    /\ UNCHANGED <<sdk, poller, handle, refs, caller, java, object, doubled>>

\* SpeechPollThread::close() and the delete of it.
Join ==
    /\ control = "join" /\ poller[handle].pc = "done"
    /\ handle' = NoOne
    /\ control' = IF object = "dropped" THEN "delete" ELSE "idle"
    /\ UNCHANGED <<sdk, poller, asleep, refs, caller, java, object, doubled>>

\* The application lets the object go; nobody is in a call to it.  When no
\* global reference is left, finalize() releases and deletes it.
Drop ==
    /\ object = "used" /\ control = "idle" /\ \A c \in Callers : caller[c].pc = "idle"
    /\ object' = "dropped"
    /\ UNCHANGED <<sdk, poller, asleep, handle, refs, control, caller, java, doubled>>

Delete ==
    /\ control = "delete"
    /\ object' = "deleted" /\ control' = "idle"
    /\ UNCHANGED <<sdk, poller, asleep, handle, refs, caller, java, doubled>>

-----------------------------------------------------------------------------
(* putText() and startVoice() (and speak() of Tts).                         *)

\* Variant: the lock is not taken.
NotSynchronized(c) == UNCHANGED lock

Synchronized(c) == lock' = c

PutNative(c) ==
    /\ object = "used" /\ caller[c].pc = "idle" /\ lock = NoOne
    /\ open => nextId < IF session = 1 THEN Ids ELSE 1     \* the bound
    /\ LET r == [session |-> session, id |-> nextId + 1] IN
        IF open THEN /\ nextId' = nextId + 1 /\ pending' = Append(pending, r)
                     /\ caller' = [caller EXCEPT ![c] = [pc |-> "put", req |-> r]]
                     /\ Synchronized(c)
                ELSE UNCHANGED <<nextId, pending, caller, lock>>        \* id is -1
    /\ UNCHANGED <<open, session, results, given, stale, poller, asleep, handle, refs, control,
                   callbacks, told, threw, object, doubled>>

PutCallback(c) ==
    /\ caller[c].pc = "put"
    /\ callbacks' = [i \in DOMAIN callbacks \cup {caller[c].req.id} |->
            IF i = caller[c].req.id THEN caller[c].req ELSE callbacks[i]]
    /\ caller' = [caller EXCEPT ![c] = [pc |-> "idle"]]
    /\ lock' = NoOne
    /\ UNCHANGED <<sdk, poller, asleep, handle, refs, control, told, threw, object, doubled>>

-----------------------------------------------------------------------------
(* The SDK gives a result, the last one or not; cancel() is one way to it.  *)

\* No poll thread is told of one that came with a response of an unknown type;
\* it is never the last.
NativeResult ==
    /\ open /\ pending # <<>>
    /\ \E last \in BOOLEAN :
        LET r == Head(pending)
            n == given[r] + 1
        IN  /\ n = MaxResults => last
            /\ results' = Append(results, Result(r, n, last))
            /\ given' = [given EXCEPT ![r] = n]
            /\ pending' = IF last THEN Tail(pending) ELSE pending
            /\ NotifyOne \/ (~last /\ UNCHANGED asleep)
    /\ UNCHANGED <<open, session, nextId, stale, poller, handle, refs, control, caller, java,
                   object, doubled>>

-----------------------------------------------------------------------------
(* The poll thread.                                                         *)

\* do_poll(): poll(), and generate_result_object() of what it returns.
Poll(p) ==
    /\ poller[p].pc = "poll" /\ p \notin asleep
    /\ IF open
       THEN /\ results # <<>>
            /\ poller' = [poller EXCEPT ![p] = [pc |-> "get", res |-> Head(results)]]
            /\ results' = Tail(results)
            /\ stale' = IF Head(results).req.session = session THEN stale
                        ELSE stale \cup {[session |-> session, id |-> Head(results).req.id]}
       ELSE poller' = [poller EXCEPT ![p] = [pc |-> "leave"]] /\ UNCHANGED <<results, stale>>
    /\ UNCHANGED <<open, session, nextId, pending, given, asleep, handle, refs, control, caller, java,
                   object, doubled>>

PollSleeps(p) ==
    /\ poller[p].pc = "poll" /\ p \notin asleep
    /\ open /\ results = <<>>
    /\ asleep' = asleep \cup {p}
    /\ UNCHANGED <<sdk, poller, handle, refs, control, caller, java, object, doubled>>

\* A condition variable may wake its waiter without a notify.
SpuriousWakeup(p) ==
    /\ p \in asleep
    /\ asleep' = asleep \ {p}
    /\ UNCHANGED <<sdk, poller, handle, refs, control, caller, java, object, doubled>>

Leave(p) ==
    /\ poller[p].pc = "leave"
    /\ poller' = [poller EXCEPT ![p] = [pc |-> "done"]]
    /\ refs' = refs - 1
    /\ UNCHANGED <<sdk, asleep, handle, control, caller, java, object, doubled>>

\* handle_callback(): the lock is held to read and to change the map, not while
\* the callback runs.  The result names its request by the id.
GetCallback(p) ==
    /\ poller[p].pc = "get" /\ lock = NoOne
    /\ LET id == poller[p].res.req.id IN
       poller' = [poller EXCEPT ![p] =
            IF id \in DOMAIN callbacks
            THEN [pc |-> "invoke", res |-> poller[p].res, cb |-> callbacks[id]]
            ELSE [pc |-> "poll"]]
    /\ UNCHANGED <<sdk, asleep, handle, refs, control, caller, java, object, doubled>>

\* Variant: one result is all.
AnyResult(res) == TRUE

IsLast(res) == res.last                             \* END, CANCELLED or ERROR

\* An Exception of the callback counts as its last result (and is nothing more
\* when it is the last).  An Error is not caught: it would stay pending in the
\* native thread, whose next calls of the JVM are undefined then.  Callbacks
\* are taken to throw none.
Invoke(p) ==
    /\ poller[p].pc = "invoke"
    /\ LET cb == poller[p].cb
           res == poller[p].res
       IN  \E throws \in IF IsLast(res) THEN {FALSE} ELSE BOOLEAN :
            /\ told' = [told EXCEPT ![cb] = Append(@, res)]
            /\ threw' = IF throws THEN threw \cup {cb} ELSE threw
            /\ poller' = [poller EXCEPT ![p] =
                    IF IsLast(res) \/ throws THEN [pc |-> "remove", id |-> res.req.id] ELSE [pc |-> "poll"]]
    /\ UNCHANGED <<sdk, asleep, handle, refs, control, caller, lock, callbacks, object, doubled>>

RemoveCallback(p) ==
    /\ poller[p].pc = "remove" /\ lock = NoOne
    /\ callbacks' = [i \in DOMAIN callbacks \ {poller[p].id} |-> callbacks[i]]
    /\ poller' = [poller EXCEPT ![p] = [pc |-> "poll"]]
    /\ UNCHANGED <<sdk, asleep, handle, refs, control, caller, lock, told, threw, object, doubled>>

Next ==
    \/ Prepare \/ ReleaseNative \/ ReleaseNotifies \/ Join \/ Drop \/ Delete
    \/ NativeResult
    \/ \E c \in Callers : PutNative(c)
    \/ \E c \in Callers : PutCallback(c)
    \/ \E p \in Pollers : Poll(p)
    \/ \E p \in Pollers : PollSleeps(p)
    \/ \E p \in Pollers : SpuriousWakeup(p)
    \/ \E p \in Pollers : Leave(p)
    \/ \E p \in Pollers : GetCallback(p)
    \/ \E p \in Pollers : Invoke(p)
    \/ \E p \in Pollers : RemoveCallback(p)

\* The threads go on, unless they sleep, and the callbacks return; the SDK gives a
\* last result to every request, as Speech.tla and Tts.tla show, and its
\* release() goes on unless it hangs.
Fairness ==
    /\ WF_vars(NativeResult) /\ WF_vars(ReleaseNotifies) /\ WF_vars(Join)
    /\ \A c \in Callers : WF_vars(PutCallback(c))
    /\ \A p \in Pollers :
        /\ WF_vars(Poll(p)) /\ WF_vars(Leave(p)) /\ WF_vars(Invoke(p))
        /\ WF_vars(GetCallback(p)) /\ WF_vars(RemoveCallback(p))

Spec == Init /\ [][Next]_vars /\ Fairness

-----------------------------------------------------------------------------
(* Properties.                                                             *)

\* The results of r in s are those with the numbers after a up to b, in order.
Carries(s, r, a, b) ==
    /\ \A i \in DOMAIN s : s[i].req = r => s[i].n \in (a + 1) .. b
    /\ \A n \in (a + 1) .. b : \E i \in DOMAIN s : s[i].req = r /\ s[i].n = n
    /\ \A i, j \in DOMAIN s :
            i < j /\ s[i].req = r /\ s[j].req = r => s[i].n < s[j].n

InHand == LET p == CHOOSE q \in Pollers : poller[q].pc \in {"get", "invoke"} IN
    IF \E q \in Pollers : poller[q].pc \in {"get", "invoke"} THEN <<poller[p].res>> ELSE <<>>

\* No result is lost, told twice or out of order on its way to the callback,
\* however early it comes: those of a request are the ones told, the one in the
\* hand of the poll thread and the ones to be polled.  Excepted are a second
\* prepare(), whose two poll threads overtake each other, a callback that threw,
\* and a request with the id of one of the last session of which a result was
\* left: the callback is told that, or removed with it (Speech.java:47-60 and 99-145,
\* com_rokid_speech_Speech.cc:76-87 and 196).
Delivered ==
    \A r \in Requests :
        /\ \A i \in DOMAIN told[r] : told[r][i].req = r \/ told[r][i].req.session < r.session
        /\ open /\ r.session = session /\ ~doubled /\ r \notin threw /\ r \notin stale =>
            \E k \in 0 .. given[r] : \E m \in k .. given[r] :
                /\ Carries(told[r], r, 0, k)
                /\ Carries(InHand, r, k, m)
                /\ Carries(results, r, m, given[r])

\* After release() no callback runs, but for those of a poll thread that a
\* second prepare() replaced, and which release() does not join
\* (com_rokid_speech_Speech.cc:200-209).
QuietAfterRelease ==
    ~open /\ control = "idle" /\ ~doubled => \A p \in Pollers : poller[p].pc \in {"none", "done"}

\* finalize() never deletes what a poll thread still uses, second prepare()
\* or not: each of them holds a reference (com_rokid_speech_Speech.cc:67-72, 196).
DeletedAlone ==
    object = "deleted" => /\ \A p \in Pollers : poller[p].pc \in {"none", "done"}
                          /\ handle = NoOne /\ lock = NoOne

\* release() returns, also while callbacks run and requests are put.  Excepted
\* are the release() of the SDK that hangs itself ("hung", tts_impl.cc:91), and a
\* second prepare(): of its two poll threads asleep the one notify may wake the
\* one that is not joined (speech_impl.cc:161, com_rokid_speech_Speech.cc:200-209).
ReleaseReturns ==
    control \in {"release", "join"} ~>
        \/ control \notin {"release", "join"}
        \/ doubled /\ control = "join" /\ handle \in asleep

\* A callback put is told a last result, unless it threw or the SDK was
\* released first.
LastTold ==
    \A r \in Requests :
        r \in ToSet(pending) ~>
            \/ \E i \in DOMAIN told[r] : told[r][i].last
            \/ r \in threw \cup stale \/ doubled
            \/ ~open \/ session # r.session
=============================================================================

-------------------------------- MODULE Tts --------------------------------
(***************************************************************************)
(* The speech synthesis client: TtsImpl (src/tts/tts_impl.cc) over the same*)
(* OperationController and StreamQueue as Speech.  A request is one text,  *)
(* requests_ is a plain list, and cancel() holds both mutexes at once.     *)
(*                                                                         *)
(* Threads and locked regions are modelled as in Speech.  No thread touches*)
(* the operations without resp_mutex_ here, so the test and the wait of    *)
(* wait_op_finish() are one action.                                        *)
(***************************************************************************)
EXTENDS OperationController, StreamQueue, Integers

CONSTANTS
    MaxId,          \* bound: ids given out in one session
    MaxResults,     \* bound: voice results waiting in one response stream
    MaxSessions,    \* bound: calls of prepare() that do something
    MaxReleases,    \* bound: calls of release() that do something
    Spurious        \* condition variables that may wake up spuriously

ASSUME TtsBoundsAssumption ==
    /\ MaxId \in Nat /\ MaxResults \in Nat
    /\ MaxSessions \in Nat /\ MaxReleases \in Nat

ASSUME TtsSpuriousAssumption == Spurious \subseteq {"req", "resp", "op"}

Ids == 1..MaxId

Requests == [id : Nat, deleted : BOOLEAN]

ResponseStreams == Queues(Nat, {"VOICE"})

\* What poll() returns of one id; voice counts as "DATA".
Results == {"START", "DATA", "END", "CANCELLED", "ERROR"}

VARIABLES
    initialized,    \* initialized_
    sessions,       \* sessions prepared so far
    nextId,         \* next_id_
    requests,       \* requests_
    responses,      \* responses_
    appPc,          \* the thread that calls speak()
    sendPc,         \* the send_reqs thread
    reqId,          \* the id of its `req'
    recvPc,         \* the gen_results thread
    pollPc,         \* the polling thread
    relPc,          \* the lifecycle thread
    sent,           \* ids the server has been sent this session
    told            \* per id, the results poll() has returned

vars == <<initialized, sessions, nextId, requests, opVars, responses, appPc,
          sendPc, reqId, recvPc, pollPc, relPc, sent, told>>

\* req_cond_ and op_cond_ wake send_reqs, resp_cond_ the polling thread.
AfterNotifyReq == IF sendPc = "waitreq" THEN "top" ELSE sendPc
AfterNotifyOp == IF sendPc = "waitop" THEN "top" ELSE sendPc
AfterNotifyResp == IF pollPc = "wait" THEN "run" ELSE pollPc

-----------------------------------------------------------------------------
(* The lifecycle thread.                                                   *)

Init ==
    /\ initialized = FALSE /\ sessions = 0 /\ nextId = 0
    /\ requests = <<>> /\ responses = <<>>
    /\ ops = <<>> /\ removed = 0 /\ cur = 0 /\ timed = FALSE
    /\ appPc = "idle"
    /\ sendPc = "quit" /\ reqId = 0
    /\ recvPc = "quit" /\ pollPc = "out" /\ relPc = "down"
    /\ sent = {} /\ told = [id \in Ids |-> <<>>]

\* prepare(): the lists are what the last session left.
Prepare ==
    /\ relPc = "down" /\ sessions < MaxSessions
    /\ relPc' = "up"
    /\ sessions' = sessions + 1
    /\ initialized' = TRUE
    /\ nextId' = 0
    /\ sendPc' = "top" /\ reqId' = 0
    /\ recvPc' = "recv"
    /\ sent' = {} /\ told' = [id \in Ids |-> <<>>]
    /\ UNCHANGED <<requests, opVars, responses, appPc, pollPc>>

\* Variant: release() forgets req_cond_.
ReleaseRequestsNoNotify ==
    /\ relPc = "up" /\ sessions <= MaxReleases
    /\ relPc' = "joinsend"
    /\ initialized' = FALSE
    /\ requests' = <<>>
    /\ appPc' \in {"idle", "late"}
    /\ recvPc' \in {"recv", "holding"}
    /\ UNCHANGED <<sessions, nextId, opVars, responses, sendPc, reqId, pollPc,
                   sent, told>>

\* release(), under req_mutex_, connection_.release() included: gen_results
\* may hold a response it has received.  The caller of speak() may be past
\* its test of initialized_.
ReleaseRequests ==
    /\ relPc = "up" /\ sessions <= MaxReleases
    /\ relPc' = "joinsend"
    /\ initialized' = FALSE
    /\ requests' = <<>>
    /\ sendPc' = AfterNotifyReq
    /\ appPc' \in {"idle", "late"}
    /\ recvPc' \in {"recv", "holding"}
    /\ UNCHANGED <<sessions, nextId, opVars, responses, reqId, pollPc, sent,
                   told>>

\* req_thread_->join(), then the region under resp_mutex_.
ReleaseResponses ==
    /\ relPc = "joinsend" /\ sendPc = "quit"
    /\ relPc' = "joinrecv"
    /\ responses' = <<>>
    /\ FinishOp
    /\ pollPc' = AfterNotifyResp
    /\ UNCHANGED <<initialized, sessions, nextId, requests, appPc, sendPc,
                   reqId, recvPc, sent, told>>

\* resp_thread_->join().
ReleaseReturns ==
    /\ relPc = "joinrecv" /\ recvPc = "quit"
    /\ relPc' = "down"
    /\ UNCHANGED <<initialized, sessions, nextId, requests, opVars, responses,
                   appPc, sendPc, reqId, recvPc, pollPc, sent, told>>

-----------------------------------------------------------------------------
(* speak() and cancel().                                                   *)

Speak ==
    /\ appPc = "late" \/ initialized
    /\ nextId < MaxId
    /\ appPc' = "idle"
    /\ nextId' = nextId + 1
    /\ requests' = Append(requests, [id |-> nextId + 1, deleted |-> FALSE])
    /\ sendPc' = AfterNotifyReq
    /\ UNCHANGED <<initialized, sessions, opVars, responses, reqId, recvPc,
                   pollPc, relPc, sent, told>>

Queued(id) == \E i \in DOMAIN requests : requests[i].id = id

\* Variant: the queued request is taken off the list instead of marked.
CancelErases(id) ==
    /\ initialized
    /\ requests' = SelectSeq(requests, LAMBDA r : id # 0 /\ r.id # id)
    /\ IF id # 0 /\ Queued(id)
       THEN UNCHANGED <<opVars, pollPc, sendPc>>
       ELSE /\ CancelOp(id)
            /\ pollPc' = IF CancelsCurrent(id) THEN AfterNotifyResp ELSE pollPc
            /\ sendPc' = IF CancelsCurrent(id) THEN AfterNotifyOp ELSE sendPc
    /\ UNCHANGED <<initialized, sessions, nextId, responses, appPc, reqId,
                   recvPc, relPc, sent, told>>

\* cancel(id), 0 for any id <= 0: the queued request is marked, to be reported
\* by send_reqs; the operation is cancelled if none was queued.
Cancel(id) ==
    /\ initialized
    /\ requests' = [i \in DOMAIN requests |->
                      IF id \in {0, requests[i].id}
                      THEN [requests[i] EXCEPT !.deleted = TRUE]
                      ELSE requests[i]]
    /\ IF id # 0 /\ Queued(id)
       THEN UNCHANGED <<opVars, pollPc, sendPc>>
       ELSE /\ CancelOp(id)
            /\ pollPc' = IF CancelsCurrent(id) THEN AfterNotifyResp ELSE pollPc
            /\ sendPc' = IF CancelsCurrent(id) THEN AfterNotifyOp ELSE sendPc
    /\ UNCHANGED <<initialized, sessions, nextId, responses, appPc, reqId,
                   recvPc, relPc, sent, told>>

-----------------------------------------------------------------------------
(* The send_reqs thread.                                                   *)

\* What send_reqs does changes none of these.
SendFrame ==
    UNCHANGED <<initialized, sessions, nextId, responses, appPc, recvPc, relPc,
                told>>

SendQuit ==
    /\ sendPc = "top" /\ ~initialized
    /\ sendPc' = "quit"
    /\ UNCHANGED <<requests, opVars, reqId, pollPc, sent>>
    /\ SendFrame

SendSleeps ==
    /\ sendPc = "top" /\ initialized /\ requests = <<>>
    /\ sendPc' = "waitreq"
    /\ UNCHANGED <<requests, opVars, reqId, pollPc, sent>>
    /\ SendFrame

\* do_ctl_new_op() runs with req_mutex_ still held: no cancel() comes between
\* taking a request off the list and making its operation.
SendStarts ==
    /\ sendPc = "top" /\ initialized
    /\ requests # <<>> /\ ~Head(requests).deleted
    /\ requests' = Tail(requests)
    /\ reqId' = Head(requests).id
    /\ NewOp(reqId', "START")
    /\ sendPc' = "send"
    /\ UNCHANGED <<pollPc, sent>>
    /\ SendFrame

\* Variant: nobody tells poll() of the cancelled request.
SendCancelsNoNotify ==
    /\ sendPc = "top" /\ initialized
    /\ requests # <<>> /\ Head(requests).deleted
    /\ requests' = Tail(requests)
    /\ reqId' = Head(requests).id
    /\ NewOp(reqId', "CANCELLED")
    /\ UNCHANGED <<pollPc, sendPc, sent>>
    /\ SendFrame

SendCancels ==
    /\ sendPc = "top" /\ initialized
    /\ requests # <<>> /\ Head(requests).deleted
    /\ requests' = Tail(requests)
    /\ reqId' = Head(requests).id
    /\ NewOp(reqId', "CANCELLED")
    /\ pollPc' = AfterNotifyResp
    /\ UNCHANGED <<sendPc, sent>>
    /\ SendFrame

\* do_request(): connection_.send(), then a region under resp_mutex_.
RequestSent ==
    /\ sendPc = "send" /\ initialized
    /\ sent' = sent \union {reqId}
    /\ sendPc' = "sent"
    /\ UNCHANGED <<requests, opVars, reqId, pollPc>>
    /\ SendFrame

RequestFailed ==
    /\ sendPc = "send"
    /\ sendPc' = "failed"
    /\ UNCHANGED <<requests, opVars, reqId, pollPc, sent>>
    /\ SendFrame

RequestSetTime ==
    /\ sendPc = "sent"
    /\ RefreshOpTime
    /\ sendPc' = "finish"
    /\ UNCHANGED <<requests, reqId, pollPc, sent>>
    /\ SendFrame

RequestSetError ==
    /\ sendPc = "failed"
    /\ SetOpError
    /\ pollPc' = AfterNotifyResp
    /\ sendPc' = "top"
    /\ UNCHANGED <<requests, reqId, sent>>
    /\ SendFrame

\* Variant: the operation waited for is not compared with the request.
WaitOpAlways ==
    /\ sendPc = "finish"
    /\ sendPc' = "waitop"
    /\ UNCHANGED <<requests, opVars, reqId, pollPc, sent>>
    /\ SendFrame

\* wait_op_finish().
WaitOp ==
    /\ sendPc = "finish"
    /\ sendPc' = IF cur # 0 /\ ops[cur].id = reqId THEN "waitop" ELSE "top"
    /\ UNCHANGED <<requests, opVars, reqId, pollPc, sent>>
    /\ SendFrame

-----------------------------------------------------------------------------
(* The gen_results thread: a response may come at any time after its       *)
(* request and any number of times, until the connection is released.      *)

Receives == recvPc = "holding" \/ (recvPc = "recv" /\ initialized)

RecvFrame ==
    UNCHANGED <<initialized, sessions, nextId, requests, appPc, reqId, relPc,
                sent, told>>

\* The stream responses_ after a response, with voice in it or without.
WithResponse(id, voice) ==
    LET q == IF ops[cur].status = "START" THEN Start(responses, id)
             ELSE responses
    IN IF voice THEN Stream(q, id, "VOICE") ELSE q

RoomFor(id) ==
    \A i \in DOMAIN responses :
        responses[i].id = id => Len(responses[i].data) < MaxResults

\* A response to the current request that does not finish it.
RecvVoice(id, voice) ==
    /\ Receives
    /\ id \in sent /\ cur # 0 /\ ops[cur].id = id
    /\ voice => RoomFor(id)
    /\ responses' = WithResponse(id, voice)
    /\ ops' = CurrentIn("STREAMING")
    /\ timed' = TRUE
    /\ pollPc' = IF voice \/ ops[cur].status = "START"
                 THEN AfterNotifyResp ELSE pollPc
    /\ recvPc' = "recv"
    /\ UNCHANGED <<removed, cur, sendPc>>
    /\ RecvFrame

\* The last response: the stream ends and so does the operation.
RecvFinish(id, voice) ==
    /\ Receives
    /\ id \in sent /\ cur # 0 /\ ops[cur].id = id
    /\ voice => RoomFor(id)
    /\ responses' = End(WithResponse(id, voice), id)
    /\ ops' = CurrentIn("END")
    /\ NoCurrent
    /\ pollPc' = AfterNotifyResp
    /\ sendPc' = AfterNotifyOp
    /\ recvPc' = "recv"
    /\ UNCHANGED removed
    /\ RecvFrame

\* A response to another request restarts the clock of the current one.
RecvStale(id) ==
    /\ Receives
    /\ id \in sent /\ cur # 0 /\ ops[cur].id # id
    /\ RefreshOpTime
    /\ recvPc' = "recv"
    /\ UNCHANGED <<responses, sendPc, pollPc>>
    /\ RecvFrame

\* With no current operation a response has no effect at all.
RecvIgnored ==
    /\ recvPc = "holding" /\ cur = 0
    /\ recvPc' = "recv"
    /\ UNCHANGED <<responses, opVars, sendPc, pollPc>>
    /\ RecvFrame

\* The operation in progress, if any, fails.
RecvAborts ==
    /\ SetOpError
    /\ pollPc' = AfterNotifyResp
    /\ sendPc' = IF cur # 0 THEN AfterNotifyOp ELSE sendPc
    /\ recvPc' = "recv"
    /\ UNCHANGED responses
    /\ RecvFrame

\* recv() times out and op_timeout() is 0.
RecvTimeout == recvPc = "recv" /\ timed /\ RecvAborts

\* The connection broke or a response is unreadable.
RecvBroken == Receives /\ RecvAborts

\* NOT_READY: connection_.release() has queued its CLOSED.
RecvQuit ==
    /\ recvPc = "recv" /\ ~initialized
    /\ recvPc' = "quit"
    /\ UNCHANGED <<responses, opVars, sendPc, pollPc>>
    /\ RecvFrame

-----------------------------------------------------------------------------
(* The polling thread.                                                     *)

PollFrame ==
    UNCHANGED <<initialized, sessions, nextId, requests, ops, cur, timed, appPc,
                sendPc, reqId, recvPc, relPc, sent>>

\* A call of poll().
PollCall ==
    /\ pollPc = "out" /\ initialized
    /\ pollPc' = "run"
    /\ UNCHANGED <<removed, responses, told>>
    /\ PollFrame

PollReturnsFalse ==
    /\ pollPc = "run" /\ ~initialized
    /\ pollPc' = "out"
    /\ UNCHANGED <<removed, responses, told>>
    /\ PollFrame

Aborted == HasFront /\ Front.status \in {"CANCELLED", "ERROR"}

\* The results of an id are recorded, but for voice in its place.
Tell(id, type) ==
    told' = IF type = "DATA" /\ told[id] = <<"START">> THEN told
            ELSE [told EXCEPT ![id] = Append(@, type)]

\* Variant: the stream is erased and left for a later pop.
PollAbortedNoPop ==
    /\ pollPc = "run" /\ initialized /\ Aborted
    /\ responses' = Erase(responses, Front.id, "deleted")
    /\ Tell(Front.id, Front.status)
    /\ removed' = removed + 1
    /\ UNCHANGED pollPc
    /\ PollFrame

\* Variant: the operation is not removed.
PollAbortedKeepsOp ==
    /\ pollPc = "run" /\ initialized /\ Aborted
    /\ responses' = IF Has(responses, Front.id)
                    THEN Popped(Erase(responses, Front.id, "deleted"))
                    ELSE responses
    /\ Tell(Front.id, Front.status)
    /\ UNCHANGED <<pollPc, removed>>
    /\ PollFrame

\* A cancelled or failed operation: its stream is erased, and popped at once.
PollAborted ==
    /\ pollPc = "run" /\ initialized /\ Aborted
    /\ responses' = IF Has(responses, Front.id)
                    THEN Popped(Erase(responses, Front.id, "deleted"))
                    ELSE responses
    /\ Tell(Front.id, Front.status)
    /\ removed' = removed + 1
    /\ UNCHANGED pollPc
    /\ PollFrame

\* Any other operation: the next result of the first stream; TTS_RES_END ends
\* the operation.
PollResult ==
    /\ pollPc = "run" /\ initialized
    /\ HasFront /\ ~Aborted /\ PopType(responses) # "EMPTY"
    /\ Tell(responses[1].id, PopType(responses))
    /\ responses' = Popped(responses)
    /\ removed' = IF PopType(responses) = "END" THEN removed + 1 ELSE removed
    /\ UNCHANGED pollPc
    /\ PollFrame

PollWaits ==
    /\ pollPc = "run" /\ initialized
    /\ ~Aborted /\ (HasFront => PopType(responses) = "EMPTY")
    /\ pollPc' = "wait"
    /\ UNCHANGED <<removed, responses, told>>
    /\ PollFrame

-----------------------------------------------------------------------------
\* A condition variable may wake its waiter without a notify.
SpuriousWakeup ==
    /\ \/ /\ "req" \in Spurious /\ sendPc = "waitreq"
          /\ sendPc' = "top" /\ UNCHANGED pollPc
       \/ /\ "op" \in Spurious /\ sendPc = "waitop"
          /\ sendPc' = "top" /\ UNCHANGED pollPc
       \/ /\ "resp" \in Spurious /\ pollPc = "wait"
          /\ pollPc' = "run" /\ UNCHANGED sendPc
    /\ UNCHANGED <<initialized, sessions, nextId, requests, opVars, responses,
                   appPc, reqId, recvPc, relPc, sent, told>>

LifecycleStep ==
    Prepare \/ ReleaseRequests \/ ReleaseResponses \/ ReleaseReturns

SendStep ==
    \/ SendQuit \/ SendSleeps \/ SendStarts \/ SendCancels \/ RequestSent
    \/ RequestFailed \/ RequestSetTime \/ RequestSetError \/ WaitOp

RecvStep ==
    \/ \E id \in Ids : \/ \E voice \in BOOLEAN :
                              RecvVoice(id, voice) \/ RecvFinish(id, voice)
                       \/ RecvStale(id)
    \/ RecvIgnored \/ RecvTimeout \/ RecvBroken \/ RecvQuit

PollStep ==
    PollCall \/ PollReturnsFalse \/ PollAborted \/ PollResult \/ PollWaits

Next ==
    \/ LifecycleStep \/ Speak \/ \E id \in 0..nextId : Cancel(id)
    \/ SendStep \/ RecvStep \/ PollStep \/ SpuriousWakeup

Spec == Init /\ [][Next]_vars

\* The last response to the request in progress, or its timeout.
EndsCurrent ==
    /\ cur # 0
    /\ \/ \E id \in Ids, voice \in BOOLEAN : RecvFinish(id, voice)
       \/ RecvTimeout

\* Threads that can run do run; the server answers or the operation times out.
Fairness ==
    /\ WF_vars(SendStep)
    /\ WF_vars(PollStep)
    /\ WF_vars(EndsCurrent)
    /\ WF_vars(RecvIgnored \/ RecvQuit)
    /\ WF_vars(ReleaseResponses \/ ReleaseReturns)

FairSpec == Spec /\ Fairness

-----------------------------------------------------------------------------
(* Properties.                                                             *)

\* The type invariant.
TypeOK ==
    /\ initialized \in BOOLEAN /\ sessions \in Nat
    /\ nextId \in 0..MaxId
    /\ requests \in Seq(Requests)
    /\ ops \in Seq(Operations)
    /\ removed \in 0..Len(ops) /\ cur \in 0..Len(ops) /\ timed \in BOOLEAN
    /\ responses \in ResponseStreams
    /\ appPc \in {"idle", "late"}
    /\ sendPc \in {"quit", "top", "waitreq", "send", "sent", "failed",
                   "finish", "waitop"}
    /\ reqId \in Nat
    /\ recvPc \in {"recv", "holding", "quit"}
    /\ pollPc \in {"out", "run", "wait"}
    /\ relPc \in {"down", "up", "joinsend", "joinrecv"}
    /\ sent \subseteq Nat
    /\ told \in [Ids -> Seq(Results)]

\* No step of any thread leaves an operation START or STREAMING that is not
\* the current one, the newest: poll() would wait on it for ever
\* (op_ctl.h:27-85, tts_impl.cc:255-293).
OnlyCurrentIsLive ==
    /\ \A i \in DOMAIN ops : ops[i].status \notin Terminal => i = cur
    /\ cur # 0 => cur = Len(ops) /\ ops[cur].status \notin Terminal

\* What poll() takes off responses_ belongs to the operation at the front of
\* operations_, and is a kind of result poptype_to_restype() has an entry for
\* (the assertions of tts_impl.cc:162, 206, 218, 230).
PollServesFrontOp ==
    HasFront =>
        IF Aborted
        THEN Has(responses, Front.id) => responses[1].id = Front.id
        ELSE PopType(responses) # "EMPTY" =>
                /\ responses[1].id = Front.id
                /\ PopType(responses) \in {"START", "DATA", "END"}

\* No notify is missing.  send_reqs sleeps on op_cond_ only for its own, current
\* operation: whoever ends that operation wakes it (tts_impl.cc:272-276,
\* op_ctl.h:60-64).  poll() sleeps only when nothing can be returned: no operation
\* is left, or the first one is in progress and has no result
\* (tts_impl.cc:198-249).
NoLostWakeup ==
    /\ sendPc = "waitop" => cur # 0 /\ ops[cur].id = reqId
    /\ (pollPc = "wait" /\ initialized) =>
        \/ ~HasFront
        \/ cur = removed + 1 /\ PopType(responses) = "EMPTY"

Answered(id) == \E k \in DOMAIN told[id] : told[id][k] \in Terminal

\* What one id gets from poll(): START first if at all, END only after START,
\* and one last result with nothing after it (tts.h:27-33).
AnsweredOnce ==
    \A id \in Ids : \A k \in DOMAIN told[id] :
        /\ told[id][k] = "START" => k = 1
        /\ told[id][k] # "DATA"
        /\ told[id][k] = "END" => told[id][1] = "START"
        /\ told[id][k] \in Terminal => k = Len(told[id])

\* A request the application was given an id for is queued, an operation still
\* to be polled, or answered (tts_impl.cc:105-142, 255-293).
RequestsKept ==
    initialized =>
        \A id \in 1..nextId :
            \/ Answered(id) \/ Queued(id)
            \/ \E i \in DOMAIN ops : i > removed /\ ops[i].id = id

\* Every request of a session that is not released is answered, however
\* responses, errors, timeouts and cancellations interleave.
EveryRequestAnswered ==
    \A id \in Ids : (nextId >= id) ~> (Answered(id) \/ ~initialized)

\* release() returns, unless send_reqs is asleep on op_cond_ (tts_impl.cc:91).
ReleaseEnds ==
    (relPc = "joinsend") ~> (relPc = "down" \/ sendPc = "waitop")

\* poll() returns false once the SDK is released (tts.h:78-82 and
\* cpp_api_example.md:29).
PollSeesRelease == (relPc = "joinsend") ~> (pollPc = "out")
=============================================================================

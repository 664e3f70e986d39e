------------------------------- MODULE Speech -------------------------------
(***************************************************************************)
(* The speech client: SpeechImpl (src/speech/speech_impl.cc) with its      *)
(* OperationController (src/common/op_ctl.h) and its two StreamQueues.     *)
(*                                                                         *)
(* Threads: one application thread that issues requests, any number that   *)
(* cancel, one lifecycle thread (prepare/release), one that polls, and the *)
(* two the class starts: send_reqs and gen_results.  req_mutex_ and        *)
(* resp_mutex_ make a region between lock and unlock one action; what the  *)
(* code does without the lock is an action of its own.  A thread asleep on *)
(* a condition variable is a value of its program counter that a notify    *)
(* changes.  The connection and the server are the environment.            *)
(***************************************************************************)
EXTENDS OperationController, StreamQueue, FiniteSets, Integers

CONSTANTS
    MaxId,          \* bound: ids given out in one session
    MaxChunks,      \* bound: voice chunks waiting in one request
    MaxResults,     \* bound: results waiting in one response stream
    MaxSessions,    \* bound: calls of prepare() that do something
    MaxReleases,    \* bound: calls of release() that do something
    MaxCancels,     \* bound: cancel() calls at a time
    Kinds,          \* the requests the application makes
    RespTypes,      \* the types of the server's responses
    Spurious        \* condition variables that may wake up spuriously

ASSUME BoundsAssumption ==
    /\ MaxId \in Nat /\ MaxChunks \in Nat /\ MaxResults \in Nat
    /\ MaxSessions \in Nat /\ MaxReleases \in Nat /\ MaxCancels \in Nat

ASSUME ChoicesAssumption ==
    /\ Kinds \subseteq {"text", "voice"}
    /\ RespTypes \subseteq {"INTERMEDIATE", "ASR_FINISH", "FINISH", "FAILED",
                            "UNKNOWN", "EXTRA"}
    /\ Spurious \subseteq {"req", "resp", "op"}

Ids == 1..MaxId

ReqTypes == {"TEXT", "VOICE_START", "VOICE_END", "CANCELLED", "VOICE_DATA"}

TextRequests == [id : Nat, type : {"TEXT", "CANCELLED"}]

Requests == [id : Nat, type : ReqTypes]

VoiceStreams == Queues(Nat, {"voice"})

ResponseStreams == Queues(Nat, {"INTERMEDIATE", "ASR_FINISH"})

\* What poll() returns of one id; intermediate results count as "DATA".
Results == {"START", "DATA", "END", "CANCELLED", "ERROR"}

VARIABLES
    initialized,    \* initialized_
    sessions,       \* sessions prepared so far
    nextId,         \* next_id_
    voiceReqs,      \* voice_reqs_
    textReqs,       \* text_reqs_
    responses,      \* responses_
    appPc,          \* the requesting thread
    cancels,        \* cancel() calls between their two locked regions
    sendPc,         \* the send_reqs thread
    req,            \* its `info' (dead, reset, once it finds no request)
    opRef,          \* its `op': an index in ops, 0 for null or read no more
    recvPc,         \* the gen_results thread
    eraseId,        \* the id it is about to pass to erase_req()
    pollPc,         \* the polling thread
    relPc,          \* the lifecycle thread
    wire,           \* per id, what the server has been sent this session
    told            \* per id, the results poll() has returned

appVars  == <<appPc, cancels>>
sendVars == <<sendPc, req, opRef>>
vars == <<initialized, sessions, nextId, voiceReqs, textReqs, opVars,
          responses, appVars, sendVars, recvPc, eraseId, pollPc, relPc,
          wire, told>>

NoReq == [id |-> 0, type |-> "VOICE_DATA"]

-----------------------------------------------------------------------------
(* Condition variables.  req_cond_ and op_cond_ have one waiter, send_reqs;*)
(* resp_cond_ has one, the polling thread.                                 *)

\* Asleep with the notify that matters still to come, or, "lostreq" and
\* "lostop", fallen asleep after it.
AfterNotifyReq == IF sendPc \in {"waitreq", "lostreq"} THEN "top" ELSE sendPc
AfterNotifyOp == IF sendPc \in {"waitop", "lostop"} THEN "top" ELSE sendPc

\* Asleep, told of all there is, or, "passed", with a result it was not told of.
AfterNotifyResp == IF pollPc \in {"wait", "passed"} THEN "run" ELSE pollPc

\* send_reqs holds resp_mutex_ between testing the current operation in
\* wait_op_finish() and falling asleep on op_cond_.
RespFree == sendPc # "block"

-----------------------------------------------------------------------------
(* The lifecycle thread.                                                   *)

Init ==
    /\ initialized = FALSE /\ sessions = 0 /\ nextId = 0
    /\ voiceReqs = <<>> /\ textReqs = <<>> /\ responses = <<>>
    /\ ops = <<>> /\ removed = 0 /\ cur = 0 /\ timed = FALSE
    /\ appPc = "idle" /\ cancels = {}
    /\ sendPc = "quit" /\ req = NoReq /\ opRef = 0
    /\ recvPc = "quit" /\ eraseId = 0
    /\ pollPc = "out"
    /\ relPc = "down"
    /\ wire = [id \in Ids |-> "none"]
    /\ told = [id \in Ids |-> <<>>]

\* prepare(): a fresh connection and two fresh threads.  voice_reqs_,
\* operations_ and responses_ are what the last session left.
Prepare ==
    /\ relPc = "down" /\ sessions < MaxSessions
    /\ relPc' = "up"
    /\ sessions' = sessions + 1
    /\ initialized' = TRUE
    /\ nextId' = 0
    /\ sendPc' = "top" /\ req' = NoReq /\ opRef' = 0
    /\ recvPc' = "recv" /\ eraseId' = 0
    /\ wire' = [id \in Ids |-> "none"]
    /\ told' = [id \in Ids |-> <<>>]
    /\ UNCHANGED <<voiceReqs, textReqs, opVars, responses, appVars, pollPc>>

\* release(), under req_mutex_: connection_.release() included, which closes
\* the connection and drops the responses gen_results has not taken yet; it
\* may hold one already.
ReleaseRequests ==
    /\ relPc = "up" /\ sessions <= MaxReleases
    /\ relPc' = "seterror"
    /\ initialized' = FALSE
    /\ voiceReqs' = <<>>
    /\ textReqs' = <<>>
    /\ sendPc' = AfterNotifyReq
    /\ appPc' \in {"idle", "late"}
    /\ recvPc' \in IF recvPc = "recv" THEN {"recv", "holding"} ELSE {recvPc}
    /\ UNCHANGED <<sessions, nextId, opVars, responses, cancels, req, opRef,
                   eraseId, pollPc, wire, told>>

\* Variant: set_op_error() forgets op_cond_.
ReleaseSetOpErrorNoNotify ==
    /\ relPc = "writeerror"
    /\ relPc' = IF cur # 0 THEN "joinsend" ELSE "crashed"
    /\ SetOpError
    /\ UNCHANGED <<initialized, sessions, nextId, voiceReqs, textReqs,
                   responses, appVars, sendVars, recvPc, eraseId, pollPc,
                   wire, told>>

\* set_op_error(SPEECH_SDK_CLOSED) with no lock held: the test of the current
\* operation, then the writes.  Should the operation be gone by then, the
\* null pointer is dereferenced.
ReleaseTestOp ==
    /\ relPc = "seterror"
    /\ relPc' = IF cur # 0 THEN "writeerror" ELSE "joinsend"
    /\ UNCHANGED <<initialized, sessions, nextId, voiceReqs, textReqs, opVars,
                   responses, appVars, sendVars, recvPc, eraseId, pollPc,
                   wire, told>>

ReleaseSetOpError ==
    /\ relPc = "writeerror"
    /\ relPc' = IF cur # 0 THEN "joinsend" ELSE "crashed"
    /\ SetOpError
    /\ sendPc' = IF cur # 0 THEN AfterNotifyOp ELSE sendPc
    /\ UNCHANGED <<initialized, sessions, nextId, voiceReqs, textReqs,
                   responses, appVars, req, opRef, recvPc, eraseId, pollPc,
                   wire, told>>

\* Variant: resp_cond_ is not notified.
ReleaseResponsesNoNotify ==
    /\ relPc = "joinsend" /\ sendPc = "quit"
    /\ relPc' = "joinrecv"
    /\ responses' = <<>>
    /\ FinishOp
    /\ UNCHANGED <<initialized, sessions, nextId, voiceReqs, textReqs, appVars,
                   pollPc, sendVars, recvPc, eraseId, wire, told>>

\* req_thread_->join(), then the region under resp_mutex_.
ReleaseResponses ==
    /\ relPc = "joinsend" /\ sendPc = "quit"
    /\ relPc' = "joinrecv"
    /\ responses' = <<>>
    /\ FinishOp
    /\ pollPc' = AfterNotifyResp
    /\ UNCHANGED <<initialized, sessions, nextId, voiceReqs, textReqs, appVars,
                   sendVars, recvPc, eraseId, wire, told>>

\* resp_thread_->join().
ReleaseReturns ==
    /\ relPc = "joinrecv" /\ recvPc = "quit"
    /\ relPc' = "down"
    /\ UNCHANGED <<initialized, sessions, nextId, voiceReqs, textReqs, opVars,
                   responses, appVars, sendVars, recvPc, eraseId, pollPc,
                   wire, told>>

-----------------------------------------------------------------------------
(* The requesting thread.  Every call reads initialized_ before it locks.  *)

\* While the SDK stays initialized the test and the locked region may as well
\* be one step; a release in between finds the thread past the test, "late".
Enters == appPc = "late" \/ (appPc = "idle" /\ initialized)

StartVoice ==
    /\ Enters /\ "voice" \in Kinds /\ nextId < MaxId
    /\ appPc' = "idle"
    /\ nextId' = nextId + 1
    /\ voiceReqs' = Start(voiceReqs, nextId + 1)
    /\ sendPc' = IF Has(voiceReqs, nextId + 1) THEN sendPc ELSE AfterNotifyReq
    /\ UNCHANGED <<initialized, sessions, textReqs, opVars, responses, cancels,
                   req, opRef, recvPc, eraseId, pollPc, relPc, wire, told>>

\* One fragment: put_voice() splits a long buffer and streams each piece.
PutVoice(id) ==
    /\ Enters
    /\ \A i \in DOMAIN voiceReqs :
            voiceReqs[i].id = id => Len(voiceReqs[i].data) < MaxChunks
    /\ appPc' = "idle"
    /\ voiceReqs' = Stream(voiceReqs, id, "voice")
    /\ sendPc' = IF Accepts(voiceReqs, id) THEN AfterNotifyReq ELSE sendPc
    /\ UNCHANGED <<initialized, sessions, nextId, textReqs, opVars, responses,
                   cancels, req, opRef, recvPc, eraseId, pollPc, relPc,
                   wire, told>>

EndVoice(id) ==
    /\ Enters
    /\ appPc' = "idle"
    /\ voiceReqs' = End(voiceReqs, id)
    /\ sendPc' = IF Has(voiceReqs, id) THEN AfterNotifyReq ELSE sendPc
    /\ UNCHANGED <<initialized, sessions, nextId, textReqs, opVars, responses,
                   cancels, req, opRef, recvPc, eraseId, pollPc, relPc,
                   wire, told>>

\* put_text() draws its id before it locks: no other thread draws one here.
PutText ==
    /\ Enters /\ "text" \in Kinds /\ nextId < MaxId
    /\ appPc' = "idle"
    /\ nextId' = nextId + 1
    /\ textReqs' = Append(textReqs, [id |-> nextId + 1, type |-> "TEXT"])
    /\ sendPc' = AfterNotifyReq
    /\ UNCHANGED <<initialized, sessions, voiceReqs, opVars, responses,
                   cancels, req, opRef, recvPc, eraseId, pollPc, relPc,
                   wire, told>>

-----------------------------------------------------------------------------
(* cancel(id), from any thread; id 0 stands for every id <= 0.             *)

TextHas(id) == \E i \in DOMAIN textReqs : textReqs[i].id = id

\* The text requests with those of id (all, for 0) cancelled.  The ids of
\* a session differ, so the first with that id is the only one.
TextCancelled(id) ==
    [i \in DOMAIN textReqs |->
        IF id = 0 \/ textReqs[i].id = id
        THEN [textReqs[i] EXCEPT !.type = "CANCELLED"] ELSE textReqs[i]]

CancelQueued(id) ==
    /\ initialized /\ Cardinality(cancels) < MaxCancels
    /\ \/ /\ Has(voiceReqs, id)
          /\ voiceReqs' = Erase(voiceReqs, id, "deleted")
          /\ sendPc' = AfterNotifyReq
          /\ UNCHANGED <<textReqs, cancels>>
       \/ /\ ~Has(voiceReqs, id) /\ TextHas(id)
          /\ textReqs' = TextCancelled(id)
          /\ UNCHANGED <<voiceReqs, sendPc, cancels>>
       \/ /\ ~Has(voiceReqs, id) /\ ~TextHas(id)
          /\ cancels' = cancels \union {id}
          /\ UNCHANGED <<voiceReqs, textReqs, sendPc>>
    /\ UNCHANGED <<initialized, sessions, nextId, opVars, responses, appPc,
                   req, opRef, recvPc, eraseId, pollPc, relPc, wire, told>>

CancelAllQueued ==
    /\ initialized /\ Cardinality(cancels) < MaxCancels
    /\ voiceReqs' = Clear(voiceReqs)
    /\ sendPc' = IF voiceReqs # <<>> THEN AfterNotifyReq ELSE sendPc
    /\ textReqs' = TextCancelled(0)
    /\ cancels' = cancels \union {0}
    /\ UNCHANGED <<initialized, sessions, nextId, opVars, responses, appPc,
                   req, opRef, recvPc, eraseId, pollPc, relPc, wire, told>>

\* Variant: cancel_op() forgets resp_cond_.
CancelWithoutPollNotify(id) ==
    /\ id \in cancels /\ RespFree
    /\ cancels' = cancels \ {id}
    /\ CancelOp(id)
    /\ sendPc' = IF CancelsCurrent(id) THEN AfterNotifyOp ELSE sendPc
    /\ UNCHANGED <<initialized, sessions, nextId, voiceReqs, textReqs,
                   responses, appPc, req, opRef, recvPc, eraseId, pollPc,
                   relPc, wire, told>>

\* The second region, under resp_mutex_: cancel_op().
CancelOperations(id) ==
    /\ id \in cancels /\ RespFree
    /\ cancels' = cancels \ {id}
    /\ CancelOp(id)
    /\ pollPc' = IF CancelsCurrent(id) THEN AfterNotifyResp ELSE pollPc
    /\ sendPc' = IF CancelsCurrent(id) THEN AfterNotifyOp ELSE sendPc
    /\ UNCHANGED <<initialized, sessions, nextId, voiceReqs, textReqs,
                   responses, appPc, req, opRef, recvPc, eraseId, relPc,
                   wire, told>>

-----------------------------------------------------------------------------
(* The send_reqs thread.                                                   *)

\* What send_reqs does changes none of these.
SendFrame ==
    UNCHANGED <<initialized, sessions, nextId, responses, appVars, recvPc,
                eraseId, relPc, told>>

SendQuit ==
    /\ sendPc = "top" /\ ~initialized
    /\ sendPc' = "quit"
    /\ UNCHANGED <<voiceReqs, textReqs, opVars, req, opRef, pollPc, wire>>
    /\ SendFrame

\* sqtype_to_reqtype(): a timed out stream is ended on the server.
ReqTypeOf(popType) ==
    CASE popType = "DATA"    -> "VOICE_DATA"
      [] popType = "START"   -> "VOICE_START"
      [] popType = "END"     -> "VOICE_END"
      [] popType = "REMOVED" -> "CANCELLED"
      [] popType = "ERROR"   -> "VOICE_END"

SendPopVoice ==
    /\ sendPc = "top" /\ initialized
    /\ PopType(voiceReqs) # "EMPTY"
    /\ sendPc' = "control"
    /\ req' = [id |-> voiceReqs[1].id, type |-> ReqTypeOf(PopType(voiceReqs))]
    /\ voiceReqs' = Popped(voiceReqs)
    /\ opRef' = 0
    /\ UNCHANGED <<textReqs, opVars, pollPc, wire>>
    /\ SendFrame

\* No voice request: sleep on req_cond_, or release req_mutex_ to look
\* whether an operation stands in the way of the text request.
SendNoVoice ==
    /\ sendPc = "top" /\ initialized
    /\ PopType(voiceReqs) = "EMPTY"
    /\ sendPc' = IF textReqs = <<>> THEN "waitreq" ELSE "peek"
    /\ req' = NoReq /\ opRef' = 0
    /\ UNCHANGED <<voiceReqs, textReqs, opVars, pollPc, wire>>
    /\ SendFrame

\* Variant: the text request does not ask for the current operation.
SendPeekNothing ==
    /\ sendPc = "peek"
    /\ opRef' = 0
    /\ sendPc' = "peeked"
    /\ UNCHANGED <<voiceReqs, textReqs, opVars, req, pollPc, wire>>
    /\ SendFrame

SendPeekOp ==
    /\ sendPc = "peek"
    /\ opRef' = cur
    /\ sendPc' = "peeked"
    /\ UNCHANGED <<voiceReqs, textReqs, opVars, req, pollPc, wire>>
    /\ SendFrame

\* req_mutex_ again, with nothing tested again.  front() and pop_front() of
\* an empty std::list are undefined: the thread is taken to stop there.
SendPopText ==
    /\ sendPc = "peeked" /\ opRef = 0
    /\ \/ /\ textReqs # <<>>
          /\ req' = Head(textReqs)
          /\ textReqs' = Tail(textReqs)
          /\ sendPc' = "control"
       \/ /\ textReqs = <<>>
          /\ sendPc' = "crashed"
          /\ UNCHANGED <<req, textReqs>>
    /\ UNCHANGED <<voiceReqs, opVars, opRef, pollPc, wire>>
    /\ SendFrame

\* Nothing is tested again here either: the notify of release() may be over.
SendTextMustWait ==
    /\ sendPc = "peeked" /\ opRef # 0
    /\ sendPc' = IF initialized THEN "waitreq" ELSE "lostreq"
    /\ UNCHANGED <<voiceReqs, textReqs, opVars, req, opRef, pollPc, wire>>
    /\ SendFrame

\* do_ctl_change_op(): the current operation is read under the lock and used
\* after it was released.
ControlReadOp ==
    /\ sendPc = "control"
    /\ opRef' = cur
    /\ sendPc' = "change"
    /\ UNCHANGED <<voiceReqs, textReqs, opVars, req, pollPc, wire>>
    /\ SendFrame

Starts == req.type \in {"TEXT", "VOICE_START"}

ControlStart ==
    /\ sendPc = "change" /\ Starts
    /\ NewOp(req.id, "START")
    /\ sendPc' = "send" /\ opRef' = 0
    /\ UNCHANGED <<voiceReqs, textReqs, req, pollPc, wire>>
    /\ SendFrame

\* Variant: voice is sent with no operation to belong to.
ControlAlwaysContinues ==
    /\ sendPc = "change"
    /\ req.type \in {"VOICE_END", "VOICE_DATA"}
    /\ sendPc' = "send" /\ opRef' = 0
    /\ UNCHANGED <<voiceReqs, textReqs, opVars, req, pollPc, wire>>
    /\ SendFrame

ControlContinue ==
    /\ sendPc = "change" /\ opRef # 0
    /\ req.type \in {"VOICE_END", "VOICE_DATA"}
    /\ sendPc' = "send" /\ opRef' = 0
    /\ UNCHANGED <<voiceReqs, textReqs, opVars, req, pollPc, wire>>
    /\ SendFrame

\* clear_current_op() notifies nobody on op_cond_: its waiter is this thread.
ControlCancel ==
    /\ sendPc = "change" /\ opRef # 0 /\ req.type = "CANCELLED"
    /\ ops' = OpsIn({opRef}, "CANCELLED")
    /\ NoCurrent
    /\ pollPc' = AfterNotifyResp
    /\ sendPc' = "send"
    /\ opRef' = 0
    /\ UNCHANGED <<voiceReqs, textReqs, removed, req, wire>>
    /\ SendFrame

\* Variant: no operation is made to carry the CANCELLED result.
ControlCancelForgets ==
    /\ sendPc = "change" /\ opRef = 0 /\ req.type = "CANCELLED"
    /\ pollPc' = AfterNotifyResp
    /\ sendPc' = "top"
    /\ UNCHANGED <<voiceReqs, textReqs, opVars, req, opRef, wire>>
    /\ SendFrame

ControlCancelUnsent ==
    /\ sendPc = "change" /\ opRef = 0 /\ req.type = "CANCELLED"
    /\ NewOp(req.id, "CANCELLED")
    /\ pollPc' = AfterNotifyResp
    /\ sendPc' = "top"
    /\ UNCHANGED <<voiceReqs, textReqs, req, opRef, wire>>
    /\ SendFrame

ControlDrop ==
    /\ sendPc = "change" /\ opRef = 0
    /\ req.type \in {"VOICE_END", "VOICE_DATA"}
    /\ sendPc' = "top"
    /\ UNCHANGED <<voiceReqs, textReqs, opVars, req, opRef, pollPc, wire>>
    /\ SendFrame

\* do_request(): what connection_.send() puts on the wire.
WireAfter ==
    CASE req.type = "VOICE_START" -> "open"
      [] req.type = "VOICE_DATA"  -> wire[req.id]
      [] OTHER                    -> "ended"

RequestSent ==
    /\ sendPc = "send" /\ initialized
    /\ wire' = [wire EXCEPT ![req.id] = WireAfter]
    /\ sendPc' = "sent"
    /\ UNCHANGED <<voiceReqs, textReqs, opVars, req, opRef, pollPc>>
    /\ SendFrame

RequestFailed ==
    /\ sendPc = "send"
    /\ sendPc' = "failed"
    /\ UNCHANGED <<voiceReqs, textReqs, opVars, req, opRef, pollPc, wire>>
    /\ SendFrame

RequestSetTime ==
    /\ sendPc = "sent"
    /\ RefreshOpTime
    /\ sendPc' = IF req.type \in {"TEXT", "VOICE_END"} THEN "finish" ELSE "top"
    /\ UNCHANGED <<voiceReqs, textReqs, req, opRef, pollPc, wire>>
    /\ SendFrame

\* erase_req() is called with resp_mutex_ held.  No region under req_mutex_
\* looks at what resp_mutex_ guards, so the two regions make one action.
RequestSetError ==
    /\ sendPc = "failed"
    /\ SetOpError
    /\ pollPc' = AfterNotifyResp
    /\ voiceReqs' = Erase(voiceReqs, req.id, "error")
    /\ sendPc' = "top"
    /\ UNCHANGED <<textReqs, req, opRef, wire>>
    /\ SendFrame

\* wait_op_finish(): the test, then the wait, with resp_mutex_ held between.
WaitOpTest ==
    /\ sendPc = "finish"
    /\ sendPc' = IF cur # 0 /\ ops[cur].id = req.id THEN "block" ELSE "top"
    /\ UNCHANGED <<voiceReqs, textReqs, opVars, req, opRef, pollPc, wire>>
    /\ SendFrame

\* release() takes no lock to end the operation: its notify may be over.
WaitOpSleep ==
    /\ sendPc = "block"
    /\ sendPc' = IF cur # 0 THEN "waitop" ELSE "lostop"
    /\ UNCHANGED <<voiceReqs, textReqs, opVars, req, opRef, pollPc, wire>>
    /\ SendFrame

-----------------------------------------------------------------------------
(* The gen_results thread: connection_.recv() and what follows.  A response*)
(* may come at any time after its request, and any number of times, until  *)
(* the connection is released; what recv() returned before is then handled.*)

Receives == recvPc = "holding" \/ (recvPc = "recv" /\ initialized)

RecvFrame ==
    UNCHANGED <<initialized, sessions, nextId, textReqs, appVars,
                req, opRef, relPc, wire, told>>

\* The stream responses_ after a response of each type; "UNKNOWN" is one of a
\* type the client does not know, "EXTRA" such a one with an extra.  (The extra
\* of a known type is one more intermediate result.)
WithResponse(id, type) ==
    LET q == IF ops[cur].status = "START" THEN Start(responses, id)
             ELSE responses
    IN CASE type = "FINISH" -> End(q, id)
         [] type = "FAILED" -> Erase(q, id, "error")
         [] type = "UNKNOWN" -> q
         [] type = "EXTRA"  -> Stream(q, id, "INTERMEDIATE")
         [] OTHER           -> Stream(q, id, type)

RoomFor(id) ==
    \A i \in DOMAIN responses :
        responses[i].id = id => Len(responses[i].data) < MaxResults

\* gen_result_by_resp() for the current operation, refresh_op_time() first.
RecvIntermediate(id, type) ==
    /\ Receives /\ RespFree
    /\ wire[id] # "none"
    /\ type \in RespTypes \intersect {"INTERMEDIATE", "ASR_FINISH"}
    /\ cur # 0 /\ ops[cur].id = id
    /\ RoomFor(id)
    /\ responses' = WithResponse(id, type)
    /\ ops' = CurrentIn("STREAMING")
    /\ timed' = TRUE
    /\ pollPc' = AfterNotifyResp
    /\ recvPc' = "recv"
    /\ UNCHANGED <<voiceReqs, removed, cur, sendPc, eraseId>>
    /\ RecvFrame

\* The default branch: the operation is STREAMING and responses_ has its stream,
\* and its extra, but the handler returns before it notifies poll().
RecvUnknown(id, type) ==
    /\ Receives /\ RespFree
    /\ wire[id] # "none" /\ type \in RespTypes \intersect {"UNKNOWN", "EXTRA"}
    /\ cur # 0 /\ ops[cur].id = id
    /\ type = "EXTRA" => RoomFor(id)
    /\ responses' = WithResponse(id, type)
    /\ ops' = CurrentIn("STREAMING")
    /\ timed' = TRUE
    /\ pollPc' = IF pollPc = "wait" /\ responses' # responses THEN "passed"
                 ELSE pollPc
    /\ recvPc' = "recv"
    /\ UNCHANGED <<voiceReqs, removed, cur, sendPc, eraseId>>
    /\ RecvFrame

\* Variant: finish_op() forgets op_cond_.
RecvLastNoNotify(id, type) ==
    /\ Receives /\ RespFree
    /\ wire[id] # "none" /\ type \in RespTypes \intersect {"FINISH", "FAILED"}
    /\ cur # 0 /\ ops[cur].id = id
    /\ responses' = WithResponse(id, type)
    /\ ops' = CurrentIn("END")
    /\ NoCurrent
    /\ pollPc' = AfterNotifyResp
    /\ recvPc' = "erase" /\ eraseId' = id
    /\ UNCHANGED <<voiceReqs, removed, sendPc>>
    /\ RecvFrame

\* FINISH, with success or with an error code, and finish_op().
RecvLast(id, type) ==
    /\ Receives /\ RespFree
    /\ wire[id] # "none" /\ type \in RespTypes \intersect {"FINISH", "FAILED"}
    /\ cur # 0 /\ ops[cur].id = id
    /\ responses' = WithResponse(id, type)
    /\ ops' = CurrentIn("END")
    /\ NoCurrent
    /\ pollPc' = AfterNotifyResp
    /\ sendPc' = AfterNotifyOp
    /\ recvPc' = "erase" /\ eraseId' = id
    /\ UNCHANGED <<voiceReqs, removed>>
    /\ RecvFrame

\* A response to another request than the current one is dropped, but
\* refresh_op_time() has restarted the clock of the current operation.
RecvStale(id) ==
    /\ Receives /\ RespFree
    /\ wire[id] # "none"
    /\ cur # 0 /\ ops[cur].id # id
    /\ RefreshOpTime
    /\ recvPc' = "recv"
    /\ UNCHANGED <<voiceReqs, responses, sendPc, eraseId, pollPc>>
    /\ RecvFrame

\* With no current operation a response has no effect at all.
RecvIgnored ==
    /\ recvPc = "holding" /\ cur = 0 /\ RespFree
    /\ recvPc' = "recv"
    /\ UNCHANGED <<voiceReqs, responses, opVars, sendPc, eraseId, pollPc>>
    /\ RecvFrame

\* The operation in progress, if any, fails.
RecvAborts ==
    /\ RespFree
    /\ SetOpError
    /\ pollPc' = AfterNotifyResp
    /\ sendPc' = IF cur # 0 THEN AfterNotifyOp ELSE sendPc
    /\ recvPc' = IF cur # 0 THEN "erase" ELSE "recv"
    /\ eraseId' = IF cur # 0 THEN ops[cur].id ELSE 0
    /\ UNCHANGED <<voiceReqs, responses>>
    /\ RecvFrame

\* recv() times out and op_timeout() is 0.
RecvTimeout == recvPc = "recv" /\ timed /\ RecvAborts

\* The connection broke or a response is unreadable: they differ in the error
\* code only.
RecvBroken == Receives /\ RecvAborts

\* Variant: erase_req() forgets req_cond_.
EraseReqNoNotify ==
    /\ recvPc = "erase"
    /\ recvPc' = "recv" /\ eraseId' = 0
    /\ voiceReqs' = Erase(voiceReqs, eraseId, "error")
    /\ UNCHANGED <<responses, opVars, pollPc, sendPc>>
    /\ RecvFrame

EraseReq ==
    /\ recvPc = "erase"
    /\ recvPc' = "recv" /\ eraseId' = 0
    /\ voiceReqs' = Erase(voiceReqs, eraseId, "error")
    /\ sendPc' = IF Has(voiceReqs, eraseId) THEN AfterNotifyReq ELSE sendPc
    /\ UNCHANGED <<responses, opVars, pollPc>>
    /\ RecvFrame

\* NOT_READY: connection_.release() has queued its CLOSED.
RecvQuit ==
    /\ recvPc = "recv" /\ ~initialized
    /\ recvPc' = "quit"
    /\ UNCHANGED <<voiceReqs, responses, opVars, sendPc, eraseId, pollPc>>
    /\ RecvFrame

-----------------------------------------------------------------------------
(* The polling thread.                                                     *)

PollFrame ==
    UNCHANGED <<initialized, sessions, nextId, voiceReqs, textReqs, ops, cur,
                timed, appVars, sendVars, recvPc, eraseId, relPc, wire>>

\* A call of poll().
PollCall ==
    /\ pollPc = "out" /\ initialized
    /\ pollPc' = "run"
    /\ UNCHANGED <<removed, responses, told>>
    /\ PollFrame

PollReturnsFalse ==
    /\ pollPc = "run" /\ ~initialized
    /\ pollPc' = "out"
    /\ UNCHANGED <<removed, responses, told>>
    /\ PollFrame

\* The results of an id are recorded, but for intermediate ones in their place.
Tell(id, type) ==
    told' = IF type \in {"INTERMEDIATE", "ASR_FINISH"}
            THEN IF told[id] = <<"START">> THEN told
                 ELSE [told EXCEPT ![id] = Append(@, "DATA")]
            ELSE [told EXCEPT ![id] = Append(@, type)]

\* Variant: the stream is erased and left for a later pop.
PollAbortedNoPop ==
    /\ pollPc = "run" /\ initialized /\ RespFree
    /\ HasFront /\ Front.status \in {"CANCELLED", "ERROR"}
    /\ responses' = Erase(responses, Front.id, "deleted")
    /\ Tell(Front.id, Front.status)
    /\ removed' = removed + 1
    /\ UNCHANGED pollPc
    /\ PollFrame

\* A cancelled or failed operation: its stream is erased, and popped at once.
PollAborted ==
    /\ pollPc = "run" /\ initialized /\ RespFree
    /\ HasFront /\ Front.status \in {"CANCELLED", "ERROR"}
    /\ responses' = IF Has(responses, Front.id)
                    THEN Popped(Erase(responses, Front.id, "deleted"))
                    ELSE responses
    /\ Tell(Front.id, Front.status)
    /\ removed' = removed + 1
    /\ UNCHANGED pollPc
    /\ PollFrame

\* Variant: the comparison with SPEECH_RES_END is off, START ends it too.
PollResultStartEnds ==
    /\ pollPc = "run" /\ initialized /\ RespFree
    /\ HasFront /\ Front.status \notin {"CANCELLED", "ERROR"}
    /\ PopType(responses) # "EMPTY"
    /\ Tell(responses[1].id,
            IF PopType(responses) = "DATA" THEN responses[1].data[1]
            ELSE IF PopType(responses) = "REMOVED" THEN "CANCELLED"
            ELSE PopType(responses))
    /\ responses' = Popped(responses)
    /\ removed' = IF PopType(responses) # "DATA" THEN removed + 1 ELSE removed
    /\ UNCHANGED pollPc
    /\ PollFrame

\* Any other operation: the next result of the first stream, which ends the
\* operation if it is of type SPEECH_RES_END or greater.
PollResult ==
    /\ pollPc = "run" /\ initialized /\ RespFree
    /\ HasFront /\ Front.status \notin {"CANCELLED", "ERROR"}
    /\ PopType(responses) # "EMPTY"
    /\ Tell(responses[1].id,
            IF PopType(responses) = "DATA" THEN responses[1].data[1]
            ELSE IF PopType(responses) = "REMOVED" THEN "CANCELLED"
            ELSE PopType(responses))
    /\ responses' = Popped(responses)
    /\ removed' = IF PopType(responses) \in {"END", "REMOVED", "ERROR"}
                  THEN removed + 1 ELSE removed
    /\ UNCHANGED pollPc
    /\ PollFrame

NothingToPoll ==
    \/ ~HasFront
    \/ /\ HasFront /\ Front.status \notin {"CANCELLED", "ERROR"}
       /\ PopType(responses) = "EMPTY"

PollWaits ==
    /\ pollPc = "run" /\ initialized /\ RespFree
    /\ NothingToPoll
    /\ pollPc' = "wait"
    /\ UNCHANGED <<removed, responses, told>>
    /\ PollFrame

-----------------------------------------------------------------------------
\* A condition variable may wake its waiter without a notify.
SpuriousWakeup ==
    /\ \/ /\ "req" \in Spurious /\ sendPc \in {"waitreq", "lostreq"}
          /\ sendPc' = "top" /\ UNCHANGED pollPc
       \/ /\ "op" \in Spurious /\ sendPc \in {"waitop", "lostop"}
          /\ sendPc' = "top" /\ UNCHANGED pollPc
       \/ /\ "resp" \in Spurious /\ pollPc \in {"wait", "passed"}
          /\ pollPc' = "run" /\ UNCHANGED sendPc
    /\ UNCHANGED <<initialized, sessions, nextId, voiceReqs, textReqs, opVars,
                   responses, appVars, req, opRef, recvPc, eraseId, relPc,
                   wire, told>>

LifecycleStep ==
    \/ Prepare \/ ReleaseRequests \/ ReleaseTestOp \/ ReleaseSetOpError
    \/ ReleaseResponses \/ ReleaseReturns

AppStep ==
    \/ StartVoice \/ PutText
    \/ \E id \in 1..nextId : PutVoice(id) \/ EndVoice(id)

CancelStep ==
    \/ \E id \in 1..nextId : CancelQueued(id)
    \/ CancelAllQueued
    \/ \E id \in cancels : CancelOperations(id)

\* What the send_reqs thread does between two sleeps; the connection decides
\* whether a message goes out.
SendStep ==
    \/ SendQuit \/ SendPopVoice \/ SendNoVoice \/ SendPeekOp \/ SendPopText
    \/ SendTextMustWait \/ ControlReadOp \/ ControlStart \/ ControlContinue
    \/ ControlCancel \/ ControlCancelUnsent \/ ControlDrop \/ RequestSent
    \/ RequestFailed \/ RequestSetTime \/ RequestSetError \/ WaitOpTest
    \/ WaitOpSleep

RecvStep ==
    \/ \E id \in Ids : \/ \E t \in RespTypes :
                              \/ RecvIntermediate(id, t) \/ RecvLast(id, t)
                              \/ RecvUnknown(id, t)
                       \/ RecvStale(id)
    \/ RecvIgnored \/ RecvTimeout \/ RecvBroken \/ EraseReq \/ RecvQuit

PollStep ==
    PollCall \/ PollReturnsFalse \/ PollAborted \/ PollResult \/ PollWaits

Next ==
    \/ LifecycleStep \/ AppStep \/ CancelStep \/ SendStep \/ RecvStep
    \/ PollStep \/ SpuriousWakeup

Spec == Init /\ [][Next]_vars

\* The response or the timeout that ends the operation in progress.
EndsCurrent ==
    /\ cur # 0
    /\ \/ \E id \in Ids, t \in RespTypes : RecvLast(id, t)
       \/ RecvTimeout

\* Threads that can run do run; the server answers or the operation times
\* out; the application ends every voice request it has started.
Fairness ==
    /\ WF_vars(SendStep)
    /\ WF_vars(PollStep)
    /\ WF_vars(EndsCurrent)
    /\ WF_vars(EraseReq)
    /\ WF_vars(RecvIgnored \/ RecvQuit)
    /\ WF_vars(\E id \in cancels : CancelOperations(id))
    /\ WF_vars(ReleaseTestOp \/ ReleaseSetOpError \/ ReleaseResponses
                \/ ReleaseReturns)
    /\ \A id \in Ids : WF_vars(Accepts(voiceReqs, id) /\ EndVoice(id))

FairSpec == Spec /\ Fairness

-----------------------------------------------------------------------------
(* Properties.                                                             *)

SendPcs == {"quit", "top", "waitreq", "peek", "peeked", "crashed", "control",
            "change", "send", "failed", "sent", "finish", "block", "waitop",
            "lostreq", "lostop"}

\* The type invariant.
TypeOK ==
    /\ initialized \in BOOLEAN /\ sessions \in Nat
    /\ nextId \in 0..MaxId
    /\ voiceReqs \in VoiceStreams
    /\ textReqs \in Seq(TextRequests)
    /\ ops \in Seq(Operations)
    /\ removed \in 0..Len(ops) /\ cur \in 0..Len(ops) /\ timed \in BOOLEAN
    /\ responses \in ResponseStreams
    /\ appPc \in {"idle", "late"}
    /\ cancels \subseteq 0..MaxId
    /\ sendPc \in SendPcs
    /\ req \in Requests
    /\ opRef \in 0..Len(ops)
    /\ recvPc \in {"recv", "holding", "erase", "quit"} /\ eraseId \in Nat
    /\ pollPc \in {"out", "run", "wait", "passed"}
    /\ relPc \in {"down", "up", "seterror", "writeerror", "joinsend",
                  "joinrecv", "crashed"}
    /\ wire \in [Ids -> {"none", "open", "ended"}]
    /\ told \in [Ids -> Seq(Results)]

\* An operation that is not finished is the current one and the newest one:
\* no step of any thread leaves an operation START or STREAMING behind, which
\* poll() would wait on for ever (op_ctl.h:27-85, speech_impl.cc:554-596).
OnlyCurrentIsLive ==
    /\ \A i \in DOMAIN ops : ops[i].status \notin Terminal => i = cur
    /\ cur # 0 => cur = Len(ops) /\ ops[cur].status \notin Terminal

\* When send_reqs acts on the operation it read before it released the lock,
\* a request that starts finds no operation (the assertion of
\* speech_impl.cc:569), and any other finds its own operation or none.
ControlFindsOwnOp ==
    sendPc = "change" =>
        IF Starts THEN opRef = 0 /\ cur = 0
        ELSE /\ opRef # 0 => ops[opRef].id = req.id
             /\ cur \in {0, opRef}

\* The results poll() takes off responses_ are those of the operation at the
\* front of operations_ (the assertions of speech_impl.cc:408, 421, 435).
PollServesFrontOp ==
    (HasFront /\ RespFree) =>
        IF Front.status \in {"CANCELLED", "ERROR"}
        THEN Has(responses, Front.id) => responses[1].id = Front.id
        ELSE PopType(responses) # "EMPTY" => responses[1].id = Front.id

\* poll() sleeps only when nothing can be returned: no operation is left, or
\* the first one is in progress and has no result.  But for the responses of an
\* unknown type (speech_impl.cc:864-866) no notify of resp_cond_ is missing, and
\* even after one the operation is still in progress, so that its end wakes
\* poll(); no finished operation lacks its last result (speech_impl.cc:398-478).
PollSleepsOnlyForCurrent ==
    /\ (pollPc = "wait" /\ initialized) =>
            \/ ~HasFront
            \/ cur = removed + 1 /\ PopType(responses) = "EMPTY"
    /\ (pollPc = "passed" /\ initialized) => cur = removed + 1

\* send_reqs sleeps on op_cond_ only while the operation of its last request
\* is the current one: whoever ends it also wakes the thread (op_ctl.h:60-64).
SleepsForOwnOp ==
    sendPc \in {"block", "waitop", "lostop"} => cur # 0 /\ ops[cur].id = req.id

Answered(id) == \E k \in DOMAIN told[id] : told[id][k] \in Terminal

\* What poll() returns.  Of one id: START first if at all, intermediate results
\* right after it (they are recorded anywhere else), END only after it, and after
\* the last result nothing, except that a cancellation may repeat (speech.h:40-45
\* says there is one last result; the rest of an ended request's stream makes a
\* second operation, speech_impl.cc:589).  Of two ids: requests are answered in
\* the order in which their operations were made, one gets its first result when
\* the ones before it have their last (op_ctl.h:34, speech_impl.cc:400-473).
AnswersInOrder ==
    /\ \A id \in Ids : \A k \in DOMAIN told[id] :
        /\ told[id][k] = "START" => k = 1
        /\ told[id][k] # "DATA"
        /\ told[id][k] = "END" => told[id][1] = "START"
        /\ \A j \in 1..(k - 1) :
              told[id][j] \in Terminal => told[id][k] = "CANCELLED"
    /\ \A i, j \in DOMAIN ops :
        (/\ i < j
         /\ \A k \in 1..(j - 1) : ops[k].id # ops[j].id
         /\ told[ops[j].id] # <<>>) => Answered(ops[i].id)

\* The server sees each request start once, then its voice, then at most one
\* end, and no voice or end of a request that never reached it.
WireInOrder ==
    (sendPc = "send" /\ initialized) =>
        IF Starts THEN wire[req.id] = "none" ELSE wire[req.id] = "open"

\* A request the application was given an id for is queued, in the hands of
\* send_reqs, an operation still to be polled, or answered: no interleaving
\* of cancel, errors, timeouts and results makes one vanish.
RequestsKept ==
    initialized =>
        \A id \in 1..nextId :
            \/ Answered(id)
            \/ Has(voiceReqs, id) \/ TextHas(id)
            \/ sendPc \in {"control", "change"} /\ req.id = id
            \/ \E i \in DOMAIN ops : i > removed /\ ops[i].id = id

\* Every request is answered, however responses, errors, timeouts and
\* cancellations interleave with its sending.
EveryRequestAnswered ==
    \A id \in Ids : (nextId >= id) ~> Answered(id)

\* A request cancelled while it was queued stays cancelled until send_reqs
\* takes it: it is never turned into one to be sent.
CancelSticks ==
    [][\A i \in DOMAIN voiceReqs :
          voiceReqs[i].type = "deleted" =>
              \A j \in DOMAIN voiceReqs' :
                  voiceReqs'[j].id = voiceReqs[i].id =>
                      voiceReqs'[j].type \in {"deleted", "error"}]_vars

\* release() returns, unless it loses one of four races, in which send_reqs falls
\* asleep on op_cond_ after the notify of its operation's end, or on req_cond_
\* after that of release(), because it tested before and not again; or takes the
\* front of a text list that was cleared; or the current operation is gone between
\* the test and the write of set_op_error().  A thread that slept when release()
\* came is woken (speech_impl.cc:140-164, 519-537, op_ctl.h:39-46, 60-64).
ReleaseEnds ==
    (relPc = "seterror") ~>
        \/ relPc \in {"down", "crashed"}
        \/ sendPc \in {"lostop", "lostreq", "crashed"}

\* If Speech.release() is invoked, poll() returns false (speech.h:126): every
\* poll is out once release() has told the responses to close.
PollSeesRelease == (relPc = "joinrecv") ~> (pollPc = "out")
=============================================================================

----------------------------- MODULE TtsProofs -----------------------------
(***************************************************************************)
(* Type correctness of Tts, and in one session the safety of its threads   *)
(* (OnlyCurrentIsLive, NoLostWakeup, PollServesFrontOp, AnsweredOnce and   *)
(* RequestsKept), for any number of requests and results.                  *)
(***************************************************************************)
EXTENDS TtsInvariant, ClientLemmas

-----------------------------------------------------------------------------
(* Types.                                                                  *)

\* What the operations of StreamQueue make of the responses.
LEMMA ResponseLemma ==
    ASSUME responses \in ResponseStreams
    PROVE  /\ <<>> \in ResponseStreams
           /\ Popped(responses) \in ResponseStreams
           /\ \A id : /\ Erase(responses, id, "deleted") \in ResponseStreams
                      /\ Popped(Erase(responses, id, "deleted"))
                            \in ResponseStreams
           /\ \A id \in Nat, voice \in BOOLEAN :
                /\ WithResponse(id, voice) \in ResponseStreams
                /\ End(WithResponse(id, voice), id) \in ResponseStreams
           /\ PopType(responses) \in
                {"EMPTY", "START", "DATA", "END", "REMOVED", "ERROR"}
           /\ PopType(responses) # "EMPTY" =>
                responses # <<>> /\ responses[1].id \in Nat
<1> DEFINE D == {"VOICE"}
           Q == Queues(Nat, D)
<1>1. responses \in Q /\ <<>> \in Q
  BY DEF ResponseStreams, Queues
<1> HIDE DEF D
<1>2. \A q \in Q : Popped(q) \in Q
  BY PoppedLemma
<1>3. \A q \in Q : \A id : Erase(q, id, "deleted") \in Q
  BY EraseLemma
<1>4. \A q \in Q, id \in Nat : Start(q, id) \in Q /\ End(q, id) \in Q
  BY StartLemma, EndLemma
<1>5. \A q \in Q, id \in Nat : Stream(q, id, "VOICE") \in Q
  BY StreamLemma DEF D
<1>6. /\ PopType(responses) \in
            {"EMPTY", "START", "DATA", "END", "REMOVED", "ERROR"}
      /\ PopType(responses) # "EMPTY" => /\ responses # <<>>
                                         /\ Len(responses) \in Nat \ {0}
  BY <1>1, PopTypeLemma
<1>7. PopType(responses) # "EMPTY" => responses[1].id \in Nat
  <2>1. PopType(responses) # "EMPTY" => responses[1] \in Streams(Nat, D)
    BY <1>1, <1>6 DEF Queues
  <2> QED
    BY <2>1 DEF Streams
<1> HIDE DEF Q
<1>8. \A id \in Nat, voice \in BOOLEAN :
        WithResponse(id, voice) \in Q /\ End(WithResponse(id, voice), id) \in Q
  BY <1>1, <1>4, <1>5 DEF WithResponse
<1>9. Q = ResponseStreams
  BY DEF Q, D, ResponseStreams
<1> QED
  BY <1>1, <1>2, <1>3, <1>6, <1>7, <1>8, <1>9

\* The fields of the first request and of the operation at the front.
LEMMA FieldsLemma ==
    ASSUME TypeOK
    PROVE  /\ OpTypes
           /\ HasFront => /\ removed + 1 \in 1..Len(ops)
                          /\ Front.id \in Nat /\ Front.status \in Statuses
           /\ requests # <<>> => /\ Head(requests) = requests[1]
                                 /\ Head(requests).id \in Nat
                                 /\ Tail(requests) \in Seq(Requests)
<1>1. OpTypes
  BY DEF TypeOK, OpTypes
<1>2. Len(ops) \in Nat /\ \A i \in 1..Len(ops) : ops[i] \in Operations
  BY DEF TypeOK
<1>3. HasFront => removed + 1 \in 1..Len(ops)
  BY <1>2 DEF TypeOK, HasFront
<1>4. requests # <<>> => /\ Head(requests) \in Requests
                         /\ Head(requests) = requests[1]
                         /\ Tail(requests) \in Seq(Requests)
  BY DEF TypeOK
<1> QED
  BY <1>1, <1>2, <1>3, <1>4 DEF Operations, Front, Requests

\* Operations rewritten in place, the current one kept or forgotten.
LEMMA RewrittenLemma ==
    ASSUME TypeOK
    PROVE  /\ \A which : \A status \in Statuses :
                /\ OpsIn(which, status) \in Seq(Operations)
                /\ Len(OpsIn(which, status)) = Len(ops)
           /\ Finished \in Seq(Operations) /\ Len(Finished) = Len(ops)
           /\ removed \in 0..Len(ops) /\ cur \in 0..Len(ops)
           /\ 0 \in 0..Len(ops)
<1>1. ops \in Seq(Operations) /\ Len(ops) \in Nat
  BY DEF TypeOK
<1>2. \A which : \A status \in Statuses :
        /\ OpsIn(which, status) \in Seq(Operations)
        /\ Len(OpsIn(which, status)) = Len(ops)
  BY <1>1, OpsInLemma
<1> QED
  BY <1>1, <1>2, FinishedLemma DEF TypeOK

\* set_op_error() and cancel_op() keep the types.
LEMMA EndedTypes ==
    ASSUME TypeOK
    PROVE  /\ SetOpError => OpTypes'
           /\ \A id : CancelOp(id) => OpTypes'
           /\ FinishOp => OpTypes'
<1> USE RewrittenLemma
<1>1. SetOpError => OpTypes'
  BY DEF SetOpError, CurrentIn, NoCurrent, OpTypes, Statuses
<1>2. ASSUME NEW id, CancelOp(id) PROVE OpTypes'
  <2>1. timed' \in BOOLEAN
    BY <1>2 DEF CancelOp, TypeOK
  <2> QED
    BY <1>2, <2>1 DEF CancelOp, OpTypes, Statuses
<1>3. FinishOp => OpTypes'
  BY DEF FinishOp, NoCurrent, OpTypes
<1> QED
  BY <1>1, <1>2, <1>3

\* What a poll() records is a result of a known type.
LEMMA TellLemma ==
    ASSUME TypeOK, NEW id,
           NEW type \in {"START", "DATA", "END", "CANCELLED", "ERROR"},
           Tell(id, type)
    PROVE  told' \in [Ids -> Seq(Results)]
<1>1. told \in [Ids -> Seq(Results)] /\ type \in Results
  BY DEF TypeOK, Results
<1>2. ASSUME id \in Ids PROVE Append(told[id], type) \in Seq(Results)
  BY <1>1, <1>2
<1>3. told' \in {told, [told EXCEPT ![id] = Append(@, type)]}
  BY DEF Tell
<1> QED
  BY <1>1, <1>2, <1>3

\* Every step keeps the types, if what poll() takes is a kind of result.
LEMMA TypeStep ==
    ASSUME TypeOK, PollServesFrontOp, [Next]_vars
    PROVE  TypeOK'
<1>1. CASE Prepare
  <2>1. told' \in [Ids -> Seq(Results)]
    BY <1>1 DEF Prepare
  <2>2. nextId' \in 0..MaxId /\ sessions' \in Nat
    BY <1>1, TtsBoundsAssumption DEF Prepare, TypeOK
  <2> QED
    BY <1>1, <2>1, <2>2 DEF TypeOK, Prepare, opVars
<1>2. CASE ReleaseRequests
  <2>1. requests' \in Seq(Requests)
    BY <1>2 DEF ReleaseRequests
  <2> QED
    BY <1>2, <2>1 DEF TypeOK, ReleaseRequests, AfterNotifyReq, opVars
<1>3. CASE ReleaseResponses
  <2>1. responses' \in ResponseStreams
    BY <1>3, ResponseLemma DEF TypeOK, ReleaseResponses
  <2>2. OpTypes'
    BY <1>3, EndedTypes DEF ReleaseResponses
  <2> QED
    BY <1>3, <2>1, <2>2 DEF TypeOK, OpTypes, ReleaseResponses,
       AfterNotifyResp
<1>4. CASE ReleaseReturns
  BY <1>4 DEF TypeOK, ReleaseReturns, opVars
<1>5. CASE Speak
  <2>1. nextId + 1 \in Nat /\ nextId' \in 0..MaxId
    BY <1>5, TtsBoundsAssumption DEF TypeOK, Speak
  <2>2. [id |-> nextId + 1, deleted |-> FALSE] \in Requests
    BY <2>1 DEF Requests
  <2>3. requests' \in Seq(Requests)
    BY <1>5, <2>2 DEF TypeOK, Speak
  <2> QED
    BY <1>5, <2>1, <2>3 DEF TypeOK, Speak, AfterNotifyReq, opVars
<1>6. ASSUME NEW id \in 0..nextId, Cancel(id)
      PROVE  TypeOK'
  <2>1. requests' \in Seq(Requests)
    <3>1. requests \in Seq(Requests)
      BY DEF TypeOK
    <3>2. requests' = [i \in DOMAIN requests |-> requests'[i]]
      BY <1>6 DEF Cancel
    <3>3. ASSUME NEW i \in DOMAIN requests PROVE requests'[i] \in Requests
      <4>1. requests[i] \in Requests
        BY <3>1
      <4> QED
        BY <1>6, <4>1 DEF Cancel, Requests
    <3> QED
      BY <3>1, <3>2, <3>3, RewriteInPlace
  <2>2. OpTypes'
    BY <1>6, EndedTypes, FieldsLemma DEF Cancel, opVars, OpTypes
  <2>3. /\ pollPc' \in {pollPc, "run"} /\ sendPc' \in {sendPc, "top"}
        /\ UNCHANGED <<initialized, sessions, nextId, responses, appPc, reqId,
                   recvPc, relPc, sent, told>>
    BY <1>6 DEF Cancel, AfterNotifyOp, AfterNotifyResp
  <2> QED
    BY <2>1, <2>2, <2>3 DEF TypeOK, OpTypes
<1>7. CASE SendQuit
  BY <1>7 DEF TypeOK, SendQuit, SendFrame, opVars
<1>8. CASE SendSleeps
  BY <1>8 DEF TypeOK, SendSleeps, SendFrame, opVars
<1>9. CASE SendStarts \/ SendCancels
  <2>1. /\ requests' \in Seq(Requests) /\ reqId' \in Nat
    BY <1>9, FieldsLemma DEF SendStarts, SendCancels
  <2>2. OpTypes'
    BY <1>9, <2>1, FieldsLemma, AppendedLemma DEF SendStarts, SendCancels,
       Statuses
  <2> QED
    BY <1>9, <2>1, <2>2 DEF TypeOK, OpTypes, SendStarts, SendCancels,
       SendFrame, AfterNotifyResp
<1>10. CASE RequestSent
  BY <1>10 DEF TypeOK, RequestSent, SendFrame, opVars
<1>11. CASE RequestFailed
  BY <1>11 DEF TypeOK, RequestFailed, SendFrame, opVars
<1>12. CASE RequestSetTime
  BY <1>12 DEF TypeOK, RequestSetTime, RefreshOpTime, SendFrame
<1>13. CASE RequestSetError
  <2>1. OpTypes'
    BY <1>13, EndedTypes DEF RequestSetError
  <2> QED
    BY <1>13, <2>1 DEF TypeOK, OpTypes, RequestSetError, SendFrame,
       AfterNotifyResp
<1>14. CASE WaitOp
  BY <1>14 DEF TypeOK, WaitOp, SendFrame, opVars
<1>15. ASSUME NEW id \in Ids, NEW voice \in BOOLEAN,
              RecvVoice(id, voice) \/ RecvFinish(id, voice)
       PROVE  TypeOK'
  <2>1. id \in Nat
    BY TtsBoundsAssumption DEF Ids
  <2>2. responses' \in ResponseStreams
    BY <1>15, <2>1, ResponseLemma DEF TypeOK, RecvVoice, RecvFinish
  <2>3. OpTypes'
    BY <1>15, RewrittenLemma DEF RecvVoice, RecvFinish, CurrentIn, NoCurrent,
       OpTypes, Statuses
  <2> QED
    BY <1>15, <2>2, <2>3, ZenonT(60) DEF TypeOK, OpTypes, RecvVoice, RecvFinish,
       RecvFrame, AfterNotifyResp, AfterNotifyOp
<1>16. ASSUME NEW id \in Ids, RecvStale(id)
       PROVE  TypeOK'
  BY <1>16 DEF TypeOK, RecvStale, RefreshOpTime, RecvFrame
<1>17. CASE RecvIgnored
  BY <1>17 DEF TypeOK, RecvIgnored, RecvFrame, opVars
<1>18. CASE RecvAborts
  <2>1. OpTypes'
    BY <1>18, EndedTypes DEF RecvAborts
  <2> QED
    BY <1>18, <2>1 DEF TypeOK, OpTypes, RecvAborts, RecvFrame,
       AfterNotifyResp, AfterNotifyOp
<1>19. CASE RecvQuit
  BY <1>19 DEF TypeOK, RecvQuit, RecvFrame, opVars
<1>20. CASE PollCall
  BY <1>20 DEF TypeOK, PollCall, PollFrame
<1>21. CASE PollReturnsFalse
  BY <1>21 DEF TypeOK, PollReturnsFalse, PollFrame
<1>22. CASE PollAborted
  <2>1. removed + 1 \in 0..Len(ops)
    BY <1>22, FieldsLemma DEF PollAborted, Aborted
  <2>2. told' \in [Ids -> Seq(Results)]
    BY <1>22, TellLemma DEF PollAborted, Aborted
  <2>3. responses' \in ResponseStreams
    BY <1>22, ResponseLemma DEF TypeOK, PollAborted
  <2> QED
    BY <1>22, <2>1, <2>2, <2>3 DEF TypeOK, PollAborted, PollFrame
<1>23. CASE PollResult
  <2>1. removed + 1 \in 0..Len(ops)
    BY <1>23, FieldsLemma DEF PollResult
  <2>2. PopType(responses) \in {"START", "DATA", "END"}
    BY <1>23 DEF PollResult, PollServesFrontOp
  <2>3. told' \in [Ids -> Seq(Results)]
    BY <1>23, <2>2, TellLemma DEF PollResult
  <2>4. responses' \in ResponseStreams
    BY <1>23, ResponseLemma DEF TypeOK, PollResult
  <2> QED
    BY <1>23, <2>1, <2>3, <2>4 DEF TypeOK, PollResult, PollFrame
<1>24. CASE PollWaits
  BY <1>24 DEF TypeOK, PollWaits, PollFrame
<1>25. CASE SpuriousWakeup
  BY <1>25 DEF TypeOK, SpuriousWakeup, opVars
<1>26. CASE UNCHANGED vars
  BY <1>26 DEF TypeOK, vars, opVars
<1> QED
  BY <1>1, <1>2, <1>3, <1>4, <1>5, <1>6, <1>7, <1>8, <1>9, <1>10, <1>11,
     <1>12, <1>13, <1>14, <1>15, <1>16, <1>17, <1>18, <1>19, <1>20, <1>21,
     <1>22, <1>23, <1>24, <1>25, <1>26 DEF Next, LifecycleStep, SendStep,
     RecvStep, PollStep, RecvTimeout, RecvBroken
-----------------------------------------------------------------------------
(* What the invariant says of the front of operations_ and responses_.     *)

\* The indices of the sequences.
LEMMA Indices ==
    ASSUME TypeOK
    PROVE  /\ Len(ops) \in Nat /\ DOMAIN ops = 1..Len(ops)
           /\ Len(requests) \in Nat /\ DOMAIN requests = 1..Len(requests)
           /\ Len(responses) \in Nat /\ DOMAIN responses = 1..Len(responses)
           /\ cur \in 0..Len(ops) /\ removed \in 0..Len(ops)
           /\ nextId \in Nat /\ nextId <= MaxId /\ MaxId \in Nat
           /\ requests = <<>> <=> Len(requests) = 0
           /\ responses = <<>> <=> Len(responses) = 0
           /\ \A i \in 1..Len(ops) : ops[i] \in Operations
           /\ \A i \in 1..Len(requests) : requests[i] \in Requests
           /\ \A i \in 1..Len(responses) :
                responses[i] \in Streams(Nat, {"VOICE"})
<1>1. responses \in Seq(Streams(Nat, {"VOICE"}))
  BY DEF TypeOK, ResponseStreams, Queues
<1>2. nextId \in Nat /\ nextId <= MaxId /\ MaxId \in Nat
  BY TtsBoundsAssumption DEF TypeOK
<1> QED
  BY <1>1, <1>2 DEF TypeOK

\* The same of the next state.
LEMMA IndicesNext ==
    ASSUME TypeOK'
    PROVE  /\ Len(ops') \in Nat /\ DOMAIN ops' = 1..Len(ops')
           /\ Len(requests') \in Nat /\ DOMAIN requests' = 1..Len(requests')
           /\ Len(responses') \in Nat
           /\ DOMAIN responses' = 1..Len(responses')
           /\ cur' \in 0..Len(ops') /\ removed' \in 0..Len(ops')
           /\ nextId' \in Nat /\ nextId' <= MaxId
           /\ requests' = <<>> <=> Len(requests') = 0
           /\ responses' = <<>> <=> Len(responses') = 0
           /\ \A i \in 1..Len(responses') :
                responses'[i] \in Streams(Nat, {"VOICE"})
<1>1. responses' \in Seq(Streams(Nat, {"VOICE"}))
  BY DEF TypeOK, ResponseStreams, Queues
<1>2. nextId' \in Nat /\ nextId' <= MaxId
  BY TtsBoundsAssumption DEF TypeOK
<1> QED
  BY <1>1, <1>2 DEF TypeOK

\* If the operation at the front has a stream it is the first one.
LEMMA FrontStream ==
    ASSUME TypeOK, IdsOrdered, StreamsFollow, HasFront, Has(responses, Front.id)
    PROVE  /\ responses # <<>> /\ responses[1].id = Front.id
           /\ \A i \in 2..Len(responses) : responses[i].id # Front.id
<1> USE Indices
<1>1. PICK i \in 1..Len(responses) : responses[i].id = ops[removed + 1].id
  BY DEF Has, Front
<1>2. removed + 1 \in 1..Len(ops) /\ 1 \in 1..Len(responses)
  BY DEF HasFront
<1>3. PICK k \in 1..Len(ops) : removed < k /\ ops[k].id = responses[1].id
  BY <1>2 DEF StreamsFollow
<1>4. k = removed + 1 \/ ops[removed + 1].id < ops[k].id
  BY <1>2, <1>3 DEF IdsOrdered
<1>5. ASSUME NEW j \in 2..Len(responses)
      PROVE  responses[1].id < responses[j].id
  <2>1. 1 \in DOMAIN responses /\ j \in DOMAIN responses /\ 1 < j
    BY <1>2
  <2> QED
    BY <2>1 DEF StreamsFollow
<1>6. i = 1 \/ responses[1].id < responses[i].id
  BY <1>1, <1>5
<1>7. ops[removed + 1].id \in Nat /\ responses[1].id \in Nat
  BY <1>2 DEF Operations, Streams
<1>8. responses[1].id = ops[removed + 1].id
  BY <1>1, <1>3, <1>4, <1>6, <1>7, SMTT(30)
<1>9. \A j \in 2..Len(responses) : responses[j].id \in Nat
  BY DEF Streams
<1> QED
  BY <1>2, <1>5, <1>7, <1>8, <1>9 DEF Front

\* What poll() takes off the responses is the answer to the front operation.
LEMMA ServesFront ==
    ASSUME IInv
    PROVE  PollServesFrontOp
<1> SUFFICES ASSUME HasFront PROVE PollServesFrontOp
  BY DEF PollServesFrontOp
<1> USE Indices
<1>0. /\ TypeOK /\ OnlyCurrentIsLive /\ IdsOrdered /\ StreamsFollow
      /\ BegunHasStream /\ SenderFollows /\ OneSession
  BY DEF IInv
<1>1. CASE Aborted
  BY <1>0, <1>1, FrontStream DEF PollServesFrontOp
<1>2. CASE ~Aborted /\ PopType(responses) # "EMPTY"
  <2>1. responses \in Queues(Nat, {"VOICE"})
    BY <1>0 DEF TypeOK, ResponseStreams
  <2>2. responses # <<>> /\ 1 \in DOMAIN responses
    BY <1>0, <1>2 DEF PopType
  <2>3. PopType(responses) \in {"START", "DATA", "END"}
    BY <1>0, <1>2, <2>1, <2>2, PopTypeLemma DEF StreamsFollow
  <2>4. responses[1].id = Front.id
    <3>1. PICK k \in 1..Len(ops) : removed < k /\ ops[k].id = responses[1].id
      BY <1>0, <2>2 DEF StreamsFollow
    <3>2. CASE Front.status \notin Terminal
      <4>1. removed + 1 = cur /\ cur = Len(ops)
        BY <1>0, <3>2 DEF OnlyCurrentIsLive, HasFront, Front
      <4>2. k = removed + 1
        BY <1>0, <3>1, <4>1
      <4> QED
        BY <3>1, <4>2 DEF Front
    <3>3. CASE Front.status \in Terminal
      <4>1. removed + 1 \in DOMAIN ops /\ Front.status = "END"
        BY <1>0, <1>2, <3>3 DEF Aborted, HasFront, Terminal
      <4>2. relPc \in {"up", "joinsend"}
        BY <1>0, <2>2 DEF OneSession, TypeOK
      <4>3. Has(responses, Front.id)
        BY <1>0, <4>1, <4>2 DEF BegunHasStream, Front, Has
      <4> QED
        BY <1>0, <4>3, FrontStream
    <3> QED
      BY <3>2, <3>3
  <2> QED
    BY <1>2, <2>3, <2>4 DEF PollServesFrontOp
<1>3. CASE ~Aborted /\ PopType(responses) = "EMPTY"
  BY <1>3 DEF PollServesFrontOp
<1> QED
  BY <1>1, <1>2, <1>3

-----------------------------------------------------------------------------
(* The steps that make no request, operation or stream.                    *)

\* Operations keep their place and id, and at most end without an answer.
OpsKeptOrEnded ==
    /\ SameIds(ops, ops') /\ removed' = removed
    /\ \A i \in 1..Len(ops) :
        \/ ops'[i].status = ops[i].status
        \/ removed < i /\ ops'[i].status \in {"CANCELLED", "ERROR"}

\* The current operation stays in progress, or has ended.
CurKeptOrEnded ==
    \/ cur' = cur /\ (cur # 0 => ops'[cur].status = ops[cur].status)
    \/ cur' = 0 /\ (cur # 0 => ops'[cur].status \in Terminal)

\* The requests keep their places, or release() has dropped them.
RequestsKeptOrDropped ==
    SameIds(requests, requests') \/ (requests' = <<>> /\ ~initialized')

\* The ids stay in order.
LEMMA IdsFrame ==
    ASSUME TypeOK, TypeOK', IdsOrdered, IdsKept, RequestsKeptOrDropped,
           SameIds(ops, ops'), nextId' = nextId, initialized' => initialized
    PROVE  IdsOrdered' /\ IdsKept'
<1> USE Indices, IndicesNext
<1>1. IdsOrdered'
  <2>1. CASE requests' = <<>>
    <3>1. DOMAIN requests' = {}
      BY <2>1
    <3>2. \A i \in 1..Len(ops) : ops'[i].id \in 1..nextId'
      BY DEF IdsOrdered, SameIds
    <3>3. \A i, j \in 1..Len(ops) : i < j => ops'[i].id < ops'[j].id
      BY DEF IdsOrdered, SameIds
    <3> QED
      BY <3>1, <3>2, <3>3 DEF IdsOrdered, SameIds
  <2>2. CASE SameIds(requests, requests')
    BY <2>2 DEF IdsOrdered, SameIds
  <2> QED
    BY <2>1, <2>2 DEF RequestsKeptOrDropped
<1>2. IdsKept'
  <2> SUFFICES ASSUME initialized', NEW id \in 1..nextId
               PROVE  Queued(id)' \/ \E i \in DOMAIN ops' : ops'[i].id = id
    BY DEF IdsKept
  <2>1. Queued(id) \/ \E i \in DOMAIN ops : ops[i].id = id
    BY DEF IdsKept
  <2>2. SameIds(requests, requests')
    BY DEF RequestsKeptOrDropped
  <2> QED
    BY <2>1, <2>2 DEF Queued, SameIds
<1> QED
  BY <1>1, <1>2

\* The streams and what was told of them stay in step with the operations.
LEMMA StreamsFrame ==
    ASSUME TypeOK, TypeOK', StreamsFollow, BegunHasStream, TalesFollow,
           OpsKeptOrEnded, RequestsKeptOrDropped,
           UNCHANGED <<responses, told, nextId>>,
           relPc' \in {"up", "joinsend"} => relPc \in {"up", "joinsend"}
    PROVE  StreamsFollow' /\ BegunHasStream' /\ TalesFollow'
<1> USE Indices, IndicesNext DEF OpsKeptOrEnded, SameIds
<1>1. StreamsFollow'
  <2>1. ASSUME NEW i \in DOMAIN responses
        PROVE  \E k \in DOMAIN ops' :
                /\ removed' < k /\ ops'[k].id = responses[i].id
                /\ responses[i].type = "completed" =>
                        ops'[k].status \in Terminal
    <3>1. PICK k \in DOMAIN ops :
                /\ removed < k /\ ops[k].id = responses[i].id
                /\ responses[i].type = "completed" => ops[k].status \in Terminal
      BY DEF StreamsFollow
    <3> QED
      BY <3>1 DEF Terminal
  <2> QED
    BY <2>1 DEF StreamsFollow
<1>2. BegunHasStream'
  <2> SUFFICES ASSUME relPc' \in {"up", "joinsend"}, NEW k \in 1..Len(ops),
                      removed < k, ops'[k].status \in {"STREAMING", "END"}
               PROVE  \E i \in DOMAIN responses :
                        /\ responses[i].id = ops'[k].id
                        /\ ops'[k].status = "END" =>
                                responses[i].type = "completed"
    BY DEF BegunHasStream
  <2>1. ops'[k].status = ops[k].status /\ ops'[k].id = ops[k].id
    OBVIOUS
  <2> QED
    BY <2>1 DEF BegunHasStream
<1>3. TalesKnown' /\ StreamsTold'
  BY DEF TalesFollow, TalesKnown, StreamsTold
<1>4. QueuedUntold'
  <2>1. CASE requests' = <<>>
    <3>1. DOMAIN requests' = {}
      BY <2>1
    <3> QED
      BY <3>1 DEF QueuedUntold
  <2>2. CASE SameIds(requests, requests')
    BY <2>2 DEF TalesFollow, QueuedUntold
  <2> QED
    BY <2>1, <2>2 DEF RequestsKeptOrDropped
<1>5. OpsTold'
  <2> SUFFICES ASSUME NEW k \in 1..Len(ops)
               PROVE  /\ k <= removed => Answered(ops[k].id)'
                      /\ k > removed =>
                            told[ops'[k].id] \in {<<>>, <<"START">>}
                      /\ ops'[k].status = "START" =>
                            /\ told[ops'[k].id] = <<>>
                            /\ ~Has(responses, ops'[k].id)
    BY DEF OpsTold
  <2>1. /\ ops'[k].id = ops[k].id
        /\ ops'[k].status = "START" => ops[k].status = "START"
    OBVIOUS
  <2>2. Answered(ops[k].id) => Answered(ops[k].id)'
    BY <2>1 DEF Answered
  <2> QED
    BY <2>1, <2>2 DEF TalesFollow, OpsTold
<1> QED
  BY <1>1, <1>2, <1>3, <1>4, <1>5 DEF TalesFollow

\* The current operation stays alone.
LEMMA LiveFrame ==
    ASSUME TypeOK, TypeOK', OnlyCurrentIsLive, OpsKeptOrEnded, CurKeptOrEnded
    PROVE  OnlyCurrentIsLive'
<1> USE Indices, IndicesNext DEF OpsKeptOrEnded, SameIds
<1>1. ASSUME NEW i \in 1..Len(ops), ops'[i].status \notin Terminal
      PROVE  i = cur'
  <2>1. ops[i].status \notin Terminal
    BY <1>1 DEF Terminal
  <2> QED
    BY <1>1, <2>1 DEF OnlyCurrentIsLive, CurKeptOrEnded
<1>2. cur' # 0 => cur' = Len(ops') /\ ops'[cur'].status \notin Terminal
  BY DEF OnlyCurrentIsLive, CurKeptOrEnded
<1> QED
  BY <1>1, <1>2 DEF OnlyCurrentIsLive

\* All of the invariant, for a step that ends the current operation only when
\* it leaves nobody asleep.
LEMMA FrameStep ==
    ASSUME IInv, TypeOK', OneSession', OpsKeptOrEnded, CurKeptOrEnded,
           RequestsKeptOrDropped, UNCHANGED <<responses, told, nextId, reqId>>,
           initialized' => initialized,
           relPc' \in {"up", "joinsend"} => relPc \in {"up", "joinsend"},
           cur' # 0 => sendPc' \in {"send", "sent", "failed", "finish",
                                    "waitop"},
           sendPc' = "waitop" => cur' # 0,
           (pollPc' = "wait" /\ initialized') =>
                pollPc = "wait" /\ initialized /\ cur' = cur
    PROVE  IInv'
<1> USE Indices, IndicesNext
<1>0. /\ TypeOK /\ OnlyCurrentIsLive /\ NoLostWakeup /\ IdsOrdered /\ IdsKept
      /\ SenderFollows /\ StreamsFollow /\ BegunHasStream /\ TalesFollow
  BY DEF IInv
<1>1. OnlyCurrentIsLive'
  BY <1>0, LiveFrame
<1>2. IdsOrdered' /\ IdsKept'
  BY <1>0, IdsFrame DEF OpsKeptOrEnded
<1>3. StreamsFollow' /\ BegunHasStream' /\ TalesFollow'
  BY <1>0, StreamsFrame
<1>4. SenderFollows'
  BY <1>0 DEF SenderFollows, CurKeptOrEnded, OpsKeptOrEnded, SameIds
<1>5. NoLostWakeup'
  BY <1>0, <1>4 DEF NoLostWakeup, SenderFollows, OpsKeptOrEnded, SameIds,
     HasFront
<1> QED
  BY <1>1, <1>2, <1>3, <1>4, <1>5 DEF IInv

\* A step that touches no request, operation or stream at all.
LEMMA IdleStep ==
    ASSUME IInv, TypeOK', OneSession',
           UNCHANGED <<requests, ops, cur, removed, responses, told, nextId,
                       reqId>>,
           initialized' => initialized,
           relPc' \in {"up", "joinsend"} => relPc \in {"up", "joinsend"},
           cur # 0 => sendPc' \in {"send", "sent", "failed", "finish",
                                   "waitop"},
           sendPc' = "waitop" => cur # 0,
           (pollPc' = "wait" /\ initialized') => pollPc = "wait" /\ initialized
    PROVE  IInv'
  BY FrameStep DEF OpsKeptOrEnded, CurKeptOrEnded, RequestsKeptOrDropped,
     SameIds

\* The current operation, if there is one, fails.
LEMMA ErrorLemma ==
    ASSUME TypeOK, OnlyCurrentIsLive, SenderFollows, SetOpError
    PROVE  OpsKeptOrEnded /\ CurKeptOrEnded /\ cur' = 0
<1> USE Indices
<1>1. ops' = OpsIn({cur}, "ERROR") /\ cur' = 0 /\ removed' = removed
  BY DEF SetOpError, CurrentIn, NoCurrent
<1>2. /\ Len(ops') = Len(ops)
      /\ \A i \in 1..Len(ops) :
            /\ ops'[i].id = ops[i].id
            /\ ops'[i].status = IF i \in {cur} THEN "ERROR" ELSE ops[i].status
  BY <1>1, OpsInLemma DEF TypeOK, Statuses
<1>3. cur # 0 => removed < cur /\ cur \in 1..Len(ops)
  BY DEF SenderFollows
<1>4. CurKeptOrEnded
  BY <1>1, <1>2, <1>3 DEF CurKeptOrEnded, Terminal
<1>5. \A i \in 1..Len(ops) : i \in {cur} => removed < i
  BY <1>3
<1> QED
  BY <1>1, <1>2, <1>4, <1>5 DEF OpsKeptOrEnded, SameIds

\* The quiet steps of send_reqs.
LEMMA SenderStep ==
    ASSUME IInv, TypeOK',
           \/ SendQuit \/ SendSleeps \/ RequestSent \/ RequestFailed
           \/ RequestSetTime \/ RequestSetError \/ WaitOp
    PROVE  IInv'
<1>0. /\ TypeOK /\ OnlyCurrentIsLive /\ SenderFollows /\ OneSession
  BY DEF IInv
<1>1. /\ UNCHANGED <<initialized, sessions, nextId, responses, appPc, relPc,
                     told, requests, reqId>>
      /\ sendPc # "quit" /\ pollPc' \in {pollPc, "run"}
  BY DEF SendFrame, SendQuit, SendSleeps, RequestSent, RequestFailed,
     RequestSetTime, RequestSetError, WaitOp, AfterNotifyResp
<1>2. OneSession'
  <2>1. ops = <<>> => ops' = <<>>
    <3>1. ASSUME RequestSetError, ops = <<>> PROVE ops' = <<>>
      BY <3>1 DEF RequestSetError, SetOpError, CurrentIn, OpsIn
    <3> QED
      BY <3>1 DEF SendQuit, SendSleeps, RequestSent, RequestFailed,
         RequestSetTime, RefreshOpTime, WaitOp, opVars
  <2>2. relPc \notin {"down", "joinrecv"}
    BY <1>0, <1>1 DEF OneSession
  <2> QED
    BY <1>0, <1>1, <2>1, <2>2 DEF OneSession
<1>3. CASE RequestSetError
  <2>1. OpsKeptOrEnded /\ CurKeptOrEnded /\ cur' = 0
    BY <1>0, <1>3, ErrorLemma DEF RequestSetError
  <2> QED
    BY <1>1, <1>2, <1>3, <2>1, FrameStep DEF RequestSetError, AfterNotifyResp,
       RequestsKeptOrDropped, SameIds
<1>4. CASE ~RequestSetError
  <2>1. UNCHANGED <<ops, cur, removed, pollPc>>
    BY <1>4 DEF SendQuit, SendSleeps, RequestSent, RequestFailed,
       RequestSetTime, RefreshOpTime, WaitOp, opVars
  <2>2. /\ cur # 0 => sendPc' \in {"send", "sent", "failed", "finish",
                                   "waitop"}
        /\ sendPc' = "waitop" => cur # 0
    BY <1>0, <1>4 DEF SenderFollows, SendQuit, SendSleeps, RequestSent,
       RequestFailed, RequestSetTime, WaitOp
  <2> QED
    BY <1>1, <1>2, <2>1, <2>2, IdleStep
<1> QED
  BY <1>3, <1>4

\* The steps of release() but for the loss of the responses.
LEMMA ReleaseStep ==
    ASSUME IInv, TypeOK', ReleaseRequests \/ ReleaseReturns
    PROVE  IInv'
<1>0. TypeOK /\ SenderFollows /\ OneSession
  BY DEF IInv
<1>1. CASE ReleaseRequests
  <2>1. OneSession'
    BY <1>0, <1>1 DEF OneSession, ReleaseRequests
  <2>2. OpsKeptOrEnded /\ CurKeptOrEnded /\ RequestsKeptOrDropped
    BY <1>1 DEF ReleaseRequests, opVars, OpsKeptOrEnded, CurKeptOrEnded,
       RequestsKeptOrDropped, SameIds
  <2> QED
    BY <1>0, <1>1, <2>1, <2>2, FrameStep DEF ReleaseRequests, SenderFollows,
       AfterNotifyReq, opVars
<1>2. CASE ReleaseReturns
  <2>1. OneSession'
    BY <1>0, <1>2 DEF OneSession, ReleaseReturns, opVars
  <2> QED
    BY <1>0, <1>2, <2>1, IdleStep DEF ReleaseReturns, SenderFollows, opVars,
       OneSession
<1> QED
  BY <1>1, <1>2

\* cancel() keeps the requests and their places.
LEMMA CancelRequests ==
    ASSUME TypeOK, NEW id, Cancel(id)
    PROVE  SameIds(requests, requests')
<1>1. requests \in Seq(Requests) /\ DOMAIN requests = 1..Len(requests)
  BY DEF TypeOK
<1>2. requests' = [i \in DOMAIN requests |-> requests'[i]]
  BY DEF Cancel
<1>3. ASSUME NEW i \in DOMAIN requests
      PROVE  requests'[i] \in Requests /\ requests'[i].id = requests[i].id
  <2>1. requests[i] \in Requests
    BY <1>1
  <2> QED
    BY <2>1 DEF Cancel, Requests
<1>4. Len(requests') = Len(requests)
  BY <1>1, <1>2, <1>3, RewriteInPlace
<1> QED
  BY <1>1, <1>3, <1>4 DEF SameIds

\* cancel() keeps the invariant: an operation it ends is waited for by nobody
\* any more.
LEMMA CancelStep ==
    ASSUME IInv, TypeOK', NEW id, Cancel(id)
    PROVE  IInv'
<1> USE Indices
<1>0. TypeOK /\ SenderFollows /\ OneSession /\ IdsOrdered /\ OnlyCurrentIsLive
  BY DEF IInv
<1>1. /\ UNCHANGED <<initialized, sessions, nextId, responses, appPc, reqId,
                     recvPc, relPc, sent, told>>
      /\ initialized
      /\ \/ UNCHANGED <<opVars, pollPc, sendPc>>
         \/ /\ CancelOp(id)
            /\ pollPc' = IF CancelsCurrent(id) THEN AfterNotifyResp ELSE pollPc
            /\ sendPc' = IF CancelsCurrent(id) THEN AfterNotifyOp ELSE sendPc
  BY DEF Cancel
<1>2. RequestsKeptOrDropped
  BY <1>0, CancelRequests DEF RequestsKeptOrDropped
<1>3. OneSession'
  <2>1. sessions' # 0 /\ relPc' = "up"
    BY <1>0, <1>1 DEF OneSession
  <2> QED
    BY <1>0, <1>1, <2>1 DEF OneSession
<1>4. CASE UNCHANGED <<opVars, pollPc, sendPc>>
  <2>1. OpsKeptOrEnded /\ CurKeptOrEnded
    BY <1>4 DEF opVars, OpsKeptOrEnded, CurKeptOrEnded, SameIds
  <2> QED
    BY <1>0, <1>1, <1>2, <1>3, <1>4, <2>1, FrameStep DEF SenderFollows, opVars
<1>5. CASE /\ CancelOp(id)
           /\ pollPc' = IF CancelsCurrent(id) THEN AfterNotifyResp ELSE pollPc
           /\ sendPc' = IF CancelsCurrent(id) THEN AfterNotifyOp ELSE sendPc
  <2>1. \A i, j \in DOMAIN ops : i < j => ops[i].id # ops[j].id
    <3>1. \A i \in DOMAIN ops : ops[i].id \in Nat
      BY <1>0 DEF Operations
    <3> QED
      BY <1>0, <3>1 DEF IdsOrdered
  <2>2. /\ SameIds(ops, ops')
        /\ \A i \in 1..Len(ops) :
                \/ ops'[i].status = ops[i].status
                \/ removed < i /\ ops'[i].status = "CANCELLED"
        /\ cur' = IF CancelsCurrent(id) THEN 0 ELSE cur
        /\ cur # 0 => ops'[cur].status = IF CancelsCurrent(id)
                                         THEN "CANCELLED"
                                         ELSE ops[cur].status
    BY <1>0, <1>5, <2>1, FieldsLemma, CancelOpLemma
  <2>3. removed' = removed
    BY <1>5 DEF CancelOp
  <2>4. OpsKeptOrEnded /\ CurKeptOrEnded
    BY <2>2, <2>3 DEF OpsKeptOrEnded, CurKeptOrEnded, Terminal
  <2>5. /\ cur' # 0 => sendPc' \in {"send", "sent", "failed", "finish",
                                    "waitop"}
        /\ sendPc' = "waitop" => cur' # 0
        /\ pollPc' = "wait" => pollPc = "wait" /\ cur' = cur
    BY <1>0, <1>5, <2>2 DEF SenderFollows, AfterNotifyOp, AfterNotifyResp
  <2> QED
    BY <1>1, <1>2, <1>3, <2>4, <2>5, FrameStep
<1> QED
  BY <1>1, <1>4, <1>5

\* The steps of gen_results that bring nothing.
LEMMA RecvQuietStep ==
    ASSUME IInv, TypeOK',
           RecvIgnored \/ RecvQuit \/ \E id \in Ids : RecvStale(id)
    PROVE  IInv'
<1>0. SenderFollows /\ OneSession
  BY DEF IInv
<1>1. /\ UNCHANGED <<initialized, sessions, nextId, requests, appPc, reqId,
                     relPc, told, responses, sendPc, pollPc, ops, cur, removed>>
  BY DEF RecvIgnored, RecvQuit, RecvStale, RecvFrame, RefreshOpTime, opVars
<1>2. OneSession'
  BY <1>0, <1>1 DEF OneSession
<1> QED
  BY <1>0, <1>1, <1>2, IdleStep DEF SenderFollows

\* gen_results ends the operation in progress: send_reqs and poll() are told.
LEMMA RecvAbortsStep ==
    ASSUME IInv, TypeOK', RecvAborts
    PROVE  IInv'
<1>0. TypeOK /\ OnlyCurrentIsLive /\ SenderFollows /\ OneSession
  BY DEF IInv
<1>1. /\ UNCHANGED <<initialized, sessions, nextId, requests, appPc, reqId,
                     relPc, told, responses>>
      /\ SetOpError
      /\ pollPc' = AfterNotifyResp
      /\ sendPc' = IF cur # 0 THEN AfterNotifyOp ELSE sendPc
  BY DEF RecvAborts, RecvFrame
<1>2. OpsKeptOrEnded /\ CurKeptOrEnded /\ cur' = 0
  BY <1>0, <1>1, ErrorLemma
<1>3. OneSession'
  <2>1. ops = <<>> => ops' = <<>>
    BY <1>1 DEF SetOpError, CurrentIn, OpsIn
  <2>2. sendPc = "quit" => sendPc' = "quit"
    BY <1>1 DEF AfterNotifyOp
  <2> QED
    BY <1>0, <1>1, <2>1, <2>2 DEF OneSession
<1>4. RequestsKeptOrDropped
  BY <1>1 DEF RequestsKeptOrDropped, SameIds
<1>5. sendPc' # "waitop" /\ pollPc' # "wait"
  BY <1>0, <1>1 DEF SenderFollows, AfterNotifyOp, AfterNotifyResp
<1> QED
  BY <1>1, <1>2, <1>3, <1>4, <1>5, FrameStep

\* A call of poll(), its return after release(), a wakeup for nothing, and a
\* stuttering step.
LEMMA OtherQuietStep ==
    ASSUME IInv, TypeOK', SingleSession,
           PollCall \/ PollReturnsFalse \/ SpuriousWakeup \/ UNCHANGED vars
    PROVE  IInv'
<1>0. SenderFollows /\ OneSession
  BY DEF IInv
<1>1. /\ UNCHANGED <<initialized, sessions, nextId, requests, appPc, reqId,
                     relPc, told, responses, ops, cur, removed>>
      /\ sendPc' = sendPc \/ (sendPc = "waitreq" /\ sendPc' = "top")
      /\ pollPc' = "wait" => pollPc = "wait"
  BY DEF PollCall, PollReturnsFalse, PollFrame, SpuriousWakeup, SingleSession,
     vars, opVars
<1>2. OneSession'
  <2>1. sendPc = "quit" => sendPc' = "quit"
    BY <1>1
  <2> QED
    BY <1>0, <1>1, <2>1 DEF OneSession
<1> QED
  BY <1>0, <1>1, <1>2, IdleStep DEF SenderFollows

\* poll() goes to sleep: an operation that is over would have a result for it.
LEMMA PollWaitsStep ==
    ASSUME IInv, TypeOK', PollWaits
    PROVE  IInv'
<1> USE Indices
<1>0. /\ TypeOK /\ OnlyCurrentIsLive /\ NoLostWakeup /\ IdsOrdered /\ IdsKept
      /\ SenderFollows /\ StreamsFollow /\ BegunHasStream /\ TalesFollow
      /\ OneSession
  BY DEF IInv
<1>1. /\ UNCHANGED <<initialized, sessions, nextId, requests, appPc, reqId,
                     relPc, told, responses, ops, cur, removed, sendPc>>
      /\ initialized /\ ~Aborted
      /\ HasFront => PopType(responses) = "EMPTY"
  BY DEF PollWaits, PollFrame
<1>2. HasFront => cur = removed + 1
  <2> SUFFICES ASSUME HasFront, Front.status \in Terminal PROVE FALSE
    BY <1>0 DEF OnlyCurrentIsLive, HasFront, Front
  <2>1. removed + 1 \in DOMAIN ops /\ Front.status = "END"
    BY <1>0, <1>1 DEF Aborted, HasFront, Terminal
  <2>2. relPc = "up"
    BY <1>0, <1>1 DEF OneSession
  <2>3. PICK i \in DOMAIN responses :
            responses[i].id = Front.id /\ responses[i].type = "completed"
    BY <1>0, <2>1, <2>2 DEF BegunHasStream, Front
  <2>4. /\ responses # <<>> /\ responses[1].id = Front.id
        /\ \A j \in 2..Len(responses) : responses[j].id # Front.id
    BY <1>0, <2>3, FrontStream DEF Has
  <2>5. responses[1].type = "completed"
    BY <1>0, <2>3, <2>4
  <2>6. responses \in Queues(Nat, {"VOICE"}) /\ Live(responses[1])
    BY <1>0, <2>5 DEF TypeOK, ResponseStreams, Live
  <2> QED
    BY <1>1, <2>4, <2>5, <2>6, PopTypeLemma
<1>3. NoLostWakeup'
  BY <1>0, <1>1, <1>2 DEF NoLostWakeup, HasFront
<1>4. /\ OpsKeptOrEnded /\ CurKeptOrEnded /\ RequestsKeptOrDropped
  BY <1>1 DEF OpsKeptOrEnded, CurKeptOrEnded, RequestsKeptOrDropped, SameIds
<1>5. OneSession' /\ SenderFollows'
  BY <1>0, <1>1 DEF OneSession, SenderFollows
<1>6. /\ OnlyCurrentIsLive' /\ IdsOrdered' /\ IdsKept'
      /\ StreamsFollow' /\ BegunHasStream' /\ TalesFollow'
  BY <1>0, <1>1, <1>4, LiveFrame, IdsFrame, StreamsFrame DEF SameIds
<1> QED
  BY <1>3, <1>5, <1>6 DEF IInv

-----------------------------------------------------------------------------
(* The steps that make or drop requests, operations and streams.           *)

\* prepare(), for the first time: there is nothing yet.
LEMMA PrepareStep ==
    ASSUME IInv, TypeOK', SingleSession, Prepare
    PROVE  IInv'
<1>0. TypeOK /\ OneSession
  BY DEF IInv
<1>1. sessions = 0
  BY <1>0, TtsBoundsAssumption DEF TypeOK, Prepare, SingleSession
<1>2. /\ ops' = <<>> /\ requests' = <<>> /\ responses' = <<>> /\ cur' = 0
      /\ removed' = 0 /\ nextId' = 0 /\ sendPc' = "top" /\ relPc' = "up"
      /\ initialized' /\ sessions' = 1 /\ told' = [id \in Ids |-> <<>>]
  <2>1. ops = <<>> /\ requests = <<>> /\ responses = <<>>
    BY <1>0, <1>1 DEF OneSession, Prepare
  <2>2. cur = 0 /\ removed = 0
    BY <1>0, <2>1 DEF TypeOK
  <2> QED
    BY <1>1, <2>1, <2>2 DEF Prepare, opVars
<1>3. DOMAIN ops' = {} /\ DOMAIN requests' = {} /\ DOMAIN responses' = {}
      /\ Len(ops') = 0
  BY <1>2
<1>4. OnlyCurrentIsLive' /\ SenderFollows' /\ OneSession'
  BY <1>2, <1>3 DEF OnlyCurrentIsLive, SenderFollows, OneSession
<1>5. NoLostWakeup'
  BY <1>2, <1>3 DEF NoLostWakeup, HasFront
<1>6. IdsOrdered' /\ IdsKept'
  BY <1>2, <1>3 DEF IdsOrdered, IdsKept
<1>7. StreamsFollow' /\ BegunHasStream'
  BY <1>3 DEF StreamsFollow, BegunHasStream
<1>8. TalesFollow'
  <2>1. \A id \in Ids : told'[id] = <<>>
    BY <1>2
  <2> QED
    BY <1>3, <2>1 DEF TalesFollow, TalesKnown, QueuedUntold, OpsTold,
       StreamsTold, Tales
<1> QED
  BY <1>4, <1>5, <1>6, <1>7, <1>8 DEF IInv

\* release() drops the responses: send_reqs has quit, so there is no current
\* operation to finish.
LEMMA ReleaseResponsesStep ==
    ASSUME IInv, TypeOK', ReleaseResponses
    PROVE  IInv'
<1> USE Indices
<1>0. /\ TypeOK /\ OnlyCurrentIsLive /\ NoLostWakeup /\ IdsOrdered /\ IdsKept
      /\ SenderFollows /\ TalesFollow /\ OneSession
  BY DEF IInv
<1>1. /\ UNCHANGED <<initialized, sessions, nextId, requests, appPc, sendPc,
                     reqId, told>>
      /\ relPc = "joinsend" /\ sendPc = "quit" /\ relPc' = "joinrecv"
      /\ responses' = <<>> /\ DOMAIN responses' = {}
      /\ pollPc' # "wait"
  BY DEF ReleaseResponses, AfterNotifyResp
<1>2. cur = 0 /\ cur' = 0 /\ ops' = ops /\ removed' = removed
  BY <1>0, <1>1 DEF SenderFollows, ReleaseResponses, FinishOp, Finished,
     NoCurrent
<1>3. OnlyCurrentIsLive' /\ NoLostWakeup' /\ SenderFollows'
  BY <1>0, <1>1, <1>2 DEF OnlyCurrentIsLive, NoLostWakeup, SenderFollows
<1>4. IdsOrdered' /\ IdsKept' /\ OneSession'
  BY <1>0, <1>1, <1>2 DEF IdsOrdered, IdsKept, Queued, OneSession
<1>5. StreamsFollow' /\ BegunHasStream'
  BY <1>1 DEF StreamsFollow, BegunHasStream
<1>6. TalesFollow'
  <2>1. \A id : ~Has(responses', id)
    BY <1>1 DEF Has
  <2>2. TalesKnown' /\ QueuedUntold' /\ StreamsTold'
    BY <1>0, <1>1 DEF TalesFollow, TalesKnown, QueuedUntold, StreamsTold
  <2>3. OpsTold'
    BY <1>0, <1>1, <1>2, <2>1 DEF TalesFollow, OpsTold, Answered
  <2> QED
    BY <2>2, <2>3 DEF TalesFollow
<1> QED
  BY <1>3, <1>4, <1>5, <1>6 DEF IInv

\* speak() gives out the next id and queues its request last.
LEMMA SpeakStep ==
    ASSUME IInv, TypeOK', Speak
    PROVE  IInv'
<1> USE Indices, IndicesNext
<1>0. /\ TypeOK /\ OnlyCurrentIsLive /\ NoLostWakeup /\ IdsOrdered /\ IdsKept
      /\ SenderFollows /\ StreamsFollow /\ BegunHasStream /\ TalesFollow
      /\ OneSession
  BY DEF IInv
<1>1. /\ UNCHANGED <<initialized, sessions, responses, reqId, pollPc, relPc,
                     told, ops, cur, removed>>
      /\ nextId' = nextId + 1 /\ nextId' \in Ids
      /\ sendPc' = sendPc \/ (sendPc = "waitreq" /\ sendPc' = "top")
  BY <1>0 DEF Speak, AfterNotifyReq, opVars, Ids
<1>2. /\ Len(requests') = Len(requests) + 1
      /\ \A i \in 1..Len(requests) : requests'[i] = requests[i]
      /\ requests'[Len(requests) + 1].id = nextId + 1
      /\ Len(requests) \in Nat
  <2> DEFINE r == [id |-> nextId + 1, deleted |-> FALSE]
  <2>1. requests' = Append(requests, r) /\ r.id = nextId + 1
    BY DEF Speak
  <2>2. r \in Requests /\ requests \in Seq(Requests)
    BY <1>0 DEF Requests, TypeOK
  <2> HIDE DEF r
  <2> QED
    BY <2>1, <2>2
<1>3. IdsOrdered'
  <2>1. \A i \in 1..Len(requests) :
            requests'[i].id \in 1..nextId /\ requests'[i].id < nextId + 1
    BY <1>0, <1>2, SMTT(30) DEF IdsOrdered
  <2>2. \A i \in 1..Len(ops) : ops[i].id \in 1..nextId'
                              /\ ops[i].id < nextId + 1
    BY <1>0, <1>1 DEF IdsOrdered
  <2>3. \A i \in 1..Len(requests') : requests'[i].id \in 1..nextId'
    BY <1>0, <1>1, <1>2, <2>1
  <2>4. \A i, j \in 1..Len(requests') :
            i < j => requests'[i].id < requests'[j].id
    <3> SUFFICES ASSUME NEW i \in 1..Len(requests'),
                        NEW j \in 1..Len(requests'), i < j
                 PROVE  requests'[i].id < requests'[j].id
      OBVIOUS
    <3>1. i \in 1..Len(requests)
      BY <1>0, <1>2
    <3>2. CASE j \in 1..Len(requests)
      BY <1>0, <1>2, <3>1, <3>2 DEF IdsOrdered
    <3>3. CASE j = Len(requests) + 1
      BY <1>2, <2>1, <3>1, <3>3
    <3>4. j \in 1..Len(requests) \/ j = Len(requests) + 1
      BY <1>2
    <3> QED
      BY <3>2, <3>3, <3>4
  <2>5. \A i \in 1..Len(ops), j \in 1..Len(requests') :
            ops[i].id < requests'[j].id
    <3> SUFFICES ASSUME NEW i \in 1..Len(ops), NEW j \in 1..Len(requests')
                 PROVE  ops[i].id < requests'[j].id
      OBVIOUS
    <3>1. CASE j \in 1..Len(requests)
      BY <1>0, <1>2, <3>1 DEF IdsOrdered
    <3>2. CASE j = Len(requests) + 1
      BY <1>2, <2>2, <3>2
    <3>3. j \in 1..Len(requests) \/ j = Len(requests) + 1
      BY <1>2
    <3> QED
      BY <3>1, <3>2, <3>3
  <2>6. \A i, j \in DOMAIN ops : i < j => ops[i].id < ops[j].id
    BY <1>0 DEF IdsOrdered
  <2> QED
    BY <1>0, <1>1, <2>2, <2>3, <2>4, <2>5, <2>6 DEF IdsOrdered
<1>4. IdsKept'
  <2> SUFFICES ASSUME initialized, NEW id \in 1..(nextId + 1)
               PROVE  \/ \E i \in 1..Len(requests') : requests'[i].id = id
                      \/ \E i \in DOMAIN ops : ops[i].id = id
    BY <1>1 DEF IdsKept, Queued
  <2>1. CASE id = nextId + 1
    <3>1. Len(requests) + 1 \in 1..Len(requests')
      BY <1>2
    <3>2. requests'[Len(requests) + 1].id = id
      BY <1>2, <2>1
    <3> QED
      BY <3>1, <3>2
  <2>2. CASE id \in 1..nextId
    <3>1. \/ \E i \in 1..Len(requests) : requests[i].id = id
          \/ \E i \in DOMAIN ops : ops[i].id = id
      BY <1>0, <2>2 DEF IdsKept, Queued
    <3>2. \A i \in 1..Len(requests) :
            i \in 1..Len(requests') /\ requests'[i].id = requests[i].id
      BY <1>2
    <3> QED
      BY <3>1, <3>2
  <2> QED
    BY <1>0, <2>1, <2>2, SMTT(30)
<1>5. TalesFollow'
  <2>1. TalesKnown' /\ StreamsTold'
    BY <1>0, <1>1 DEF TalesFollow, TalesKnown, StreamsTold
  <2>2. OpsTold'
    BY <1>0, <1>1 DEF TalesFollow, OpsTold, Answered
  <2>3. QueuedUntold'
    <3> SUFFICES ASSUME NEW i \in 1..Len(requests')
                 PROVE  told[requests'[i].id] = <<>>
      BY <1>1 DEF QueuedUntold
    <3>1. CASE i \in 1..Len(requests)
      BY <1>0, <1>2, <3>1 DEF TalesFollow, QueuedUntold
    <3>2. CASE i = Len(requests) + 1
      BY <1>0, <1>1, <1>2, <3>2 DEF TalesFollow, TalesKnown
    <3> QED
      BY <1>0, <1>2, <3>1, <3>2
  <2> QED
    BY <2>1, <2>2, <2>3 DEF TalesFollow
<1>6. /\ OnlyCurrentIsLive' /\ SenderFollows' /\ NoLostWakeup'
      /\ StreamsFollow' /\ BegunHasStream'
  BY <1>0, <1>1 DEF OnlyCurrentIsLive, SenderFollows, NoLostWakeup, HasFront,
     StreamsFollow, BegunHasStream
<1>7. OneSession'
  <2>1. sessions # 0 /\ (sendPc = "quit" => sendPc' = "quit")
    BY <1>0, <1>1 DEF OneSession, Speak
  <2> QED
    BY <1>0, <1>1, <2>1 DEF OneSession
<1> QED
  BY <1>3, <1>4, <1>5, <1>6, <1>7 DEF IInv

\* send_reqs makes the operation of the first request, in progress or already
\* cancelled, when none is in progress.
LEMMA NewOperation ==
    ASSUME IInv, TypeOK', NEW status \in {"START", "CANCELLED"}, cur = 0,
           requests # <<>>, requests' = Tail(requests),
           reqId' = Head(requests).id, NewOp(reqId', status),
           UNCHANGED <<initialized, nextId, responses, relPc, told>>
    PROVE  /\ OnlyCurrentIsLive' /\ IdsOrdered' /\ IdsKept' /\ StreamsFollow'
           /\ BegunHasStream' /\ TalesFollow'
           /\ Len(ops') = Len(ops) + 1 /\ removed' = removed
           /\ cur' = IF status = "START" THEN Len(ops) + 1 ELSE 0
           /\ ops'[Len(ops) + 1].id = reqId'
           /\ ops'[Len(ops) + 1].status = status
<1> USE Indices, IndicesNext
<1> DEFINE n == Len(ops)
<1>0. /\ TypeOK /\ OnlyCurrentIsLive /\ IdsOrdered /\ IdsKept
      /\ StreamsFollow /\ BegunHasStream /\ TalesFollow
  BY DEF IInv
<1>1. /\ Len(ops') = n + 1 /\ removed' = removed /\ n \in Nat
      /\ \A i \in 1..n : ops'[i] = ops[i]
      /\ ops'[n + 1].id = reqId' /\ ops'[n + 1].status = status
      /\ cur' = IF status = "START" THEN n + 1 ELSE 0
      /\ \A i \in 1..Len(ops') : i \in 1..n \/ i = n + 1
  <2>1. OpTypes /\ reqId' \in Nat /\ status \in Statuses
    BY <1>0, FieldsLemma DEF Statuses
  <2>2. /\ Len(ops') = n + 1 /\ \A i \in 1..n : ops'[i] = ops[i]
        /\ ops'[n + 1] = [id |-> reqId', status |-> status]
    BY <2>1, AppendedLemma
  <2>3. removed' = removed /\ cur' = IF status = "START" THEN n + 1 ELSE 0
    BY DEF NewOp
  <2> QED
    BY <1>0, <2>2, <2>3
<1>2. /\ Len(requests) >= 1 /\ Len(requests') = Len(requests) - 1
      /\ requests[1].id = reqId' /\ Len(requests) \in Nat
      /\ \A i \in 1..Len(requests') : /\ i + 1 \in 1..Len(requests)
                                      /\ requests'[i] = requests[i + 1]
  <2>1. requests \in Seq(Requests) /\ Len(requests) >= 1
    BY <1>0 DEF TypeOK
  <2> QED
    BY <2>1
<1>3. ASSUME NEW i \in 1..n
      PROVE  ops[i].id < reqId' /\ ops[i].id \in 1..nextId
  <2>1. 1 \in DOMAIN requests /\ i \in DOMAIN ops
    BY <1>0, <1>2
  <2> QED
    BY <1>0, <1>2, <2>1 DEF IdsOrdered
<1>4. reqId' \in 1..nextId
  BY <1>0, <1>2 DEF IdsOrdered
<1>5. ASSUME NEW i \in 1..Len(requests')
      PROVE  requests'[i].id \in 1..nextId /\ reqId' < requests'[i].id
  <2>1. i + 1 \in 1..Len(requests) /\ 1 \in 1..Len(requests) /\ 1 < i + 1
    BY <1>2
  <2> QED
    BY <1>0, <1>2, <2>1 DEF IdsOrdered
<1> HIDE DEF n
<1>6. OnlyCurrentIsLive'
  <2>1. ASSUME NEW i \in 1..n PROVE ops'[i].status \in Terminal
    BY <1>0, <1>1, <2>1 DEF OnlyCurrentIsLive, n
  <2>2. "CANCELLED" \in Terminal /\ "START" \notin Terminal
    BY DEF Terminal
  <2> QED
    BY <1>1, <2>1, <2>2 DEF OnlyCurrentIsLive
<1>7. IdsOrdered'
  <2>1. \A i \in 1..Len(ops') : ops'[i].id \in 1..nextId
    BY <1>1, <1>3, <1>4
  <2>2. \A i, j \in 1..Len(ops') : i < j => ops'[i].id < ops'[j].id
    <3> SUFFICES ASSUME NEW i \in 1..Len(ops'), NEW j \in 1..Len(ops'), i < j
                 PROVE  ops'[i].id < ops'[j].id
      OBVIOUS
    <3>1. i \in 1..n
      BY <1>1
    <3>2. CASE j \in 1..n
      BY <1>0, <1>1, <3>1, <3>2 DEF IdsOrdered, n
    <3>3. CASE j = n + 1
      BY <1>1, <1>3, <3>1, <3>3
    <3> QED
      BY <1>1, <3>2, <3>3
  <2>3. \A i, j \in 1..Len(requests') :
            i < j => requests'[i].id < requests'[j].id
    <3> SUFFICES ASSUME NEW i \in 1..Len(requests'),
                        NEW j \in 1..Len(requests'), i < j
                 PROVE  requests'[i].id < requests'[j].id
      OBVIOUS
    <3>1. i + 1 \in 1..Len(requests) /\ j + 1 \in 1..Len(requests)
          /\ i + 1 < j + 1
      BY <1>2
    <3> QED
      BY <1>0, <1>2, <3>1 DEF IdsOrdered
  <2>4. \A i \in 1..Len(ops'), j \in 1..Len(requests') :
            ops'[i].id < requests'[j].id
    <3> SUFFICES ASSUME NEW i \in 1..Len(ops'), NEW j \in 1..Len(requests')
                 PROVE  ops'[i].id < requests'[j].id
      OBVIOUS
    <3>1. CASE i \in 1..n
      BY <1>0, <1>1, <1>2, <3>1 DEF IdsOrdered, n
    <3>2. CASE i = n + 1
      BY <1>1, <1>5, <3>2
    <3> QED
      BY <1>1, <3>1, <3>2
  <2> QED
    BY <1>5, <2>1, <2>2, <2>3, <2>4 DEF IdsOrdered
<1>8. IdsKept'
  <2> SUFFICES ASSUME initialized, NEW id \in 1..nextId
               PROVE  \/ \E i \in 1..Len(requests') : requests'[i].id = id
                      \/ \E i \in 1..Len(ops') : ops'[i].id = id
    BY DEF IdsKept, Queued
  <2>1. n + 1 \in 1..Len(ops') /\ \A i \in 1..n : i \in 1..Len(ops')
    BY <1>1
  <2>2. \/ \E i \in 1..Len(requests) : requests[i].id = id
        \/ \E i \in 1..n : ops[i].id = id
    BY <1>0 DEF IdsKept, Queued, n
  <2>3. ASSUME NEW i \in 1..Len(requests), requests[i].id = id, i # 1
        PROVE  i - 1 \in 1..Len(requests') /\ requests'[i - 1].id = id
    <3>1. i - 1 \in 1..Len(requests') /\ (i - 1) + 1 = i
      BY <1>2, <2>3
    <3> QED
      BY <1>2, <2>3, <3>1
  <2>4. CASE id = reqId'
    BY <1>1, <2>1, <2>4
  <2>5. CASE id # reqId'
    BY <1>1, <1>2, <2>1, <2>2, <2>3, <2>5
  <2> QED
    BY <2>4, <2>5
<1>9. StreamsFollow' /\ BegunHasStream'
  <2>1. ASSUME NEW i \in DOMAIN responses
        PROVE  \E k \in 1..Len(ops') :
                /\ removed < k /\ ops'[k].id = responses[i].id
                /\ responses[i].type = "completed" =>
                        ops'[k].status \in Terminal
    <3>1. PICK k \in 1..n :
                /\ removed < k /\ ops[k].id = responses[i].id
                /\ responses[i].type = "completed" => ops[k].status \in Terminal
      BY <1>0 DEF StreamsFollow, n
    <3>2. k \in 1..Len(ops')
      BY <1>1
    <3> QED
      BY <1>1, <3>1, <3>2
  <2>2. StreamsFollow'
    BY <1>0, <1>1, <2>1 DEF StreamsFollow
  <2>3. ASSUME relPc \in {"up", "joinsend"}, NEW k \in 1..Len(ops'),
               removed < k, ops'[k].status \in {"STREAMING", "END"}
        PROVE  \E i \in DOMAIN responses :
                    /\ responses[i].id = ops'[k].id
                    /\ ops'[k].status = "END" =>
                            responses[i].type = "completed"
    <3>1. k \in 1..n /\ ops'[k] = ops[k]
      BY <1>1, <2>3
    <3> QED
      BY <1>0, <2>3, <3>1 DEF BegunHasStream, n
  <2>4. BegunHasStream'
    BY <1>1, <2>3 DEF BegunHasStream
  <2> QED
    BY <2>2, <2>4
<1>10. TalesFollow'
  <2>1. TalesKnown' /\ StreamsTold'
    BY <1>0 DEF TalesFollow, TalesKnown, StreamsTold
  <2>2. QueuedUntold'
    BY <1>0, <1>2, SMTT(30) DEF TalesFollow, QueuedUntold
  <2>3. told[reqId'] = <<>>
    BY <1>0, <1>2 DEF TalesFollow, QueuedUntold
  <2>4. ~Has(responses, reqId')
    <3> SUFFICES ASSUME NEW i \in DOMAIN responses, responses[i].id = reqId'
                 PROVE  FALSE
      BY DEF Has
    <3>1. PICK k \in 1..n : ops[k].id = reqId'
      BY <1>0 DEF StreamsFollow, n
    <3> QED
      BY <1>3, <1>4, <3>1
  <2>5. OpsTold'
    <3> SUFFICES ASSUME NEW k \in 1..Len(ops')
                 PROVE  /\ k <= removed => Answered(ops[k].id)'
                        /\ k > removed =>
                                told[ops'[k].id] \in {<<>>, <<"START">>}
                        /\ ops'[k].status = "START" =>
                                /\ told[ops'[k].id] = <<>>
                                /\ ~Has(responses, ops'[k].id)
      BY <1>1 DEF OpsTold
    <3>1. removed <= n
      BY <1>0 DEF n
    <3>2. CASE k \in 1..n
      <4>1. ops'[k] = ops[k] /\ k \in DOMAIN ops
        BY <1>0, <1>1, <3>2 DEF n
      <4>2. /\ k <= removed => Answered(ops[k].id)
            /\ k > removed => told[ops[k].id] \in {<<>>, <<"START">>}
            /\ ops[k].status = "START" =>
                    told[ops[k].id] = <<>> /\ ~Has(responses, ops[k].id)
        BY <1>0, <4>1 DEF TalesFollow, OpsTold
      <4>3. Answered(ops[k].id) => Answered(ops[k].id)'
        BY <4>1 DEF Answered
      <4> QED
        BY <4>1, <4>2, <4>3
    <3>3. CASE k = n + 1
      BY <1>0, <1>1, <2>3, <2>4, <3>1, <3>3
    <3> QED
      BY <1>1, <3>2, <3>3
  <2> QED
    BY <2>1, <2>2, <2>5 DEF TalesFollow
<1> QED
  BY <1>1, <1>6, <1>7, <1>8, <1>9, <1>10 DEF n

\* The step of send_reqs that begins a request.
LEMMA SendStartsStep ==
    ASSUME IInv, TypeOK', SendStarts
    PROVE  IInv'
<1> USE Indices
<1>0. TypeOK /\ SenderFollows /\ NoLostWakeup /\ StreamsFollow /\ OneSession
  BY DEF IInv
<1>1. /\ cur = 0 /\ sendPc' = "send" /\ pollPc' = pollPc
      /\ requests # <<>> /\ requests' = Tail(requests)
      /\ reqId' = Head(requests).id /\ NewOp(reqId', "START")
      /\ initialized
      /\ UNCHANGED <<initialized, sessions, nextId, responses, appPc, recvPc,
                     relPc, told>>
  BY <1>0 DEF SendStarts, SendFrame, SenderFollows
<1>2. /\ OnlyCurrentIsLive' /\ IdsOrdered' /\ IdsKept' /\ StreamsFollow'
      /\ BegunHasStream' /\ TalesFollow'
      /\ Len(ops') = Len(ops) + 1 /\ removed' = removed
      /\ cur' = Len(ops) + 1
      /\ ops'[Len(ops) + 1].id = reqId'
  BY <1>1, NewOperation
<1>3. SenderFollows'
  BY <1>0, <1>1, <1>2 DEF SenderFollows
<1>4. NoLostWakeup'
  <2> SUFFICES ASSUME pollPc = "wait"
               PROVE  cur' = removed' + 1 /\ PopType(responses) = "EMPTY"
    BY <1>1 DEF NoLostWakeup
  <2>1. ~HasFront
    BY <1>0, <1>1 DEF NoLostWakeup
  <2>2. responses = <<>>
    <3> SUFFICES ASSUME responses # <<>> PROVE FALSE
      OBVIOUS
    <3>1. 1 \in DOMAIN responses
      BY <1>0
    <3>2. PICK k \in DOMAIN ops : removed < k
      BY <1>0, <3>1 DEF StreamsFollow
    <3> QED
      BY <1>0, <2>1, <3>2 DEF HasFront
  <2> QED
    BY <1>0, <1>2, <2>1, <2>2 DEF HasFront, PopType
<1>5. OneSession'
  BY <1>0, <1>1 DEF OneSession
<1> QED
  BY <1>2, <1>3, <1>4, <1>5 DEF IInv

\* The step of send_reqs that reports a cancelled request.
LEMMA SendCancelsStep ==
    ASSUME IInv, TypeOK', SendCancels
    PROVE  IInv'
<1> USE Indices
<1>0. TypeOK /\ SenderFollows /\ OneSession
  BY DEF IInv
<1>1. /\ cur = 0 /\ sendPc' = "top" /\ pollPc' # "wait"
      /\ requests # <<>> /\ requests' = Tail(requests)
      /\ reqId' = Head(requests).id /\ NewOp(reqId', "CANCELLED")
      /\ initialized
      /\ UNCHANGED <<initialized, sessions, nextId, responses, appPc, recvPc,
                     relPc, told>>
  BY <1>0 DEF SendCancels, SendFrame, SenderFollows, AfterNotifyResp
<1>2. /\ OnlyCurrentIsLive' /\ IdsOrdered' /\ IdsKept' /\ StreamsFollow'
      /\ BegunHasStream' /\ TalesFollow' /\ cur' = 0
  BY <1>1, NewOperation
<1>3. SenderFollows' /\ NoLostWakeup'
  BY <1>0, <1>1, <1>2 DEF SenderFollows, NoLostWakeup
<1>4. OneSession'
  BY <1>0, <1>1 DEF OneSession
<1> QED
  BY <1>2, <1>3, <1>4 DEF IInv

\* What a response does to the streams: those there were keep id, polling and
\* type, and the first response to a request adds one for it.
LEMMA WithResponseLemma ==
    ASSUME TypeOK, OpsTold, cur # 0, NEW id \in Nat, ops[cur].id = id,
           NEW voice \in BOOLEAN, NEW q, q = WithResponse(id, voice)
    PROVE  /\ q \in Queues(Nat, {"VOICE"})
           /\ Len(q) = Len(responses)
                    + (IF ops[cur].status = "START" THEN 1 ELSE 0)
           /\ \A i \in 1..Len(responses) :
                /\ q[i].id = responses[i].id
                /\ q[i].polling = responses[i].polling
                /\ q[i].type = responses[i].type
           /\ ops[cur].status = "START" =>
                /\ q[Len(responses) + 1].id = id
                /\ q[Len(responses) + 1].polling = 0
                /\ q[Len(responses) + 1].type = "uncompleted"
<1> DEFINE D == {"VOICE"}
           n == Len(responses)
           Q == Queues(Nat, D)
           r == IF ops[cur].status = "START" THEN Start(responses, id)
                ELSE responses
<1>1. responses \in Q /\ "VOICE" \in D /\ n \in Nat
  BY DEF TypeOK, ResponseStreams, Queues
<1>2. ops[cur].status = "START" => ~Has(responses, id)
  BY Indices DEF OpsTold
<1> HIDE DEF D
<1>3. /\ r \in Q
      /\ Len(r) = n + (IF ops[cur].status = "START" THEN 1 ELSE 0)
      /\ \A i \in 1..n : r[i] = responses[i]
      /\ ops[cur].status = "START" =>
            /\ r[n + 1].id = id /\ r[n + 1].polling = 0
            /\ r[n + 1].type = "uncompleted"
  <2>1. CASE ops[cur].status = "START"
    <3>1. r = Start(responses, id)
      BY <2>1
    <3> HIDE DEF r
    <3>2. /\ Start(responses, id) \in Q
          /\ Len(Start(responses, id)) \in {n, n + 1}
          /\ \A i \in 1..n : Start(responses, id)[i] = responses[i]
          /\ Len(Start(responses, id)) = n + 1 =>
                /\ Start(responses, id)[n + 1].id = id
                /\ Start(responses, id)[n + 1].polling = 0
                /\ Start(responses, id)[n + 1].type = "uncompleted"
          /\ Len(Start(responses, id)) = n <=> Has(responses, id)
      BY <1>1, StartLemma
    <3> QED
      BY <1>1, <1>2, <2>1, <3>1, <3>2
  <2>2. CASE ops[cur].status # "START"
    BY <1>1, <2>2
  <2> QED
    BY <2>1, <2>2
<1> HIDE DEF r, n
<1>4. /\ Stream(r, id, "VOICE") \in Q /\ SameTags(r, Stream(r, id, "VOICE"))
      /\ \A i \in 1..Len(r) : Stream(r, id, "VOICE")[i].type = r[i].type
  <2>1. r \in Queues(Nat, D)
    BY <1>3
  <2>2. \A d \in D : /\ Stream(r, id, d) \in Queues(Nat, D)
                     /\ SameTags(r, Stream(r, id, d))
                     /\ SameTypes(r, Stream(r, id, d))
    BY <2>1, StreamLemma
  <2> QED
    BY <1>1, <2>2 DEF SameTypes
<1>5. q = IF voice THEN Stream(r, id, "VOICE") ELSE r
  BY DEF WithResponse, r
<1>6. Len(r) \in {n, n + 1} /\ (ops[cur].status = "START" => Len(r) = n + 1)
      /\ n \in Nat
  BY <1>1, <1>3
<1>7. /\ q \in Q /\ Len(q) = Len(r)
      /\ \A i \in 1..Len(r) : /\ q[i].id = r[i].id
                              /\ q[i].polling = r[i].polling
                              /\ q[i].type = r[i].type
  BY <1>3, <1>4, <1>5 DEF SameTags
<1>8. \A i \in 1..n : i \in 1..Len(r)
  BY <1>6
<1>9. ops[cur].status = "START" => n + 1 \in 1..Len(r)
  BY <1>6
<1> QED
  BY <1>3, <1>7, <1>8, <1>9 DEF n, D

\* A response to the current request, the last one or not.
LEMMA ResponseStep ==
    ASSUME IInv, TypeOK', NEW id \in Nat, NEW voice \in BOOLEAN,
           NEW status \in {"STREAMING", "END"},
           cur # 0, ops[cur].id = id, ops' = CurrentIn(status),
           cur' = IF status = "END" THEN 0 ELSE cur,
           responses' = IF status = "END" THEN End(WithResponse(id, voice), id)
                        ELSE WithResponse(id, voice),
           UNCHANGED <<removed, requests, nextId, initialized, relPc, told>>
    PROVE  /\ OnlyCurrentIsLive' /\ IdsOrdered' /\ IdsKept' /\ StreamsFollow'
           /\ BegunHasStream' /\ TalesFollow' /\ Len(ops') = Len(ops)
           /\ ops'[cur].id = id
<1> USE Indices, IndicesNext
<1> DEFINE n == Len(responses)
           new == ops[cur].status = "START"
<1>0. /\ TypeOK /\ OnlyCurrentIsLive /\ IdsOrdered /\ IdsKept
      /\ StreamsFollow /\ BegunHasStream /\ TalesFollow /\ SenderFollows
  BY DEF IInv
<1>1. /\ Len(ops') = Len(ops) /\ cur \in 1..Len(ops) /\ removed < cur
      /\ ops[cur].status \in {"START", "STREAMING"}
      /\ ops'[cur].id = id /\ ops'[cur].status = status
      /\ \A k \in 1..Len(ops) :
            /\ ops'[k].id = ops[k].id
            /\ k # cur => /\ ops'[k].status = ops[k].status
                          /\ ops[k].status \in Terminal
  <2>1. /\ Len(ops') = Len(ops)
        /\ \A k \in 1..Len(ops) :
            /\ ops'[k].id = ops[k].id
            /\ ops'[k].status = IF k \in {cur} THEN status ELSE ops[k].status
    BY <1>0, OpsInLemma, SMTT(30) DEF TypeOK, Statuses, CurrentIn
  <2>2. cur \in 1..Len(ops) /\ ops[cur].status \in Statuses
    BY <1>0 DEF Operations
  <2>3. ops[cur].status \notin Terminal
    BY <1>0 DEF OnlyCurrentIsLive
  <2> QED
    BY <1>0, <2>1, <2>2, <2>3 DEF OnlyCurrentIsLive, SenderFollows, Terminal,
       Statuses
<1>2. /\ Len(responses') = n + (IF new THEN 1 ELSE 0) /\ n \in Nat
      /\ \A i \in 1..n :
            /\ responses'[i].id = responses[i].id
            /\ responses'[i].polling = responses[i].polling
            /\ responses'[i].type =
                    IF status = "END" /\ responses[i].id = id THEN "completed"
                    ELSE responses[i].type
      /\ new => /\ responses'[n + 1].id = id
                /\ responses'[n + 1].polling = 0
                /\ responses'[n + 1].type =
                        IF status = "END" THEN "completed" ELSE "uncompleted"
      /\ \A i \in 1..n : i \in 1..Len(responses')
      /\ new => n + 1 \in 1..Len(responses')
      /\ \A i \in 1..Len(responses') : i \in 1..n \/ (new /\ i = n + 1)
  <2> DEFINE q == WithResponse(id, voice)
             D == {"VOICE"}
  <2> HIDE DEF q, D
  <2>1. /\ q \in Queues(Nat, D)
        /\ Len(q) = n + (IF new THEN 1 ELSE 0) /\ n \in Nat
        /\ \A i \in 1..n : /\ q[i].id = responses[i].id
                           /\ q[i].polling = responses[i].polling
                           /\ q[i].type = responses[i].type
        /\ new => /\ q[n + 1].id = id /\ q[n + 1].polling = 0
                  /\ q[n + 1].type = "uncompleted"
    BY <1>0, WithResponseLemma DEF q, D, TalesFollow
  <2> HIDE DEF new
  <2>2. /\ SameTags(q, End(q, id))
        /\ \A i \in 1..Len(q) : End(q, id)[i].type =
                IF q[i].id = id THEN "completed" ELSE q[i].type
    BY <2>1, EndLemma, SMTT(30)
  <2>3. /\ Len(responses') = Len(q)
        /\ \A i \in 1..Len(q) :
            /\ responses'[i].id = q[i].id
            /\ responses'[i].polling = q[i].polling
            /\ responses'[i].type = IF status = "END" /\ q[i].id = id
                                    THEN "completed" ELSE q[i].type
    BY <2>2 DEF SameTags, q
  <2>4. /\ \A i \in 1..n : i \in 1..Len(q)
        /\ new => n + 1 \in 1..Len(q)
        /\ \A i \in 1..Len(q) : i \in 1..n \/ (new /\ i = n + 1)
    BY <2>1
  <2>5. \A i \in 1..n :
            /\ responses'[i].id = responses[i].id
            /\ responses'[i].polling = responses[i].polling
            /\ responses'[i].type =
                    IF status = "END" /\ responses[i].id = id THEN "completed"
                    ELSE responses[i].type
    BY <2>1, <2>3, <2>4
  <2>6. new => /\ responses'[n + 1].id = id
              /\ responses'[n + 1].polling = 0
              /\ responses'[n + 1].type =
                      IF status = "END" THEN "completed" ELSE "uncompleted"
    BY <2>1, <2>3, <2>4
  <2> QED
    BY <2>1, <2>3, <2>4, <2>5, <2>6
<1>3. \A i \in 1..n : i \in DOMAIN responses /\ Live(responses[i])
  BY <1>0 DEF StreamsFollow
<1> HIDE DEF n
<1>4. \A k \in 1..Len(ops) : ops[k].id = id => k = cur
  <2> SUFFICES ASSUME NEW k \in 1..Len(ops), ops[k].id = id, k # cur
               PROVE  FALSE
    OBVIOUS
  <2>1. k < cur
    BY <1>0, <1>1 DEF OnlyCurrentIsLive
  <2> QED
    BY <1>0, <1>1, <2>1, SMTT(30) DEF IdsOrdered
<1>5. OnlyCurrentIsLive'
  BY <1>0, <1>1 DEF OnlyCurrentIsLive, Terminal
<1>6. IdsOrdered' /\ IdsKept'
  BY <1>0, <1>1, IdsFrame DEF RequestsKeptOrDropped, SameIds
<1>7. StreamsFollow'
  <2>1. \A i \in 1..Len(responses') : Live(responses'[i])
    BY <1>2, <1>3 DEF Live
  <2>2. \A i, j \in 1..Len(responses') :
            i < j => responses'[i].id < responses'[j].id
    <3> SUFFICES ASSUME NEW i \in 1..Len(responses'),
                        NEW j \in 1..Len(responses'), i < j
                 PROVE  responses'[i].id < responses'[j].id
      OBVIOUS
    <3>1. i \in 1..n
      BY <1>2
    <3>2. CASE j \in 1..n
      BY <1>0, <1>2, <1>3, <3>1, <3>2 DEF StreamsFollow
    <3>3. CASE new /\ j = n + 1
      <4>1. PICK k \in 1..Len(ops) : ops[k].id = responses[i].id
        BY <1>0, <1>3, <3>1 DEF StreamsFollow
      <4>2. ~Has(responses, id)
        BY <1>0, <1>1, <3>3 DEF TalesFollow, OpsTold
      <4>3. k # cur
        BY <1>3, <3>1, <4>1, <4>2 DEF Has
      <4>4. k < cur
        BY <1>0, <1>1, <4>1, <4>3 DEF OnlyCurrentIsLive
      <4>5. ops[k].id < ops[cur].id
        BY <1>0, <1>1, <4>4 DEF IdsOrdered
      <4> QED
        BY <1>2, <3>1, <3>3, <4>1, <4>5
    <3> QED
      BY <1>2, <3>2, <3>3
  <2>3. ASSUME NEW i \in 1..Len(responses')
        PROVE  \E k \in 1..Len(ops) :
                /\ removed < k /\ ops'[k].id = responses'[i].id
                /\ responses'[i].type = "completed" =>
                        ops'[k].status \in Terminal
    <3>1. CASE i \in 1..n
      <4>1. PICK k \in 1..Len(ops) :
                /\ removed < k /\ ops[k].id = responses[i].id
                /\ responses[i].type = "completed" => ops[k].status \in Terminal
        BY <1>0, <1>3, <3>1 DEF StreamsFollow
      <4>2. /\ ops'[k].id = responses'[i].id
            /\ responses'[i].type = "completed" => ops'[k].status \in Terminal
        <5>1. CASE k # cur
          BY <1>1, <1>2, <3>1, <4>1, <5>1
        <5>2. CASE k = cur
          <6>1. responses[i].type # "completed"
            BY <1>1, <4>1, <5>2 DEF Terminal
          <6> QED
            BY <1>1, <1>2, <3>1, <4>1, <5>2, <6>1 DEF Terminal
        <5> QED
          BY <5>1, <5>2
      <4> QED
        BY <4>1, <4>2
    <3>2. CASE new /\ i = n + 1
      BY <1>1, <1>2, <3>2 DEF Terminal
    <3> QED
      BY <1>2, <3>1, <3>2
  <2>4. /\ DOMAIN responses' = 1..Len(responses') /\ removed' = removed
        /\ DOMAIN ops' = 1..Len(ops)
    BY <1>1
  <2>5. ASSUME NEW i \in DOMAIN responses'
        PROVE  \E k \in DOMAIN ops' :
                /\ removed' < k /\ ops'[k].id = responses'[i].id
                /\ responses'[i].type = "completed" =>
                        ops'[k].status \in Terminal
    <3>1. PICK k \in 1..Len(ops) :
                /\ removed < k /\ ops'[k].id = responses'[i].id
                /\ responses'[i].type = "completed" =>
                        ops'[k].status \in Terminal
      BY <2>3, <2>4
    <3>2. k \in DOMAIN ops'
      BY <2>4
    <3> QED
      BY <2>4, <3>1, <3>2
  <2>6. /\ \A i \in DOMAIN responses' : Live(responses'[i])
        /\ \A i, j \in DOMAIN responses' :
                i < j => responses'[i].id < responses'[j].id
    BY <2>1, <2>2, <2>4, SMTT(30)
  <2> QED
    BY <2>5, <2>6 DEF StreamsFollow
<1>8. BegunHasStream'
  <2> SUFFICES ASSUME relPc \in {"up", "joinsend"}, NEW k \in 1..Len(ops),
                      removed < k, ops'[k].status \in {"STREAMING", "END"}
               PROVE  \E i \in 1..Len(responses') :
                        /\ responses'[i].id = ops'[k].id
                        /\ ops'[k].status = "END" =>
                                responses'[i].type = "completed"
    BY <1>1 DEF BegunHasStream
  <2>1. \A i \in 1..n : i \in 1..Len(responses')
    BY <1>2
  <2>2. CASE k # cur
    <3>1. PICK i \in 1..n :
                /\ responses[i].id = ops[k].id
                /\ ops[k].status = "END" => responses[i].type = "completed"
      BY <1>0, <1>1, <2>2 DEF BegunHasStream, n
    <3> QED
      BY <1>1, <1>2, <2>1, <2>2, <3>1, SMTT(30)
  <2>3. CASE k = cur /\ new
    <3>1. n + 1 \in 1..Len(responses')
      BY <1>2, <2>3
    <3> QED
      BY <1>1, <1>2, <2>3, <3>1
  <2>4. CASE k = cur /\ ~new
    <3>1. PICK i \in 1..n : responses[i].id = ops[k].id
      BY <1>0, <1>1, <2>4 DEF BegunHasStream, n
    <3> QED
      BY <1>1, <1>2, <2>1, <2>4, <3>1
  <2> QED
    BY <2>2, <2>3, <2>4
<1>9. TalesFollow'
  <2>1. TalesKnown' /\ QueuedUntold'
    BY <1>0 DEF TalesFollow, TalesKnown, QueuedUntold
  <2>2. StreamsTold'
    <3> SUFFICES ASSUME NEW i \in 1..Len(responses')
                 PROVE  told[responses'[i].id] =
                            IF responses'[i].polling = 1 THEN <<"START">>
                            ELSE <<>>
      BY DEF StreamsTold
    <3>1. CASE i \in 1..n
      <4>1. told[responses[i].id] = IF responses[i].polling = 1
                                    THEN <<"START">> ELSE <<>>
        BY <1>0, <1>3, <3>1 DEF TalesFollow, StreamsTold
      <4>2. /\ responses'[i].id = responses[i].id
            /\ responses'[i].polling = responses[i].polling
        BY <1>2, <3>1
      <4> QED
        BY <4>1, <4>2
    <3>2. CASE new /\ i = n + 1
      <4>1. told[id] = <<>>
        BY <1>0, <1>1, <3>2 DEF TalesFollow, OpsTold
      <4> QED
        BY <1>2, <3>2, <4>1
    <3> QED
      BY <1>2, <3>1, <3>2
  <2>3. OpsTold'
    <3> SUFFICES ASSUME NEW k \in 1..Len(ops)
                 PROVE  /\ k <= removed => Answered(ops[k].id)'
                        /\ k > removed =>
                                told[ops'[k].id] \in {<<>>, <<"START">>}
                        /\ ops'[k].status # "START"
      BY <1>1 DEF OpsTold
    <3>1. ops'[k].id = ops[k].id /\ ops'[k].status # "START"
      BY <1>1 DEF Terminal
    <3>2. Answered(ops[k].id) => Answered(ops[k].id)'
      BY <3>1 DEF Answered
    <3> QED
      BY <1>0, <3>1, <3>2 DEF TalesFollow, OpsTold
  <2> QED
    BY <2>1, <2>2, <2>3 DEF TalesFollow
<1> QED
  BY <1>1, <1>5, <1>6, <1>7, <1>8, <1>9

\* A response comes only while the session is up, or being released.
LEMMA ResponseSession ==
    ASSUME IInv, cur # 0, UNCHANGED <<initialized, sessions, relPc>>
    PROVE  OneSession'
<1>1. sendPc # "quit" /\ ops # <<>> /\ OneSession
  BY Indices DEF IInv, SenderFollows
<1>2. relPc \notin {"down", "joinrecv"} /\ sessions # 0
  BY <1>1 DEF OneSession
<1> QED
  BY <1>1, <1>2 DEF OneSession

\* The step of gen_results on a response that is not the last.
LEMMA RecvVoiceStep ==
    ASSUME IInv, TypeOK', NEW id \in Ids, NEW voice \in BOOLEAN,
           RecvVoice(id, voice)
    PROVE  IInv'
<1> USE Indices
<1>0. TypeOK /\ SenderFollows /\ NoLostWakeup /\ OnlyCurrentIsLive
  BY DEF IInv
<1>1. /\ cur # 0 /\ ops[cur].id = id /\ id \in Nat
      /\ ops' = CurrentIn("STREAMING") /\ responses' = WithResponse(id, voice)
      /\ pollPc' = "wait" => /\ pollPc = "wait" /\ ~voice
                            /\ ops[cur].status # "START"
      /\ UNCHANGED <<removed, cur, sendPc, initialized, sessions, nextId,
                     requests, reqId, relPc, told>>
  BY TtsBoundsAssumption DEF RecvVoice, RecvFrame, AfterNotifyResp, Ids
<1>2. /\ OnlyCurrentIsLive' /\ IdsOrdered' /\ IdsKept' /\ StreamsFollow'
      /\ BegunHasStream' /\ TalesFollow' /\ Len(ops') = Len(ops)
      /\ ops'[cur].id = id
  BY <1>1, ResponseStep
<1>3. SenderFollows'
  BY <1>0, <1>1, <1>2 DEF SenderFollows
<1>4. NoLostWakeup'
  <2>1. sendPc' = "waitop" => cur' # 0 /\ ops'[cur'].id = reqId'
    BY <1>0, <1>1, <1>2 DEF NoLostWakeup
  <2>2. ASSUME pollPc' = "wait", initialized'
        PROVE  cur' = removed' + 1 /\ PopType(responses') = "EMPTY"
    <3>1. responses' = responses /\ HasFront
      BY <1>0, <1>1, <2>2 DEF WithResponse, HasFront, SenderFollows
    <3> QED
      BY <1>0, <1>1, <2>2, <3>1 DEF NoLostWakeup
  <2> QED
    BY <2>1, <2>2 DEF NoLostWakeup
<1>5. OneSession'
  BY <1>1, ResponseSession
<1> QED
  BY <1>2, <1>3, <1>4, <1>5 DEF IInv

\* The step of gen_results on the last response of a request.
LEMMA RecvFinishStep ==
    ASSUME IInv, TypeOK', NEW id \in Ids, NEW voice \in BOOLEAN,
           RecvFinish(id, voice)
    PROVE  IInv'
<1>1. /\ cur # 0 /\ ops[cur].id = id /\ id \in Nat
      /\ ops' = CurrentIn("END")
      /\ responses' = End(WithResponse(id, voice), id)
      /\ cur' = 0 /\ pollPc' # "wait" /\ sendPc' # "waitop"
      /\ UNCHANGED <<removed, initialized, sessions, nextId, requests, relPc,
                     told>>
  BY TtsBoundsAssumption DEF RecvFinish, RecvFrame, NoCurrent, AfterNotifyResp,
     AfterNotifyOp, Ids
<1>2. /\ OnlyCurrentIsLive' /\ IdsOrdered' /\ IdsKept' /\ StreamsFollow'
      /\ BegunHasStream' /\ TalesFollow'
  BY <1>1, ResponseStep
<1>3. SenderFollows' /\ NoLostWakeup'
  BY <1>1 DEF SenderFollows, NoLostWakeup
<1>4. OneSession'
  BY <1>1, ResponseSession
<1> QED
  BY <1>2, <1>3, <1>4 DEF IInv

-----------------------------------------------------------------------------
(* poll().                                                                 *)

\* Every request, operation and stream has an id that was given out, and an id
\* belongs to one of them.
LEMMA IdFacts ==
    ASSUME TypeOK, IdsOrdered, StreamsFollow
    PROVE  /\ \A k \in 1..Len(ops) :
                ops[k].id \in Ids /\ ops[k].id \in Nat /\ ops[k].id <= nextId
           /\ \A i \in 1..Len(requests) : requests[i].id \in Ids
           /\ \A i \in 1..Len(responses) : responses[i].id \in Ids
           /\ \A j, k \in 1..Len(ops) : ops[j].id = ops[k].id => j = k
           /\ \A k \in 1..Len(ops), i \in 1..Len(requests) :
                ops[k].id # requests[i].id
<1> USE Indices
<1>1. \A j \in 1..nextId : j \in Ids /\ j \in Nat /\ j <= nextId
  BY DEF Ids
<1>2. \A k \in 1..Len(ops) :
        ops[k].id \in Ids /\ ops[k].id \in Nat /\ ops[k].id <= nextId
  BY <1>1 DEF IdsOrdered
<1>3. \A i \in 1..Len(requests) : requests[i].id \in Ids /\ requests[i].id \in Nat
  BY <1>1 DEF IdsOrdered
<1>4. \A i \in 1..Len(responses) : responses[i].id \in Ids
  BY <1>2 DEF StreamsFollow
<1>5. ASSUME NEW j \in 1..Len(ops), NEW k \in 1..Len(ops),
             ops[j].id = ops[k].id, j # k
      PROVE  FALSE
  <2>1. j < k => ops[j].id < ops[k].id
    BY DEF IdsOrdered
  <2>2. k < j => ops[k].id < ops[j].id
    BY DEF IdsOrdered
  <2> QED
    BY <1>2, <1>5, <2>1, <2>2
<1>6. ASSUME NEW k \in 1..Len(ops), NEW i \in 1..Len(requests)
      PROVE  ops[k].id # requests[i].id
  <2>1. ops[k].id < requests[i].id
    BY DEF IdsOrdered
  <2> QED
    BY <1>2, <1>3, <2>1
<1> QED
  BY <1>2, <1>3, <1>4, <1>5, <1>6

\* poll() takes the operation at the front off, having told of its end, and
\* with it the stream it had.
TakesFrontOff(type) ==
    /\ initialized /\ HasFront /\ Front.status \in Terminal /\ pollPc # "wait"
    /\ type \in Terminal /\ (type = "END" => told[Front.id] = <<"START">>)
    /\ told' = [told EXCEPT ![Front.id] = Append(@, type)]
    /\ responses' = IF Has(responses, Front.id) THEN Tail(responses)
                    ELSE responses
    /\ removed' = removed + 1
    /\ UNCHANGED <<initialized, sessions, nextId, requests, ops, cur, sendPc,
                   reqId, pollPc, relPc, appPc>>

\* A pair, put together one by one.
LEMMA AppendTwo ==
    ASSUME NEW S, NEW a \in S, NEW b \in S
    PROVE  Append(<<a>>, b) = <<a, b>>
<1> DEFINE s == Append(<<a>>, b)
           r == <<a, b>>
<1>1. <<a>> \in Seq(S) /\ Len(<<a>>) = 1 /\ <<a>>[1] = a
  OBVIOUS
<1>2. s \in Seq(S) /\ Len(s) = 2 /\ s[1] = a /\ s[2] = b
  BY <1>1
<1>3. r \in Seq(S) /\ Len(r) = 2 /\ r[1] = a /\ r[2] = b
  OBVIOUS
<1> HIDE DEF s, r
<1>4. s = [i \in 1..2 |-> s[i]] /\ r = [i \in 1..2 |-> r[i]]
  BY <1>2, <1>3
<1>5. \A i \in 1..2 : i = 1 \/ i = 2
  OBVIOUS
<1>6. s = r
  BY <1>2, <1>3, <1>4, <1>5
<1> QED
  BY <1>6 DEF s, r

\* What poll() may have said of an id stays a tale when the end is told, too.
LEMMA EndedTale ==
    ASSUME NEW type \in Terminal, NEW tale \in {<<>>, <<"START">>},
           type = "END" => tale = <<"START">>
    PROVE  /\ Append(tale, type) \in Tales
           /\ \E k \in DOMAIN Append(tale, type) :
                    Append(tale, type)[k] \in Terminal
<1>1. CASE tale = <<"START">>
  <2>1. Append(tale, type) = <<"START", type>>
    <3>1. "START" \in Results /\ type \in Results
      BY DEF Results, Terminal
    <3>2. \A a \in Results, b \in Results : Append(<<a>>, b) = <<a, b>>
      BY AppendTwo
    <3> QED
      BY <1>1, <3>1, <3>2
  <2>2. 2 \in DOMAIN <<"START", type>> /\ <<"START", type>>[2] = type
    OBVIOUS
  <2>3. <<"START", type>> \in Tales
    BY DEF Tales
  <2> QED
    BY <2>1, <2>2, <2>3
<1>2. CASE tale = <<>>
  <2>1. Append(tale, type) = <<type>>
    BY <1>2
  <2>2. 1 \in DOMAIN <<type>> /\ <<type>>[1] = type
    OBVIOUS
  <2>3. type \in {"CANCELLED", "ERROR"}
    BY <1>2 DEF Terminal
  <2>4. <<type>> \in Tales
    BY <2>3 DEF Tales
  <2> QED
    BY <2>1, <2>2, <2>4
<1> QED
  BY <1>1, <1>2

\* The streams left are those that were not of the operation taken off.
LEMMA StreamsLeft ==
    ASSUME TypeOK, IdsOrdered, StreamsFollow, NEW type, TakesFrontOff(type)
    PROVE  \E d \in {0, 1} :
            /\ Len(responses') = Len(responses) - d
            /\ \A i \in 1..Len(responses') :
                    /\ i + d \in 1..Len(responses)
                    /\ responses'[i] = responses[i + d]
                    /\ responses'[i].id # Front.id
            /\ \A i \in 1..Len(responses) : responses[i].id # Front.id =>
                    /\ i - d \in 1..Len(responses')
                    /\ responses'[i - d] = responses[i]
<1>1. /\ responses \in Seq(Streams(Nat, {"VOICE"})) /\ HasFront
      /\ Len(responses) \in Nat /\ DOMAIN responses = 1..Len(responses)
  BY DEF TypeOK, ResponseStreams, Queues, TakesFrontOff
<1>2. CASE Has(responses, Front.id)
  <2>1. /\ responses # <<>> /\ responses[1].id = Front.id
        /\ \A i \in 2..Len(responses) : responses[i].id # Front.id
    BY <1>1, <1>2, FrontStream
  <2>2. responses' = Tail(responses)
    BY <1>2 DEF TakesFrontOff
  <2>3. /\ Len(responses') = Len(responses) - 1
        /\ \A i \in 1..Len(responses') :
                /\ i + 1 \in 2..Len(responses)
                /\ responses'[i] = responses[i + 1]
    BY <1>1, <2>1, <2>2
  <2>4. ASSUME NEW i \in 1..Len(responses), responses[i].id # Front.id
        PROVE  i - 1 \in 1..Len(responses') /\ responses'[i - 1] = responses[i]
    <3>1. i - 1 \in 1..Len(responses') /\ (i - 1) + 1 = i
      BY <1>1, <2>1, <2>3, <2>4
    <3> QED
      BY <2>3, <3>1
  <2>5. \A i \in 1..Len(responses') :
            /\ i + 1 \in 1..Len(responses)
            /\ responses'[i] = responses[i + 1]
            /\ responses'[i].id # Front.id
    BY <1>1, <2>1, <2>3
  <2> QED
    BY <2>3, <2>4, <2>5
<1>3. CASE ~Has(responses, Front.id)
  <2>1. responses' = responses
    BY <1>3 DEF TakesFrontOff
  <2>2. \A i \in 1..Len(responses) : /\ i + 0 = i /\ i - 0 = i
                                     /\ responses[i].id # Front.id
    BY <1>1, <1>3 DEF Has
  <2>3. /\ Len(responses') = Len(responses) - 0
        /\ \A i \in 1..Len(responses') :
                /\ i + 0 \in 1..Len(responses)
                /\ responses'[i] = responses[i + 0]
                /\ responses'[i].id # Front.id
        /\ \A i \in 1..Len(responses) : responses[i].id # Front.id =>
                /\ i - 0 \in 1..Len(responses')
                /\ responses'[i - 0] = responses[i]
    BY <1>1, <2>1, <2>2
  <2> QED
    BY <2>3
<1> QED
  BY <1>2, <1>3

LEMMA FrontRemoved ==
    ASSUME IInv, TypeOK', NEW type, TakesFrontOff(type)
    PROVE  IInv'
<1> DEFINE id == Front.id
           f == removed + 1
           n == Len(responses)
           m == Len(responses')
<1>0. /\ TypeOK /\ OnlyCurrentIsLive /\ IdsOrdered /\ IdsKept
      /\ NoLostWakeup /\ SenderFollows
      /\ StreamsFollow /\ BegunHasStream /\ TalesFollow /\ OneSession
  BY DEF IInv
<1>1. /\ ops' = ops /\ requests' = requests /\ nextId' = nextId /\ cur' = cur
      /\ sendPc' = sendPc /\ reqId' = reqId /\ pollPc' = pollPc
      /\ relPc' = relPc /\ initialized' = initialized /\ sessions' = sessions
      /\ removed' = f /\ initialized /\ pollPc # "wait"
      /\ f \in 1..Len(ops) /\ id = ops[f].id /\ removed \in Nat /\ f = removed + 1
      /\ appPc' = appPc
      /\ ops[f].status \in Terminal
  BY <1>0, Indices DEF TakesFrontOff, HasFront, Front
<1>2. /\ DOMAIN ops = 1..Len(ops) /\ Len(ops) \in Nat
      /\ DOMAIN requests = 1..Len(requests)
      /\ DOMAIN responses = 1..n /\ n \in Nat /\ DOMAIN responses' = 1..m
      /\ m \in Nat
  BY <1>0, Indices, IndicesNext
<1>3. PICK d \in {0, 1} :
        /\ m = n - d
        /\ \A i \in 1..m : /\ i + d \in 1..n /\ responses'[i] = responses[i + d]
                           /\ responses'[i].id # id
        /\ \A i \in 1..n : responses[i].id # id =>
                i - d \in 1..m /\ responses'[i - d] = responses[i]
  BY <1>0, StreamsLeft
<1>4. /\ \A k \in 1..Len(ops) : /\ ops[k].id \in Ids /\ ops[k].id <= nextId
                                /\ k # f => ops[k].id # id
      /\ \A i \in 1..Len(requests) : requests[i].id \in Ids /\ requests[i].id # id
      /\ \A i \in 1..n : responses[i].id \in Ids
      /\ id \in Ids /\ id <= nextId
  BY <1>0, <1>1, IdFacts
<1>5. /\ told'[id] \in Tales /\ \E k \in DOMAIN told'[id] : told'[id][k] \in Terminal
      /\ \A j \in Ids : j # id => told'[j] = told[j]
  <2>1. told \in [Ids -> Seq(Results)]
    BY <1>0 DEF TypeOK
  <2>2. told'[id] = Append(told[id], type) /\ \A j \in Ids : j # id => told'[j] = told[j]
    BY <1>4, <2>1 DEF TakesFrontOff
  <2>3. told[id] \in {<<>>, <<"START">>}
    <3>1. f \in DOMAIN ops /\ f > removed
      BY <1>1, <1>2
    <3> QED
      BY <1>0, <1>1, <3>1 DEF TalesFollow, OpsTold
  <2>4. type \in Terminal /\ (type = "END" => told[id] = <<"START">>)
    BY DEF TakesFrontOff
  <2> QED
    BY <2>2, <2>3, <2>4, EndedTale
<1> HIDE DEF id, n, m, f
<1>6. OnlyCurrentIsLive' /\ IdsOrdered' /\ IdsKept'
  BY <1>0, <1>1 DEF OnlyCurrentIsLive, IdsOrdered, IdsKept, Queued
<1>7. SenderFollows' /\ NoLostWakeup' /\ OneSession'
  <2>1. cur # 0 => ops[cur].status \notin Terminal /\ removed < cur /\ cur \in Nat
    BY <1>0, Indices DEF OnlyCurrentIsLive, SenderFollows
  <2>2. cur # 0 => f < cur
    BY <1>1, <2>1
  <2>3. SenderFollows' /\ NoLostWakeup'
    BY <1>0, <1>1, <2>2 DEF SenderFollows, NoLostWakeup
  <2>4. relPc = "up" /\ sessions # 0
    BY <1>0, <1>1 DEF OneSession
  <2>5. OneSession'
    BY <1>0, <1>1, <2>4 DEF OneSession
  <2> QED
    BY <2>3, <2>5
<1>8. StreamsFollow'
  <2>1. \A i \in 1..m : Live(responses'[i])
    BY <1>0, <1>2, <1>3 DEF StreamsFollow
  <2>2. \A i, j \in 1..m : i < j => responses'[i].id < responses'[j].id
    <3> SUFFICES ASSUME NEW i \in 1..m, NEW j \in 1..m, i < j
                 PROVE  responses'[i].id < responses'[j].id
      OBVIOUS
    <3>1. i + d \in 1..n /\ j + d \in 1..n /\ i + d < j + d
      BY <1>2, <1>3, SMTT(30)
    <3>2. responses[i + d].id < responses[j + d].id
      BY <1>0, <1>2, <3>1 DEF StreamsFollow
    <3> QED
      BY <1>3, <3>2
  <2>3. ASSUME NEW i \in 1..m
        PROVE  \E k \in 1..Len(ops) :
                /\ f < k /\ ops[k].id = responses'[i].id
                /\ responses'[i].type = "completed" =>
                        ops[k].status \in Terminal
    <3>1. /\ i + d \in DOMAIN responses /\ responses'[i] = responses[i + d]
          /\ responses'[i].id # id
      BY <1>2, <1>3
    <3>2. PICK k \in 1..Len(ops) :
                /\ removed < k /\ ops[k].id = responses[i + d].id
                /\ responses[i + d].type = "completed" =>
                        ops[k].status \in Terminal
      BY <1>0, <1>2, <3>1 DEF StreamsFollow
    <3>3. k # f
      BY <1>1, <3>1, <3>2
    <3>4. f < k
      BY <1>1, <3>2, <3>3
    <3> QED
      BY <3>1, <3>2, <3>4
  <2> QED
    BY <1>1, <1>2, <2>1, <2>2, <2>3 DEF StreamsFollow
<1>9. BegunHasStream'
  <2>1. ASSUME relPc \in {"up", "joinsend"}, NEW k \in 1..Len(ops), f < k,
               ops[k].status \in {"STREAMING", "END"}
        PROVE  \E i \in 1..m :
                    /\ responses'[i].id = ops[k].id
                    /\ ops[k].status = "END" => responses'[i].type = "completed"
    <3>1. removed < k /\ k # f
      BY <1>1, <2>1
    <3>2. PICK i \in 1..n :
            /\ responses[i].id = ops[k].id
            /\ ops[k].status = "END" => responses[i].type = "completed"
      BY <1>0, <1>2, <2>1, <3>1 DEF BegunHasStream
    <3>3. i - d \in 1..m /\ responses'[i - d] = responses[i]
      BY <1>3, <1>4, <3>1, <3>2
    <3> QED
      BY <3>2, <3>3
  <2> QED
    BY <1>1, <1>2, <2>1 DEF BegunHasStream
<1>10. TalesFollow'
  <2>1. TalesKnown'
    <3>1. \A j \in Ids : told'[j] \in Tales
      BY <1>0, <1>5 DEF TalesFollow, TalesKnown
    <3>2. ASSUME NEW j \in Ids, j > nextId PROVE told'[j] = <<>>
      <4>1. j # id
        BY <1>0, <1>4, <3>2, Indices DEF Ids
      <4> QED
        BY <1>0, <1>5, <3>2, <4>1 DEF TalesFollow, TalesKnown
    <3> QED
      BY <1>1, <3>1, <3>2 DEF TalesKnown
  <2>2. QueuedUntold'
    BY <1>0, <1>1, <1>2, <1>4, <1>5 DEF TalesFollow, QueuedUntold
  <2>3. StreamsTold'
    <3> SUFFICES ASSUME NEW i \in 1..m
                 PROVE  told'[responses'[i].id] =
                            IF responses'[i].polling = 1 THEN <<"START">>
                            ELSE <<>>
      BY <1>2 DEF StreamsTold
    <3>1. i + d \in DOMAIN responses /\ responses'[i] = responses[i + d]
      BY <1>2, <1>3
    <3>2. responses[i + d].id \in Ids /\ responses[i + d].id # id
      BY <1>2, <1>3, <1>4, <3>1
    <3>3. told'[responses'[i].id] = told[responses[i + d].id]
      BY <1>5, <3>1, <3>2
    <3> QED
      BY <1>0, <3>1, <3>3 DEF TalesFollow, StreamsTold
  <2>4. OpsTold'
    <3> SUFFICES ASSUME NEW k \in 1..Len(ops)
                 PROVE  /\ k <= f => Answered(ops[k].id)'
                        /\ k > f => told'[ops[k].id] \in {<<>>, <<"START">>}
                        /\ ops[k].status = "START" =>
                                /\ told'[ops[k].id] = <<>>
                                /\ ~Has(responses', ops[k].id)
      BY <1>1, <1>2 DEF OpsTold
    <3>1. CASE k = f
      <4>1. Answered(ops[k].id)'
        BY <1>1, <1>5, <3>1 DEF Answered
      <4>2. ops[k].status # "START" /\ ~(k > f)
        BY <1>1, <3>1 DEF Terminal
      <4> QED
        BY <4>1, <4>2
    <3>2. CASE k # f
      <4>1. told'[ops[k].id] = told[ops[k].id]
        BY <1>4, <1>5, <3>2
      <4>2. Answered(ops[k].id) => Answered(ops[k].id)'
        BY <1>1, <4>1 DEF Answered
      <4>3. ~Has(responses, ops[k].id) => ~Has(responses', ops[k].id)
        <5> SUFFICES ASSUME NEW i \in 1..m, responses'[i].id = ops[k].id
                     PROVE  Has(responses, ops[k].id)
          BY <1>2 DEF Has
        <5>1. i + d \in DOMAIN responses /\ responses[i + d].id = ops[k].id
          BY <1>2, <1>3
        <5> QED
          BY <5>1 DEF Has
      <4>4. /\ k <= removed => Answered(ops[k].id)
            /\ k > removed => told[ops[k].id] \in {<<>>, <<"START">>}
            /\ ops[k].status = "START" =>
                    told[ops[k].id] = <<>> /\ ~Has(responses, ops[k].id)
        BY <1>0, <1>2 DEF TalesFollow, OpsTold
      <4>5. (k <= f => k <= removed) /\ (k > f => k > removed)
        BY <1>1, <3>2
      <4> QED
        BY <4>1, <4>2, <4>3, <4>4, <4>5
    <3> QED
      BY <3>1, <3>2
  <2> QED
    BY <2>1, <2>2, <2>3, <2>4 DEF TalesFollow
<1> QED
  BY <1>6, <1>7, <1>8, <1>9, <1>10 DEF IInv

\* A call of poll() that reports a cancelled or failed operation.
LEMMA PollAbortedStep ==
    ASSUME IInv, TypeOK', PollAborted
    PROVE  IInv'
<1>0. TypeOK /\ IdsOrdered /\ StreamsFollow
  BY DEF IInv
<1>1. /\ HasFront /\ Front.status \in {"CANCELLED", "ERROR"} /\ initialized
      /\ pollPc = "run"
  BY DEF PollAborted, Aborted
<1>2. Has(responses, Front.id) =>
        Popped(Erase(responses, Front.id, "deleted")) = Tail(responses)
  <2> DEFINE D == {"VOICE"}
  <2>1. responses \in Queues(Nat, D)
    BY <1>0 DEF TypeOK, ResponseStreams
  <2> HIDE DEF D
  <2> QED
    BY <1>0, <1>1, <2>1, FrontStream, ErasePoppedLemma
<1>3. told' = [told EXCEPT ![Front.id] = Append(@, Front.status)]
  BY <1>1 DEF PollAborted, Tell
<1>4. Front.status \in Terminal /\ Front.status # "END"
  BY <1>1 DEF Terminal
<1>5. /\ responses' = IF Has(responses, Front.id) THEN Tail(responses)
                      ELSE responses
      /\ removed' = removed + 1
      /\ UNCHANGED <<initialized, sessions, nextId, requests, ops, cur, sendPc,
                     reqId, pollPc, relPc, appPc>>
  BY <1>2 DEF PollAborted, PollFrame
<1> QED
  BY <1>1, <1>3, <1>4, <1>5, FrontRemoved DEF TakesFrontOff
\* poll() announces the first stream, or passes on voice of it.
PollsFront ==
    /\ initialized /\ HasFront /\ pollPc # "wait"
    /\ responses # <<>> /\ responses[1].id = Front.id
    /\ told[Front.id] \in {<<>>, <<"START">>}
    /\ told' = [told EXCEPT ![Front.id] = <<"START">>]
    /\ Len(responses') = Len(responses)
    /\ \A i \in 1..Len(responses) : /\ responses'[i].id = responses[i].id
                                    /\ responses'[i].type = responses[i].type
    /\ responses'[1].polling = 1
    /\ \A i \in 2..Len(responses) : responses'[i].polling = responses[i].polling
    /\ UNCHANGED <<initialized, sessions, nextId, requests, ops, removed, cur,
                   sendPc, reqId, pollPc, relPc, appPc>>

LEMMA FrontPolled ==
    ASSUME IInv, TypeOK', PollsFront
    PROVE  IInv'
<1> DEFINE id == Front.id
           f == removed + 1
           n == Len(responses)
<1>0. /\ TypeOK /\ OnlyCurrentIsLive /\ IdsOrdered /\ IdsKept
      /\ NoLostWakeup /\ SenderFollows
      /\ StreamsFollow /\ BegunHasStream /\ TalesFollow /\ OneSession
  BY DEF IInv
<1>1. /\ ops' = ops /\ requests' = requests /\ nextId' = nextId /\ cur' = cur
      /\ sendPc' = sendPc /\ reqId' = reqId /\ pollPc' = pollPc
      /\ relPc' = relPc /\ initialized' = initialized /\ sessions' = sessions
      /\ removed' = removed /\ initialized /\ pollPc # "wait"
      /\ appPc' = appPc
      /\ f \in 1..Len(ops) /\ id = ops[f].id /\ f = removed + 1
      /\ removed \in Nat
  BY <1>0, Indices DEF PollsFront, HasFront, Front
<1>2. /\ DOMAIN ops = 1..Len(ops) /\ Len(ops) \in Nat
      /\ DOMAIN requests = 1..Len(requests)
      /\ DOMAIN responses = 1..n /\ n \in Nat /\ DOMAIN responses' = 1..n
      /\ 1 \in 1..n /\ n = Len(responses')
  BY <1>0, Indices, IndicesNext DEF PollsFront
<1>3. /\ \A i \in 1..n : /\ responses'[i].id = responses[i].id
                         /\ responses'[i].type = responses[i].type
      /\ responses'[1].polling = 1 /\ responses[1].id = id
      /\ \A i \in 1..n : i # 1 =>
            /\ responses'[i].polling = responses[i].polling
            /\ responses[i].id # id
  <2>1. Has(responses, id)
    BY <1>2 DEF PollsFront, Has
  <2>2. \A i \in 2..n : responses[i].id # id
    BY <1>0, <2>1, FrontStream DEF PollsFront
  <2>3. \A i \in 1..n : i # 1 => i \in 2..n
    BY <1>2
  <2> QED
    BY <2>2, <2>3 DEF PollsFront
<1>4. /\ \A k \in 1..Len(ops) : ops[k].id \in Ids
      /\ \A i \in 1..Len(requests) : requests[i].id \in Ids /\ requests[i].id # id
      /\ \A i \in 1..n : responses[i].id \in Ids
      /\ id \in Ids /\ id <= nextId
  BY <1>0, <1>1, IdFacts
<1>5. /\ told'[id] = <<"START">> /\ told[id] \in {<<>>, <<"START">>}
      /\ \A j \in Ids : j # id => told'[j] = told[j]
  <2>1. told \in [Ids -> Seq(Results)]
    BY <1>0 DEF TypeOK
  <2> QED
    BY <1>4, <2>1 DEF PollsFront
<1> HIDE DEF id, n, f
<1>6. OnlyCurrentIsLive' /\ IdsOrdered' /\ IdsKept'
  BY <1>0, <1>1 DEF OnlyCurrentIsLive, IdsOrdered, IdsKept, Queued
<1>7. SenderFollows' /\ NoLostWakeup' /\ OneSession'
  <2>1. SenderFollows' /\ NoLostWakeup'
    BY <1>0, <1>1 DEF SenderFollows, NoLostWakeup
  <2>2. relPc = "up" /\ sessions # 0
    BY <1>0, <1>1 DEF OneSession
  <2>3. OneSession'
    BY <1>0, <1>1, <2>2 DEF OneSession
  <2> QED
    BY <2>1, <2>3
<1>8. StreamsFollow'
  <2>1. \A i \in 1..n : Live(responses'[i])
    BY <1>0, <1>2, <1>3 DEF StreamsFollow, Live
  <2>2. \A i, j \in 1..n : i < j => responses'[i].id < responses'[j].id
    BY <1>0, <1>2, <1>3 DEF StreamsFollow
  <2>3. ASSUME NEW i \in 1..n
        PROVE  \E k \in 1..Len(ops) :
                /\ removed < k /\ ops[k].id = responses'[i].id
                /\ responses'[i].type = "completed" =>
                        ops[k].status \in Terminal
    <3>1. responses'[i].id = responses[i].id /\ responses'[i].type = responses[i].type
      BY <1>3
    <3> QED
      BY <1>0, <1>2, <3>1 DEF StreamsFollow
  <2> QED
    BY <1>1, <1>2, <2>1, <2>2, <2>3 DEF StreamsFollow
<1>9. BegunHasStream'
  <2>1. ASSUME relPc \in {"up", "joinsend"}, NEW k \in 1..Len(ops), removed < k,
               ops[k].status \in {"STREAMING", "END"}
        PROVE  \E i \in 1..n :
                    /\ responses'[i].id = ops[k].id
                    /\ ops[k].status = "END" => responses'[i].type = "completed"
    <3>1. PICK i \in 1..n :
            /\ responses[i].id = ops[k].id
            /\ ops[k].status = "END" => responses[i].type = "completed"
      BY <1>0, <1>2, <2>1 DEF BegunHasStream
    <3> QED
      BY <1>3, <3>1
  <2> QED
    BY <1>1, <1>2, <2>1 DEF BegunHasStream
<1>10. TalesFollow'
  <2>1. TalesKnown'
    <3>1. <<"START">> \in Tales
      BY DEF Tales
    <3>2. \A j \in Ids : told'[j] \in Tales
      BY <1>0, <1>5, <3>1 DEF TalesFollow, TalesKnown
    <3>3. ASSUME NEW j \in Ids, j > nextId PROVE told'[j] = <<>>
      <4>1. j # id
        BY <1>0, <1>4, <3>3, Indices DEF Ids
      <4> QED
        BY <1>0, <1>5, <3>3, <4>1 DEF TalesFollow, TalesKnown
    <3> QED
      BY <1>1, <3>2, <3>3 DEF TalesKnown
  <2>2. QueuedUntold'
    BY <1>0, <1>1, <1>2, <1>4, <1>5 DEF TalesFollow, QueuedUntold
  <2>3. StreamsTold'
    <3> SUFFICES ASSUME NEW i \in 1..n
                 PROVE  told'[responses'[i].id] =
                            IF responses'[i].polling = 1 THEN <<"START">>
                            ELSE <<>>
      BY <1>2 DEF StreamsTold
    <3>1. CASE i = 1
      BY <1>3, <1>5, <3>1
    <3>2. CASE i # 1
      <4>1. told'[responses'[i].id] = told[responses[i].id]
        BY <1>3, <1>4, <1>5, <3>2
      <4> QED
        BY <1>0, <1>2, <1>3, <3>2, <4>1 DEF TalesFollow, StreamsTold
    <3> QED
      BY <3>1, <3>2
  <2>4. OpsTold'
    <3> SUFFICES ASSUME NEW k \in 1..Len(ops)
                 PROVE  /\ k <= removed => Answered(ops[k].id)'
                        /\ k > removed =>
                                told'[ops[k].id] \in {<<>>, <<"START">>}
                        /\ ops[k].status = "START" =>
                                /\ told'[ops[k].id] = <<>>
                                /\ ~Has(responses', ops[k].id)
      BY <1>1, <1>2 DEF OpsTold
    <3>1. /\ k <= removed => Answered(ops[k].id)
          /\ k > removed => told[ops[k].id] \in {<<>>, <<"START">>}
          /\ ops[k].status = "START" =>
                  told[ops[k].id] = <<>> /\ ~Has(responses, ops[k].id)
      BY <1>0, <1>2 DEF TalesFollow, OpsTold
    <3>2. Has(responses, id) /\ ~Answered(id)
      <4>1. Has(responses, id)
        BY <1>2, <1>3 DEF Has
      <4>2. CASE told[id] = <<>>
        BY <4>1, <4>2 DEF Answered
      <4>3. CASE told[id] = <<"START">>
        <5>1. DOMAIN told[id] = {1} /\ told[id][1] = "START"
          BY <4>3
        <5> QED
          BY <4>1, <5>1 DEF Answered, Terminal
      <4> QED
        BY <1>5, <4>1, <4>2, <4>3
    <3>3. CASE ops[k].id = id
      <4>1. ~(k <= removed) /\ ops[k].status # "START"
        BY <3>1, <3>2, <3>3
      <4> QED
        BY <1>5, <3>3, <4>1
    <3>4. CASE ops[k].id # id
      <4>1. told'[ops[k].id] = told[ops[k].id]
        BY <1>4, <1>5, <3>4
      <4>2. Answered(ops[k].id) => Answered(ops[k].id)'
        BY <1>1, <4>1 DEF Answered
      <4>3. ~Has(responses, ops[k].id) => ~Has(responses', ops[k].id)
        BY <1>2, <1>3 DEF Has
      <4> QED
        BY <3>1, <4>1, <4>2, <4>3
    <3> QED
      BY <3>3, <3>4
  <2> QED
    BY <2>1, <2>2, <2>3, <2>4 DEF TalesFollow
<1> QED
  BY <1>6, <1>7, <1>8, <1>9, <1>10 DEF IInv

\* A call of poll() that returns a result of the first stream.
LEMMA PollResultStep ==
    ASSUME IInv, TypeOK', PollResult
    PROVE  IInv'
<1> USE Indices
<1> DEFINE D == {"VOICE"}
<1>0. /\ TypeOK /\ IdsOrdered /\ StreamsFollow /\ TalesFollow
      /\ PollServesFrontOp
  BY ServesFront DEF IInv
<1>1. responses \in Queues(Nat, D)
  BY <1>0 DEF TypeOK, ResponseStreams
<1> HIDE DEF D
<1>2. /\ HasFront /\ ~Aborted /\ initialized /\ pollPc = "run"
      /\ responses' = Popped(responses)
      /\ Tell(Front.id, PopType(responses))
      /\ PopType(responses) \in {"START", "DATA", "END"}
      /\ responses # <<>> /\ responses[1].id = Front.id
      /\ UNCHANGED <<initialized, sessions, nextId, requests, ops, cur, sendPc,
                     reqId, pollPc, relPc, appPc>>
  BY <1>0 DEF PollResult, PollFrame, PollServesFrontOp, PopType
<1>3. /\ removed + 1 \in 1..Len(ops) /\ Front.id \in Ids
      /\ 1 \in DOMAIN responses /\ Has(responses, Front.id)
      /\ responses[1].polling \in {0, 1}
  <2>1. removed + 1 \in 1..Len(ops) /\ 1 \in DOMAIN responses
    BY <1>0, <1>2 DEF HasFront
  <2>2. Front.id \in Ids
    BY <1>0, <2>1, IdFacts DEF Front
  <2>3. responses[1].polling \in {0, 1}
    BY <1>0, <2>1 DEF Streams
  <2> QED
    BY <1>2, <2>1, <2>2, <2>3 DEF Has
<1>4. told[Front.id] = IF responses[1].polling = 1 THEN <<"START">> ELSE <<>>
  BY <1>0, <1>2, <1>3 DEF TalesFollow, StreamsTold
<1>5. told \in [Ids -> Seq(Results)]
  BY <1>0 DEF TypeOK
<1>6. CASE PopType(responses) = "END"
  <2>1. responses' = Tail(responses) /\ told[Front.id] = <<"START">>
        /\ responses[1].type = "completed"
    BY <1>1, <1>2, <1>4, <1>6, PoppedLemma, PopTypeLemma
  <2>2. Front.status = "END"
    <3>1. PICK k \in 1..Len(ops) : /\ ops[k].id = Front.id
                                   /\ ops[k].status \in Terminal
      BY <1>0, <1>2, <1>3, <2>1 DEF StreamsFollow
    <3>2. k < removed + 1 => ops[k].id < ops[removed + 1].id
      BY <1>0, <1>3 DEF IdsOrdered
    <3>3. removed + 1 < k => ops[removed + 1].id < ops[k].id
      BY <1>0, <1>3 DEF IdsOrdered
    <3>4. ops[k].id \in Nat /\ removed + 1 \in Nat
      BY <1>0 DEF Operations
    <3>5. k = removed + 1
      BY <3>1, <3>2, <3>3, <3>4 DEF Front
    <3> QED
      BY <1>2, <3>1, <3>5 DEF Aborted, Front, Terminal
  <2>3. told' = [told EXCEPT ![Front.id] = Append(@, "END")]
    BY <1>2, <1>6 DEF Tell
  <2>4. removed' = removed + 1
    BY <1>6 DEF PollResult
  <2> QED
    BY <1>2, <1>3, <2>1, <2>2, <2>3, <2>4, FrontRemoved DEF TakesFrontOff,
       Terminal
<1>7. CASE PopType(responses) = "START"
  <2>1. /\ told[Front.id] = <<>>
        /\ Len(responses') = Len(responses)
        /\ responses'[1].id = responses[1].id /\ responses'[1].polling = 1
        /\ responses'[1].type = responses[1].type
        /\ \A i \in 2..Len(responses) : responses'[i] = responses[i]
    BY <1>1, <1>2, <1>4, <1>7, PoppedLemma, PopTypeLemma
  <2>2. told' = [told EXCEPT ![Front.id] = <<"START">>]
    <3>1. Append(told[Front.id], "START") = <<"START">>
      BY <2>1
    <3> QED
      BY <1>2, <1>3, <1>5, <1>7, <3>1 DEF Tell
  <2>3. \A i \in 1..Len(responses) : /\ responses'[i].id = responses[i].id
                                     /\ responses'[i].type = responses[i].type
    <3>1. \A i \in 1..Len(responses) : i = 1 \/ i \in 2..Len(responses)
      BY <1>0
    <3> QED
      BY <2>1, <3>1
  <2>4. removed' = removed
    BY <1>7 DEF PollResult
  <2> QED
    BY <1>2, <2>1, <2>2, <2>3, <2>4, FrontPolled DEF PollsFront
<1>8. CASE PopType(responses) = "DATA"
  <2>1. /\ responses[1].polling = 1 /\ told[Front.id] = <<"START">>
        /\ SameTags(responses, responses')
        /\ \A i \in 1..Len(responses) : responses'[i].type = responses[i].type
    BY <1>1, <1>2, <1>4, <1>8, PoppedLemma, PopTypeLemma
  <2>2. told' = [told EXCEPT ![Front.id] = <<"START">>]
    BY <1>2, <1>5, <1>8, <2>1 DEF Tell
  <2>3. /\ Len(responses') = Len(responses)
        /\ \A i \in 1..Len(responses) :
                /\ responses'[i].id = responses[i].id
                /\ responses'[i].polling = responses[i].polling
    BY <2>1 DEF SameTags
  <2>4. /\ responses'[1].polling = 1
        /\ \A i \in 2..Len(responses) :
                responses'[i].polling = responses[i].polling
    BY <1>0, <1>3, <2>1, <2>3
  <2>5. removed' = removed
    BY <1>8 DEF PollResult
  <2> QED
    BY <1>2, <2>1, <2>2, <2>3, <2>4, <2>5, FrontPolled DEF PollsFront
<1> QED
  BY <1>2, <1>6, <1>7, <1>8
-----------------------------------------------------------------------------
(* The invariant and what it implies.                                      *)

LEMMA InvariantInit ==
    ASSUME Init
    PROVE  IInv
<1>1. TypeOK
  <2>1. told \in [Ids -> Seq(Results)] /\ nextId \in 0..MaxId
    BY TtsBoundsAssumption DEF Init
  <2>2. /\ responses \in ResponseStreams /\ requests \in Seq(Requests)
        /\ ops \in Seq(Operations) /\ Len(ops) = 0
    BY DEF Init, ResponseStreams, Queues
  <2>3. removed \in 0..Len(ops) /\ cur \in 0..Len(ops)
    BY <2>2 DEF Init
  <2>4. /\ initialized \in BOOLEAN /\ sessions \in Nat /\ timed \in BOOLEAN
        /\ appPc = "idle" /\ sendPc = "quit" /\ reqId \in Nat
        /\ recvPc = "quit" /\ pollPc = "out" /\ relPc = "down"
        /\ sent \subseteq Nat
    BY DEF Init
  <2> QED
    BY <2>1, <2>2, <2>3, <2>4 DEF TypeOK
<1>2. DOMAIN ops = {} /\ DOMAIN requests = {} /\ DOMAIN responses = {}
  BY DEF Init
<1>3. IdsOrdered /\ IdsKept /\ SenderFollows /\ StreamsFollow /\ BegunHasStream
  BY <1>2 DEF Init, IdsOrdered, IdsKept, SenderFollows, StreamsFollow,
     BegunHasStream
<1>4. OnlyCurrentIsLive /\ NoLostWakeup /\ OneSession
  BY <1>2 DEF Init, OnlyCurrentIsLive, NoLostWakeup, OneSession
<1>5. TalesFollow
  BY <1>2 DEF Init, TalesFollow, TalesKnown, QueuedUntold, OpsTold, StreamsTold,
     Tales
<1> QED
  BY <1>1, <1>3, <1>4, <1>5 DEF IInv

LEMMA InvariantStep ==
    ASSUME SingleSession, IInv, [Next]_vars
    PROVE  IInv'
<1>0. TypeOK'
  BY TypeStep, ServesFront DEF IInv
<1>1. CASE LifecycleStep
  BY <1>0, <1>1, PrepareStep, ReleaseStep, ReleaseResponsesStep
     DEF LifecycleStep
<1>2. CASE Speak
  BY <1>0, <1>2, SpeakStep
<1>3. ASSUME NEW id \in 0..nextId, Cancel(id)
      PROVE  IInv'
  BY <1>0, <1>3, CancelStep
<1>4. CASE SendStep
  BY <1>0, <1>4, SenderStep, SendStartsStep, SendCancelsStep DEF SendStep
<1>5. CASE RecvStep
  BY <1>0, <1>5, RecvVoiceStep, RecvFinishStep, RecvQuietStep, RecvAbortsStep
     DEF RecvStep, RecvTimeout, RecvBroken
<1>6. CASE PollStep
  BY <1>0, <1>6, OtherQuietStep, PollWaitsStep, PollAbortedStep, PollResultStep
     DEF PollStep
<1>7. CASE SpuriousWakeup \/ UNCHANGED vars
  BY <1>0, <1>7, OtherQuietStep
<1> QED
  BY <1>1, <1>2, <1>3, <1>4, <1>5, <1>6, <1>7 DEF Next

\* The inductive invariant holds in every reachable state of one session,
\* whatever send_reqs, gen_results, poll() and the caller's threads interleave.
THEOREM InvariantHolds ==
    ASSUME SingleSession
    PROVE  Spec => []IInv
<1>1. Init => IInv
  BY InvariantInit
<1>2. IInv /\ [Next]_vars => IInv'
  BY InvariantStep
<1> QED
  BY <1>1, <1>2, PTL DEF Spec

\* Every variable keeps its type.  Without SingleSession this is false: poll()
\* may be handed a "REMOVED" stream of the session before, which no entry of
\* poptype_to_restype() is for (tts_impl.cc:156-164, 228-232).
THEOREM TypeCorrect ==
    ASSUME SingleSession
    PROVE  Spec => []TypeOK
<1>1. IInv => TypeOK
  BY DEF IInv
<1> QED
  BY <1>1, InvariantHolds, PTL

\* An operation that has not ended is the current one and the newest.
THEOREM OnlyCurrentIsLiveHolds ==
    ASSUME SingleSession
    PROVE  Spec => []OnlyCurrentIsLive
<1>1. IInv => OnlyCurrentIsLive
  BY DEF IInv
<1> QED
  BY <1>1, InvariantHolds, PTL

\* Neither send_reqs nor poll() sleeps on a condition that nobody will signal.
THEOREM NoLostWakeupHolds ==
    ASSUME SingleSession
    PROVE  Spec => []NoLostWakeup
<1>1. IInv => NoLostWakeup
  BY DEF IInv
<1> QED
  BY <1>1, InvariantHolds, PTL

\* The assertions of poll() hold: what it takes off responses_ is a result of
\* the operation at the front of operations_ (tts_impl.cc:162, 206, 218, 230).
THEOREM PollServesFrontOpHolds ==
    ASSUME SingleSession
    PROVE  Spec => []PollServesFrontOp
<1>1. IInv => PollServesFrontOp
  BY ServesFront
<1> QED
  BY <1>1, InvariantHolds, PTL

\* The application gets START first, END only after START, and one last result
\* of every id.
THEOREM AnsweredOnceHolds ==
    ASSUME SingleSession
    PROVE  Spec => []AnsweredOnce
<1>1. ASSUME IInv PROVE AnsweredOnce
  <2> SUFFICES ASSUME NEW t \in Tales, NEW k \in DOMAIN t
               PROVE  /\ t[k] = "START" => k = 1
                      /\ t[k] # "DATA"
                      /\ t[k] = "END" => t[1] = "START"
                      /\ t[k] \in Terminal => k = Len(t)
    BY <1>1 DEF IInv, TalesFollow, TalesKnown, AnsweredOnce
  <2>1. CASE t = <<>>
    BY <2>1
  <2>2. CASE t = <<"START">>
    BY <2>2 DEF Terminal
  <2>3. ASSUME NEW e \in Terminal, t = <<"START", e>>
        PROVE  /\ t[k] = "START" => k = 1
               /\ t[k] # "DATA"
               /\ t[k] = "END" => t[1] = "START"
               /\ t[k] \in Terminal => k = Len(t)
    <3>1. k \in {1, 2} /\ Len(t) = 2 /\ t[1] = "START" /\ t[2] = e
      BY <2>3
    <3> QED
      BY <3>1 DEF Terminal
  <2>4. ASSUME NEW e \in {"CANCELLED", "ERROR"}, t = <<e>>
        PROVE  /\ t[k] = "START" => k = 1
               /\ t[k] # "DATA"
               /\ t[k] = "END" => t[1] = "START"
               /\ t[k] \in Terminal => k = Len(t)
    <3>1. k = 1 /\ Len(t) = 1 /\ t[1] = e
      BY <2>4
    <3> QED
      BY <3>1 DEF Terminal
  <2> QED
    BY <2>1, <2>2, <2>3, <2>4 DEF Tales
<1> QED
  BY <1>1, InvariantHolds, PTL

\* No request is lost: until release() each one an id was given for is queued,
\* an operation still to be polled, or answered.
THEOREM RequestsKeptHolds ==
    ASSUME SingleSession
    PROVE  Spec => []RequestsKept
<1>1. ASSUME IInv PROVE RequestsKept
  <2> SUFFICES ASSUME initialized, NEW id \in 1..nextId, ~Queued(id)
               PROVE  \/ Answered(id)
                      \/ \E i \in DOMAIN ops : i > removed /\ ops[i].id = id
    BY DEF RequestsKept
  <2>1. PICK i \in DOMAIN ops : ops[i].id = id
    BY <1>1 DEF IInv, IdsKept
  <2>2. i \in Nat /\ removed \in Nat
    BY <1>1, Indices DEF IInv
  <2>3. i <= removed => Answered(id)
    BY <1>1, <2>1 DEF IInv, TalesFollow, OpsTold
  <2> QED
    BY <2>1, <2>2, <2>3
<1> QED
  BY <1>1, InvariantHolds, PTL
=============================================================================

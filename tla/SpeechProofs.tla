---------------------------- MODULE SpeechProofs ----------------------------
(***************************************************************************)
(* Type correctness of Speech; then IInv is an invariant, hence            *)
(* OnlyCurrentIsLive, ControlFindsOwnOp and SleepsForOwnOp are, for any    *)
(* number of requests, chunks, results and cancelling threads.             *)
(***************************************************************************)
EXTENDS SpeechInvariant, ClientLemmas

\* The text requests rewritten by cancel().
LEMMA TextCancelledLemma ==
    ASSUME textReqs \in Seq(TextRequests), NEW id
    PROVE  /\ TextCancelled(id) \in Seq(TextRequests)
           /\ Len(TextCancelled(id)) = Len(textReqs)
           /\ \A i \in 1..Len(textReqs) :
                TextCancelled(id)[i].id = textReqs[i].id
<1> DEFINE T == TextRequests
           r == TextCancelled(id)
<1>1. DOMAIN textReqs = 1..Len(textReqs)
  OBVIOUS
<1>2. ASSUME NEW i \in DOMAIN textReqs
      PROVE  r[i] \in T /\ r[i].id = textReqs[i].id
  <2>1. textReqs[i] \in T
    BY <1>1
  <2>2. \/ r[i] = textReqs[i]
        \/ r[i] = [textReqs[i] EXCEPT !.type = "CANCELLED"]
    BY DEF TextCancelled
  <2> QED
    BY <2>1, <2>2 DEF TextRequests
<1>3. r = [i \in DOMAIN textReqs |-> r[i]]
  BY DEF TextCancelled
<1> HIDE DEF r
<1>4. r \in Seq(T) /\ Len(r) = Len(textReqs)
  BY <1>2, <1>3, RewriteInPlace
<1>5. /\ r \in Seq(T) /\ Len(r) = Len(textReqs)
      /\ \A i \in 1..Len(textReqs) : r[i].id = textReqs[i].id
  BY <1>1, <1>2, <1>4
<1> QED
  BY <1>5 DEF r

\* What the operations of StreamQueue make of the voice requests.
LEMMA VoiceLemma ==
    ASSUME voiceReqs \in VoiceStreams
    PROVE  /\ <<>> \in VoiceStreams
           /\ \A id \in Nat : /\ Start(voiceReqs, id) \in VoiceStreams
                              /\ Stream(voiceReqs, id, "voice") \in VoiceStreams
                              /\ End(voiceReqs, id) \in VoiceStreams
           /\ \A id : \A type \in {"deleted", "error"} :
                Erase(voiceReqs, id, type) \in VoiceStreams
           /\ Clear(voiceReqs) \in VoiceStreams
           /\ Popped(voiceReqs) \in VoiceStreams
           /\ PopType(voiceReqs) \in
                {"EMPTY", "START", "DATA", "END", "REMOVED", "ERROR"}
           /\ PopType(voiceReqs) # "EMPTY" => voiceReqs[1].id \in Nat
<1> DEFINE D == {"voice"}
<1>1. voiceReqs \in Queues(Nat, D) /\ "voice" \in D
  BY DEF VoiceStreams
<1>2. <<>> \in Queues(Nat, D)
  BY DEF Queues
<1> HIDE DEF D
<1>3. \A id \in Nat : Start(voiceReqs, id) \in Queues(Nat, D)
  BY <1>1, StartLemma
<1>4. \A id \in Nat : Stream(voiceReqs, id, "voice") \in Queues(Nat, D)
  BY <1>1, StreamLemma
<1>5. \A id \in Nat : End(voiceReqs, id) \in Queues(Nat, D)
  BY <1>1, EndLemma
<1>6. \A id : \A type \in {"deleted", "error"} :
        Erase(voiceReqs, id, type) \in Queues(Nat, D)
  BY <1>1, EraseLemma
<1>7. /\ Clear(voiceReqs) \in Queues(Nat, D)
      /\ Popped(voiceReqs) \in Queues(Nat, D)
  BY <1>1, ClearLemma, PoppedLemma
<1>8. /\ PopType(voiceReqs) \in
            {"EMPTY", "START", "DATA", "END", "REMOVED", "ERROR"}
      /\ PopType(voiceReqs) # "EMPTY" => Len(voiceReqs) \in Nat \ {0}
  BY <1>1, PopTypeLemma
<1>9. PopType(voiceReqs) # "EMPTY" => voiceReqs[1].id \in Nat
  <2>1. ASSUME PopType(voiceReqs) # "EMPTY"
        PROVE  voiceReqs[1] \in Streams(Nat, D)
    BY <1>1, <1>8, <2>1 DEF Queues
  <2> QED
    BY <2>1 DEF Streams
<1>10. Queues(Nat, D) = VoiceStreams
  BY DEF D, VoiceStreams
<1> QED
  BY <1>2, <1>3, <1>4, <1>5, <1>6, <1>7, <1>8, <1>9, <1>10

\* What they make of the responses.
LEMMA ResponseLemma ==
    ASSUME responses \in ResponseStreams
    PROVE  /\ <<>> \in ResponseStreams
           /\ Popped(responses) \in ResponseStreams
           /\ \A id : \A type \in {"deleted", "error"} :
                /\ Erase(responses, id, type) \in ResponseStreams
                /\ Popped(Erase(responses, id, type)) \in ResponseStreams
           /\ \A id \in Nat : \A q \in {responses, Start(responses, id)} :
                /\ q \in ResponseStreams
                /\ End(q, id) \in ResponseStreams
                /\ Erase(q, id, "error") \in ResponseStreams
                /\ \A type \in {"INTERMEDIATE", "ASR_FINISH"} :
                        Stream(q, id, type) \in ResponseStreams
           /\ PopType(responses) \in
                {"EMPTY", "START", "DATA", "END", "REMOVED", "ERROR"}
           /\ PopType(responses) # "EMPTY" => responses[1].id \in Nat
           /\ PopType(responses) = "DATA" =>
                responses[1].data[1] \in {"INTERMEDIATE", "ASR_FINISH"}
<1> DEFINE D == {"INTERMEDIATE", "ASR_FINISH"}
           Q == Queues(Nat, D)
<1>1. responses \in Q
  BY DEF ResponseStreams
<1>2. <<>> \in Q
  BY DEF Queues
<1> HIDE DEF D
<1>3. \A q \in Q : Popped(q) \in Q
  BY PoppedLemma
<1>4. \A q \in Q : \A id : \A type \in {"deleted", "error"} :
        Erase(q, id, type) \in Q
  BY EraseLemma
<1>5. \A q \in Q, id \in Nat : Start(q, id) \in Q
  BY StartLemma
<1>6. \A q \in Q, id \in Nat : End(q, id) \in Q
  BY EndLemma
<1>7. \A q \in Q, id \in Nat, type \in D : Stream(q, id, type) \in Q
  BY StreamLemma
<1>8. /\ PopType(responses) \in
            {"EMPTY", "START", "DATA", "END", "REMOVED", "ERROR"}
      /\ PopType(responses) # "EMPTY" => Len(responses) \in Nat \ {0}
      /\ PopType(responses) = "DATA" => responses[1].data # <<>>
  BY <1>1, PopTypeLemma
<1>9. PopType(responses) # "EMPTY" => responses[1] \in Streams(Nat, D)
  BY <1>1, <1>8 DEF Queues
<1>10. PopType(responses) # "EMPTY" => responses[1].id \in Nat
  BY <1>9 DEF Streams
<1>11. PopType(responses) = "DATA" => responses[1].data[1] \in D
  <2>1. ASSUME PopType(responses) = "DATA" PROVE responses[1].data \in Seq(D)
    BY <1>9, <2>1 DEF Streams
  <2> QED
    BY <1>8, <2>1
<1> HIDE DEF Q
<1>12. \A id \in Nat : \A q \in {responses, Start(responses, id)} : q \in Q
  BY <1>1, <1>5
<1>13. \A id \in Nat : \A q \in {responses, Start(responses, id)} :
                /\ q \in Q
                /\ End(q, id) \in Q
                /\ Erase(q, id, "error") \in Q
                /\ \A type \in D : Stream(q, id, type) \in Q
  BY <1>4, <1>6, <1>7, <1>12
<1>14. \A id : \A type \in {"deleted", "error"} :
                /\ Erase(responses, id, type) \in Q
                /\ Popped(Erase(responses, id, type)) \in Q
  BY <1>1, <1>3, <1>4
<1>15. Popped(responses) \in Q
  BY <1>1, <1>3
<1>16. Q = ResponseStreams
  BY DEF Q, D, ResponseStreams
<1> QED
  BY <1>2, <1>8, <1>10, <1>11, <1>13, <1>14, <1>15, <1>16 DEF D

\* The fields of the current operation, of the front one, and of a text.
LEMMA FieldsLemma ==
    ASSUME TypeOK
    PROVE  /\ cur # 0 => /\ cur \in 1..Len(ops)
                         /\ ops[cur].id \in Nat /\ ops[cur].status \in Statuses
           /\ HasFront => /\ removed + 1 \in 1..Len(ops)
                          /\ Front.id \in Nat /\ Front.status \in Statuses
           /\ textReqs # <<>> => /\ Head(textReqs) \in Requests
                                 /\ Tail(textReqs) \in Seq(TextRequests)
           /\ req.id \in Nat /\ req.type \in ReqTypes
<1>1. Len(ops) \in Nat /\ \A i \in 1..Len(ops) : ops[i] \in Operations
  BY DEF TypeOK
<1>2. cur # 0 => cur \in 1..Len(ops)
  BY <1>1 DEF TypeOK
<1>3. HasFront => removed + 1 \in 1..Len(ops)
  BY <1>1 DEF TypeOK, HasFront
<1>4. textReqs # <<>> => /\ Head(textReqs) \in TextRequests
                         /\ Tail(textReqs) \in Seq(TextRequests)
  BY DEF TypeOK
<1>5. TextRequests \subseteq Requests
  BY DEF TextRequests, Requests, ReqTypes
<1>6. req.id \in Nat /\ req.type \in ReqTypes
  BY DEF TypeOK, Requests
<1> QED
  BY <1>1, <1>2, <1>3, <1>4, <1>5, <1>6 DEF Operations, Front

\* A new operation is appended.
LEMMA NewOpLemma ==
    ASSUME TypeOK, NEW id \in Nat, NEW status \in Statuses, NewOp(id, status)
    PROVE  /\ ops' \in Seq(Operations) /\ Len(ops') = Len(ops) + 1
           /\ cur' \in 0..Len(ops') /\ removed' \in 0..Len(ops')
           /\ timed' \in BOOLEAN
           /\ \A i \in 1..Len(ops) : ops'[i] = ops[i]
           /\ ops'[Len(ops) + 1] = [id |-> id, status |-> status]
<1>1. OpTypes
  BY DEF TypeOK, OpTypes
<1>2. OpTypes'
  BY <1>1, AppendedLemma
<1> QED
  BY <1>1, <1>2, AppendedLemma DEF OpTypes

\* What a poll() records is a result of a known type.
LEMMA TellLemma ==
    ASSUME TypeOK, NEW id \in Nat, NEW type \in {"INTERMEDIATE", "ASR_FINISH",
               "START", "END", "CANCELLED", "ERROR"},
           Tell(id, type)
    PROVE  told' \in [Ids -> Seq(Results)]
<1>1. told \in [Ids -> Seq(Results)]
  BY DEF TypeOK
<1>2. ASSUME NEW t \in Results
      PROVE  [told EXCEPT ![id] = Append(@, t)] \in [Ids -> Seq(Results)]
  <2>1. ASSUME id \in Ids PROVE Append(told[id], t) \in Seq(Results)
    BY <1>1, <2>1
  <2> QED
    BY <1>1, <2>1
<1>3. \/ told' = told
      \/ \E t \in Results : told' = [told EXCEPT ![id] = Append(@, t)]
  BY DEF Tell, Results
<1> QED
  BY <1>1, <1>2, <1>3

\* Every step keeps the types.
LEMMA TypeStep ==
    ASSUME TypeOK, [Next]_vars
    PROVE  TypeOK'
<1>1. CASE Prepare
  <2>1. told' \in [Ids -> Seq(Results)]
    BY <1>1 DEF Prepare
  <2>2. wire' \in [Ids -> {"none", "open", "ended"}]
    BY <1>1 DEF Prepare
  <2>3. req' \in Requests
    BY <1>1 DEF Prepare, NoReq, Requests, ReqTypes
  <2>4. nextId' \in 0..MaxId
    BY <1>1, BoundsAssumption DEF Prepare
  <2>5. opRef' \in 0..Len(ops)
    BY <1>1 DEF Prepare, TypeOK
  <2> QED
    BY <1>1, <2>1, <2>2, <2>3, <2>4, <2>5 DEF TypeOK, Prepare, SendPcs,
       opVars, appVars
<1>2. CASE ReleaseRequests
  <2>1. voiceReqs' \in VoiceStreams
    BY <1>2, VoiceLemma DEF TypeOK, ReleaseRequests
  <2>2. textReqs' \in Seq(TextRequests)
    BY <1>2 DEF ReleaseRequests
  <2>3. recvPc' \in {"recv", "holding", "erase", "quit"}
    BY <1>2 DEF TypeOK, ReleaseRequests
  <2> QED
    BY <1>2, <2>1, <2>2, <2>3 DEF TypeOK, ReleaseRequests, AfterNotifyReq,
       SendPcs, opVars
<1>3. CASE ReleaseTestOp
  BY <1>3 DEF TypeOK, ReleaseTestOp, opVars, appVars, sendVars
<1>4. CASE ReleaseSetOpError
  <2>1. ops' \in Seq(Operations) /\ Len(ops') = Len(ops) /\ Len(ops) \in Nat
    BY <1>4, OpsInLemma DEF TypeOK, Statuses, CurrentIn, ReleaseSetOpError,
       SetOpError
  <2>2. timed' \in BOOLEAN
    BY <1>4 DEF NoCurrent, ReleaseSetOpError, SetOpError
  <2> QED
    BY <1>4, <2>1, <2>2 DEF TypeOK, ReleaseSetOpError, SetOpError, NoCurrent,
       AfterNotifyOp, SendPcs, appVars
<1>5. CASE ReleaseResponses
  <2>1. ops' \in Seq(Operations) /\ Len(ops') = Len(ops) /\ Len(ops) \in Nat
    BY <1>5, FinishedLemma DEF TypeOK, ReleaseResponses, FinishOp
  <2>2. timed' \in BOOLEAN
    BY <1>5 DEF NoCurrent, ReleaseResponses, FinishOp
  <2>3. responses' \in ResponseStreams
    BY <1>5, ResponseLemma DEF TypeOK, ReleaseResponses
  <2> QED
    BY <1>5, <2>1, <2>2, <2>3 DEF TypeOK, ReleaseResponses, FinishOp,
       NoCurrent, AfterNotifyResp, appVars, sendVars
<1>6. CASE ReleaseReturns
  BY <1>6 DEF TypeOK, ReleaseReturns, opVars, appVars, sendVars
<1>7. CASE StartVoice
  <2>1. nextId + 1 \in Nat /\ nextId' \in 0..MaxId
    BY <1>7, BoundsAssumption DEF TypeOK, StartVoice
  <2>2. voiceReqs' \in VoiceStreams
    BY <1>7, <2>1, VoiceLemma DEF TypeOK, StartVoice
  <2> QED
    BY <1>7, <2>1, <2>2 DEF TypeOK, StartVoice, AfterNotifyReq, SendPcs,
       opVars
<1>8. CASE PutText
  <2>1. nextId + 1 \in Nat /\ nextId' \in 0..MaxId
    BY <1>8, BoundsAssumption DEF TypeOK, PutText
  <2>2. [id |-> nextId + 1, type |-> "TEXT"] \in TextRequests
    BY <2>1 DEF TextRequests
  <2>3. textReqs' \in Seq(TextRequests)
    BY <1>8, <2>2 DEF TypeOK, PutText
  <2> QED
    BY <1>8, <2>1, <2>2, <2>3 DEF TypeOK, PutText, AfterNotifyReq, SendPcs,
       opVars
<1>9. ASSUME NEW id \in 1..nextId, PutVoice(id)
      PROVE  TypeOK'
  <2>1. voiceReqs' \in VoiceStreams
    BY <1>9, VoiceLemma DEF TypeOK, PutVoice
  <2> QED
    BY <1>9, <2>1 DEF TypeOK, PutVoice, AfterNotifyReq, SendPcs, opVars
<1>10. ASSUME NEW id \in 1..nextId, EndVoice(id)
      PROVE  TypeOK'
  <2>1. voiceReqs' \in VoiceStreams
    BY <1>10, VoiceLemma DEF TypeOK, EndVoice
  <2> QED
    BY <1>10, <2>1 DEF TypeOK, EndVoice, AfterNotifyReq, SendPcs, opVars
<1>11. ASSUME NEW id \in 1..nextId, CancelQueued(id)
      PROVE  TypeOK'
  <2>1. voiceReqs' \in VoiceStreams
    BY <1>11, VoiceLemma DEF TypeOK, CancelQueued
  <2>2. textReqs' \in Seq(TextRequests)
    BY <1>11, TextCancelledLemma DEF TypeOK, CancelQueued
  <2>3. id \in 0..MaxId
    BY BoundsAssumption DEF TypeOK
  <2>4. cancels' \subseteq 0..MaxId
    BY <1>11, <2>3 DEF TypeOK, CancelQueued
  <2>5. sendPc' \in SendPcs
    BY <1>11 DEF TypeOK, CancelQueued, AfterNotifyReq, SendPcs
  <2> QED
    BY <1>11, <2>1, <2>2, <2>3, <2>4, <2>5 DEF TypeOK, CancelQueued, opVars
<1>12. CASE CancelAllQueued
  <2>1. voiceReqs' \in VoiceStreams
    BY <1>12, VoiceLemma DEF TypeOK, CancelAllQueued
  <2>2. textReqs' \in Seq(TextRequests)
    BY <1>12, TextCancelledLemma DEF TypeOK, CancelAllQueued
  <2>3. cancels' \subseteq 0..MaxId
    BY <1>12, BoundsAssumption DEF TypeOK, CancelAllQueued
  <2> QED
    BY <1>12, <2>1, <2>2, <2>3 DEF TypeOK, CancelAllQueued, AfterNotifyReq,
       SendPcs, opVars
<1>13. ASSUME NEW id \in cancels, CancelOperations(id)
      PROVE  TypeOK'
  <2>1. ops' \in Seq(Operations) /\ Len(ops') = Len(ops) /\ Len(ops) \in Nat
    BY <1>13, OpsInLemma DEF TypeOK, Statuses, CurrentIn, CancelOperations,
       CancelOp
  <2>2. cancels' \subseteq 0..MaxId
    BY <1>13 DEF TypeOK, CancelOperations
  <2> QED
    BY <1>13, <2>1, <2>2 DEF TypeOK, CancelOperations, CancelOp,
       AfterNotifyOp, AfterNotifyResp, SendPcs
<1>14. CASE SendQuit
  BY <1>14 DEF TypeOK, SendQuit, SendFrame, SendPcs, opVars, appVars
<1>15. CASE SendPopVoice
  <2>1. voiceReqs' \in VoiceStreams
    BY <1>15, VoiceLemma DEF TypeOK, SendPopVoice
  <2>2. ReqTypeOf(PopType(voiceReqs)) \in ReqTypes
    BY <1>15, VoiceLemma DEF TypeOK, SendPopVoice, ReqTypeOf, ReqTypes
  <2>3. req' \in Requests
    BY <1>15, <2>2, VoiceLemma DEF TypeOK, SendPopVoice, Requests
  <2> QED
    BY <1>15, <2>1, <2>2, <2>3 DEF TypeOK, SendPopVoice, SendFrame, SendPcs,
       opVars, appVars
<1>16. CASE SendNoVoice
  <2>1. req' \in Requests
    BY <1>16 DEF SendNoVoice, NoReq, Requests, ReqTypes
  <2> QED
    BY <1>16, <2>1 DEF TypeOK, SendNoVoice, SendFrame, SendPcs, opVars,
       appVars
<1>17. CASE SendPeekOp
  BY <1>17 DEF TypeOK, SendPeekOp, SendFrame, SendPcs, opVars, appVars
<1>18. CASE SendPopText
  <2>1. req' \in Requests /\ textReqs' \in Seq(TextRequests)
    BY <1>18, FieldsLemma DEF TypeOK, SendPopText
  <2> QED
    BY <1>18, <2>1 DEF TypeOK, SendPopText, SendFrame, SendPcs, opVars,
       appVars
<1>19. CASE SendTextMustWait
  BY <1>19 DEF TypeOK, SendTextMustWait, SendFrame, SendPcs, opVars, appVars
<1>20. CASE ControlReadOp
  BY <1>20 DEF TypeOK, ControlReadOp, SendFrame, SendPcs, opVars, appVars
<1>21. CASE ControlStart
  <2>1. /\ ops' \in Seq(Operations) /\ Len(ops') = Len(ops) + 1
        /\ cur' \in 0..Len(ops') /\ removed' \in 0..Len(ops')
        /\ timed' \in BOOLEAN
    BY <1>21, FieldsLemma, NewOpLemma DEF ControlStart, Statuses
  <2> QED
    BY <1>21, <2>1 DEF TypeOK, ControlStart, SendFrame, SendPcs, appVars
<1>22. CASE ControlContinue
  BY <1>22 DEF TypeOK, ControlContinue, SendFrame, SendPcs, opVars, appVars
<1>23. CASE ControlCancel
  <2>1. ops' \in Seq(Operations) /\ Len(ops') = Len(ops) /\ Len(ops) \in Nat
    BY <1>23, OpsInLemma DEF TypeOK, Statuses, CurrentIn, ControlCancel
  <2>2. timed' \in BOOLEAN
    BY <1>23 DEF NoCurrent, ControlCancel
  <2> QED
    BY <1>23, <2>1, <2>2 DEF TypeOK, ControlCancel, SendFrame, NoCurrent,
       AfterNotifyResp, SendPcs, appVars
<1>24. CASE ControlCancelUnsent
  <2>1. /\ ops' \in Seq(Operations) /\ Len(ops') = Len(ops) + 1
        /\ cur' \in 0..Len(ops') /\ removed' \in 0..Len(ops')
        /\ timed' \in BOOLEAN
    BY <1>24, FieldsLemma, NewOpLemma DEF ControlCancelUnsent, Statuses
  <2> QED
    BY <1>24, <2>1 DEF TypeOK, ControlCancelUnsent, SendFrame,
       AfterNotifyResp, SendPcs, appVars
<1>25. CASE ControlDrop
  BY <1>25 DEF TypeOK, ControlDrop, SendFrame, SendPcs, opVars, appVars
<1>26. CASE RequestSent
  <2>1. wire' \in [Ids -> {"none", "open", "ended"}]
    BY <1>26 DEF TypeOK, RequestSent, WireAfter
  <2> QED
    BY <1>26, <2>1 DEF TypeOK, RequestSent, SendFrame, SendPcs, opVars,
       appVars
<1>27. CASE RequestFailed
  BY <1>27 DEF TypeOK, RequestFailed, SendFrame, SendPcs, opVars, appVars
<1>28. CASE RequestSetTime
  BY <1>28 DEF TypeOK, RequestSetTime, RefreshOpTime, SendFrame, SendPcs,
     appVars
<1>29. CASE RequestSetError
  <2>1. ops' \in Seq(Operations) /\ Len(ops') = Len(ops) /\ Len(ops) \in Nat
    BY <1>29, OpsInLemma DEF TypeOK, Statuses, CurrentIn, RequestSetError,
       SetOpError
  <2>2. timed' \in BOOLEAN
    BY <1>29 DEF NoCurrent, RequestSetError, SetOpError
  <2>3. voiceReqs' \in VoiceStreams
    BY <1>29, VoiceLemma DEF TypeOK, RequestSetError
  <2> QED
    BY <1>29, <2>1, <2>2, <2>3 DEF TypeOK, RequestSetError, SetOpError,
       SendFrame, NoCurrent, AfterNotifyResp, SendPcs, appVars
<1>30. CASE WaitOpTest
  BY <1>30 DEF TypeOK, WaitOpTest, SendFrame, SendPcs, opVars, appVars
<1>31. CASE WaitOpSleep
  BY <1>31 DEF TypeOK, WaitOpSleep, SendFrame, SendPcs, opVars, appVars
<1>32. ASSUME NEW id \in Ids, NEW t \in RespTypes, RecvIntermediate(id, t)
      PROVE  TypeOK'
  <2>1. ops' \in Seq(Operations) /\ Len(ops') = Len(ops) /\ Len(ops) \in Nat
    BY <1>32, OpsInLemma DEF TypeOK, Statuses, CurrentIn, RecvIntermediate
  <2>2. id \in Nat /\ t \in {"INTERMEDIATE", "ASR_FINISH"}
    BY <1>32, BoundsAssumption, ChoicesAssumption DEF Ids, RecvIntermediate
  <2>3. responses' \in ResponseStreams
    BY <1>32, <2>2, ResponseLemma DEF TypeOK, RecvIntermediate, WithResponse
  <2> QED
    BY <1>32, <2>1, <2>2, <2>3 DEF TypeOK, RecvIntermediate, RecvFrame,
       AfterNotifyResp, appVars
<1>32u. ASSUME NEW id \in Ids, NEW t \in RespTypes, RecvUnknown(id, t)
      PROVE  TypeOK'
  <2>1. ops' \in Seq(Operations) /\ Len(ops') = Len(ops) /\ Len(ops) \in Nat
    BY <1>32u, OpsInLemma DEF TypeOK, Statuses, CurrentIn, RecvUnknown
  <2>2. id \in Nat /\ t \in {"UNKNOWN", "EXTRA"}
    BY <1>32u, BoundsAssumption DEF Ids, RecvUnknown
  <2>3. responses' \in ResponseStreams
    BY <1>32u, <2>2, ResponseLemma DEF TypeOK, RecvUnknown, WithResponse
  <2> QED
    BY <1>32u, <2>1, <2>2, <2>3 DEF TypeOK, RecvUnknown, RecvFrame, appVars
<1>33. ASSUME NEW id \in Ids, NEW t \in RespTypes, RecvLast(id, t)
      PROVE  TypeOK'
  <2>1. ops' \in Seq(Operations) /\ Len(ops') = Len(ops) /\ Len(ops) \in Nat
    BY <1>33, OpsInLemma DEF TypeOK, Statuses, CurrentIn, RecvLast
  <2>2. timed' \in BOOLEAN
    BY <1>33 DEF NoCurrent, RecvLast
  <2>3. id \in Nat /\ t \in {"FINISH", "FAILED"}
    BY <1>33, BoundsAssumption DEF Ids, RecvLast
  <2>4. responses' \in ResponseStreams
    BY <1>33, <2>3, ResponseLemma DEF TypeOK, RecvLast, WithResponse
  <2> QED
    BY <1>33, <2>1, <2>2, <2>3, <2>4 DEF TypeOK, RecvLast, RecvFrame,
       NoCurrent, AfterNotifyResp, AfterNotifyOp, SendPcs, appVars
<1>34. ASSUME NEW id \in Ids, RecvStale(id)
      PROVE  TypeOK'
  BY <1>34 DEF TypeOK, RecvStale, RecvFrame, RefreshOpTime, appVars
<1>35. CASE RecvIgnored
  BY <1>35 DEF TypeOK, RecvIgnored, RecvFrame, opVars, appVars
<1>36. CASE RecvAborts
  <2>1. ops' \in Seq(Operations) /\ Len(ops') = Len(ops) /\ Len(ops) \in Nat
    BY <1>36, OpsInLemma DEF TypeOK, Statuses, CurrentIn, RecvAborts,
       SetOpError
  <2>2. timed' \in BOOLEAN
    BY <1>36 DEF NoCurrent, RecvAborts, SetOpError
  <2>3. eraseId' \in Nat /\ sendPc' \in SendPcs
    BY <1>36, FieldsLemma DEF TypeOK, RecvAborts, AfterNotifyOp, SendPcs
  <2> QED
    BY <1>36, <2>1, <2>2, <2>3 DEF TypeOK, RecvAborts, SetOpError, RecvFrame,
       NoCurrent, AfterNotifyResp, appVars
<1>37. CASE EraseReq
  <2>1. voiceReqs' \in VoiceStreams
    BY <1>37, VoiceLemma DEF TypeOK, EraseReq
  <2> QED
    BY <1>37, <2>1 DEF TypeOK, EraseReq, RecvFrame, AfterNotifyReq, SendPcs,
       opVars, appVars
<1>38. CASE RecvQuit
  BY <1>38 DEF TypeOK, RecvQuit, RecvFrame, opVars, appVars
<1>39. CASE PollCall
  BY <1>39 DEF TypeOK, PollCall, PollFrame, appVars, sendVars
<1>40. CASE PollReturnsFalse
  BY <1>40 DEF TypeOK, PollReturnsFalse, PollFrame, appVars, sendVars
<1>41. CASE PollAborted
  <2>1. /\ Front.id \in Nat /\ Front.status \in {"CANCELLED", "ERROR"}
        /\ removed + 1 \in 0..Len(ops)
    BY <1>41, FieldsLemma DEF PollAborted
  <2>2. told' \in [Ids -> Seq(Results)]
    BY <1>41, <2>1, TellLemma DEF PollAborted
  <2>3. responses' \in ResponseStreams
    BY <1>41, ResponseLemma DEF TypeOK, PollAborted
  <2> QED
    BY <1>41, <2>1, <2>2, <2>3 DEF TypeOK, PollAborted, PollFrame, appVars,
       sendVars
<1>42. CASE PollResult
  <2>1. removed + 1 \in 0..Len(ops)
    BY <1>42, FieldsLemma DEF PollResult
  <2>2. told' \in [Ids -> Seq(Results)]
    BY <1>42, ResponseLemma, TellLemma DEF TypeOK, PollResult
  <2>3. responses' \in ResponseStreams
    BY <1>42, ResponseLemma DEF TypeOK, PollResult
  <2> QED
    BY <1>42, <2>1, <2>2, <2>3 DEF TypeOK, PollResult, PollFrame, appVars,
       sendVars
<1>43. CASE PollWaits
  BY <1>43 DEF TypeOK, PollWaits, PollFrame, appVars, sendVars
<1>44. CASE SpuriousWakeup
  BY <1>44 DEF TypeOK, SpuriousWakeup, SendPcs, opVars, appVars
<1>45. CASE UNCHANGED vars
  BY <1>45 DEF TypeOK, vars, opVars, appVars, sendVars
<1> QED
  BY <1>1, <1>2, <1>3, <1>4, <1>5, <1>6, <1>7, <1>8, <1>9, <1>10, <1>11,
     <1>12, <1>13, <1>14, <1>15, <1>16, <1>17, <1>18, <1>19, <1>20, <1>21,
     <1>22, <1>23, <1>24, <1>25, <1>26, <1>27, <1>28, <1>29, <1>30, <1>31,
     <1>32, <1>32u, <1>33, <1>34, <1>35, <1>36, <1>37, <1>38, <1>39, <1>40,
     <1>41,
     <1>42, <1>43, <1>44, <1>45 DEF Next, LifecycleStep, AppStep, CancelStep,
     SendStep, RecvStep, PollStep, RecvTimeout, RecvBroken

\* The first state has the types.
LEMMA TypeInit ==
    ASSUME Init
    PROVE  TypeOK
<1>1. voiceReqs \in VoiceStreams /\ responses \in ResponseStreams
  BY DEF Init, VoiceStreams, ResponseStreams, Queues
<1>2. req \in Requests
  BY DEF Init, NoReq, Requests, ReqTypes
<1>3. ops \in Seq(Operations) /\ Len(ops) = 0 /\ textReqs \in Seq(TextRequests)
  BY DEF Init
<1>4. told \in [Ids -> Seq(Results)]
  BY DEF Init
<1>5. wire \in [Ids -> {"none", "open", "ended"}]
  BY DEF Init
<1>6. initialized \in BOOLEAN /\ timed \in BOOLEAN
  BY DEF Init
<1>7. /\ sessions \in Nat /\ nextId \in 0..MaxId /\ cancels \subseteq 0..MaxId
      /\ removed \in 0..Len(ops) /\ cur \in 0..Len(ops)
      /\ opRef \in 0..Len(ops) /\ eraseId \in Nat
  BY <1>3, BoundsAssumption DEF Init
<1> QED
  BY <1>1, <1>2, <1>3, <1>4, <1>5, <1>6, <1>7 DEF Init, TypeOK, SendPcs

\* Every variable has its type in every state, whatever the bounds and the
\* choices of the environment.
THEOREM TypeCorrect == Spec => []TypeOK
<1>1. Init => TypeOK
  BY TypeInit
<1>2. TypeOK /\ [Next]_vars => TypeOK'
  BY TypeStep
<1> QED
  BY <1>1, <1>2, PTL DEF Spec

-----------------------------------------------------------------------------
\* Beyond the types.

\* The begun stream at the front of voice_reqs_ stays there.
FrontKept ==
    (voiceReqs # <<>> /\ voiceReqs[1].polling = 1) =>
        /\ voiceReqs' # <<>>
        /\ voiceReqs'[1].id = voiceReqs[1].id
        /\ voiceReqs'[1].polling = 1

\* The indices of the three queues.
LEMMA Indices ==
    ASSUME TypeOK
    PROVE  /\ Len(ops) \in Nat /\ DOMAIN ops = 1..Len(ops)
           /\ Len(voiceReqs) \in Nat /\ DOMAIN voiceReqs = 1..Len(voiceReqs)
           /\ Len(textReqs) \in Nat /\ DOMAIN textReqs = 1..Len(textReqs)
           /\ cur \in 0..Len(ops) /\ opRef \in 0..Len(ops)
           /\ voiceReqs = <<>> <=> Len(voiceReqs) = 0
           /\ textReqs = <<>> <=> Len(textReqs) = 0
           /\ \A i \in 1..Len(voiceReqs) : voiceReqs[i].polling \in {0, 1}
<1>1. voiceReqs \in Seq(Streams(Nat, {"voice"}))
  BY DEF TypeOK, VoiceStreams, Queues
<1>2. \A i \in 1..Len(voiceReqs) : voiceReqs[i].polling \in {0, 1}
  <2>1. \A i \in 1..Len(voiceReqs) : voiceReqs[i] \in Streams(Nat, {"voice"})
    BY <1>1
  <2> QED
    BY <2>1 DEF Streams
<1>3. /\ Len(voiceReqs) \in Nat /\ DOMAIN voiceReqs = 1..Len(voiceReqs)
      /\ voiceReqs = <<>> <=> Len(voiceReqs) = 0
  BY <1>1
<1>4. /\ Len(textReqs) \in Nat /\ DOMAIN textReqs = 1..Len(textReqs)
      /\ textReqs = <<>> <=> Len(textReqs) = 0
  BY DEF TypeOK
<1>5. /\ Len(ops) \in Nat /\ DOMAIN ops = 1..Len(ops)
      /\ cur \in 0..Len(ops) /\ opRef \in 0..Len(ops)
  BY DEF TypeOK
<1> QED
  BY <1>2, <1>3, <1>4, <1>5

LEMMA IndicesNext ==
    ASSUME TypeOK'
    PROVE  /\ Len(ops') \in Nat /\ DOMAIN ops' = 1..Len(ops')
           /\ Len(voiceReqs') \in Nat /\ DOMAIN voiceReqs' = 1..Len(voiceReqs')
           /\ Len(textReqs') \in Nat /\ DOMAIN textReqs' = 1..Len(textReqs')
           /\ voiceReqs' = <<>> <=> Len(voiceReqs') = 0
           /\ textReqs' = <<>> <=> Len(textReqs') = 0
<1>1. voiceReqs' \in Seq(Streams(Nat, {"voice"}))
  BY DEF TypeOK, VoiceStreams, Queues
<1> QED
  BY <1>1 DEF TypeOK

\* Steps that leave tags and ids in place keep the requests apart.
LEMMA QueueFrame ==
    ASSUME TypeOK, TypeOK', IdsKnown, IdsApart, NotBegun,
           SameTags(voiceReqs, voiceReqs'), SameIds(textReqs, textReqs'),
           SameIds(ops, ops'), nextId' = nextId,
           InHand' => InHand /\ req' = req
    PROVE  IdsKnown' /\ IdsApart' /\ NotBegun'
<1> USE Indices, IndicesNext
<1>1. IdsKnown'
  BY DEF IdsKnown, SameTags, SameIds
<1>2. IdsApart'
  <2>1. /\ Len(voiceReqs') = Len(voiceReqs) /\ Len(textReqs') = Len(textReqs)
        /\ \A i \in 1..Len(voiceReqs) :
              /\ voiceReqs'[i].id = voiceReqs[i].id
              /\ voiceReqs'[i].polling = voiceReqs[i].polling
        /\ \A i \in 1..Len(textReqs) : textReqs'[i].id = textReqs[i].id
    BY DEF SameTags, SameIds
  <2>2. DistinctIds(voiceReqs')
    BY <2>1 DEF IdsApart, DistinctIds
  <2>3. \A i \in DOMAIN textReqs', j \in DOMAIN textReqs' :
            textReqs'[i].id = textReqs'[j].id => i = j
    BY <2>1 DEF IdsApart
  <2>4. \A i \in DOMAIN voiceReqs', j \in DOMAIN textReqs' :
            voiceReqs'[i].id # textReqs'[j].id
    BY <2>1 DEF IdsApart
  <2>5. InHand' =>
            /\ \A j \in DOMAIN textReqs' : textReqs'[j].id # req'.id
            /\ \A i \in DOMAIN voiceReqs' :
                  voiceReqs'[i].id = req'.id => voiceReqs'[i].polling = 1
    BY <2>1 DEF IdsApart
  <2> QED
    BY <2>2, <2>3, <2>4, <2>5 DEF IdsApart
<1>3. NotBegun'
  <2>1. /\ Len(voiceReqs') = Len(voiceReqs) /\ Len(textReqs') = Len(textReqs)
        /\ \A i \in 1..Len(voiceReqs) :
              /\ voiceReqs'[i].id = voiceReqs[i].id
              /\ voiceReqs'[i].polling = voiceReqs[i].polling
        /\ \A i \in 1..Len(textReqs) : textReqs'[i].id = textReqs[i].id
    BY DEF SameTags, SameIds
  <2>2. \A id : Unsent(id) => \A k \in DOMAIN ops' : ops'[k].id # id
    BY DEF SameIds, Unsent
  <2>3. \A i \in DOMAIN voiceReqs' : voiceReqs'[i].polling = 0 =>
            \A k \in DOMAIN ops' : ops'[k].id # voiceReqs'[i].id
    BY <2>1, <2>2 DEF NotBegun
  <2>4. \A i \in DOMAIN textReqs' :
            \A k \in DOMAIN ops' : ops'[k].id # textReqs'[i].id
    BY <2>1, <2>2 DEF NotBegun
  <2>5. (InHand /\ Starts)' => \A k \in DOMAIN ops' : ops'[k].id # req'.id
    BY <2>2 DEF NotBegun, Starts
  <2> QED
    BY <2>3, <2>4, <2>5 DEF NotBegun, Unsent
<1> QED
  BY <1>1, <1>2, <1>3

\* Operations end, and the current one, if there is one, is among them.
LEMMA OpsEnd ==
    ASSUME TypeOK, TypeOK', OnlyCurrentIsLive, NEW status \in Terminal,
           NEW which, cur # 0 => cur \in which,
           ops' = OpsIn(which, status), cur' = 0
    PROVE  OnlyCurrentIsLive' /\ CurrentIsNewest' /\ SameIds(ops, ops')
<1>1. /\ Len(ops') = Len(ops)
      /\ \A i \in 1..Len(ops) :
            /\ ops'[i].id = ops[i].id
            /\ ops'[i].status = IF i \in which THEN status ELSE ops[i].status
  <2>1. status \in Statuses /\ ops \in Seq(Operations)
    BY DEF Terminal, Statuses, TypeOK
  <2> QED
    BY <2>1, OpsInLemma
<1>2. OnlyCurrentIsLive'
  BY <1>1, Indices, IndicesNext DEF OnlyCurrentIsLive
<1> QED
  BY <1>1, <1>2 DEF CurrentIsNewest, SameIds

\* Operations and current operation are untouched.
LEMMA OpsKept ==
    ASSUME TypeOK, OnlyCurrentIsLive, CurrentIsNewest, UNCHANGED <<ops, cur>>
    PROVE  OnlyCurrentIsLive' /\ CurrentIsNewest' /\ SameIds(ops, ops')
  BY Indices DEF OnlyCurrentIsLive, CurrentIsNewest, SameIds

\* cancel_op() ends the current operation if it marks it: it is the only one
\* of its id, so no other can be taken for it.
LEMMA OpsCancelled ==
    ASSUME TypeOK, TypeOK', OnlyCurrentIsLive, CurrentIsNewest, NEW id,
           CancelOp(id)
    PROVE  /\ OnlyCurrentIsLive' /\ CurrentIsNewest' /\ SameIds(ops, ops')
           /\ cur' = IF CancelsCurrent(id) THEN 0 ELSE cur
<1>1. ops' = OpsIn(Matching(id), "CANCELLED")
      /\ cur' = IF CancelsCurrent(id) THEN 0 ELSE cur
  BY DEF CancelOp
<1>2. /\ Len(ops') = Len(ops)
      /\ \A i \in 1..Len(ops) :
            /\ ops'[i].id = ops[i].id
            /\ ops'[i].status = IF i \in Matching(id) THEN "CANCELLED"
                                ELSE ops[i].status
  <2>1. "CANCELLED" \in Statuses /\ ops \in Seq(Operations)
    BY DEF Statuses, TypeOK
  <2> QED
    BY <1>1, <2>1, OpsInLemma
<1>3. Matching(id) \subseteq 1..Len(ops)
  BY Indices DEF Matching
<1>4. (cur # 0 /\ ~CancelsCurrent(id)) => cur \notin Matching(id)
  BY DEF CancelsCurrent
<1>5. OnlyCurrentIsLive'
  <2>1. ASSUME NEW i \in 1..Len(ops), ops'[i].status \notin Terminal
        PROVE  i = cur'
    <3>1. i \notin Matching(id) /\ i = cur
      BY <1>2, <2>1 DEF OnlyCurrentIsLive, Terminal
    <3>2. ~CancelsCurrent(id)
      <4>1. ASSUME NEW k \in Matching(id), ops[k].id = ops[cur].id PROVE FALSE
        <5>1. cur \in 1..Len(ops) /\ cur # 0 /\ cur = Len(ops)
          <6>1. cur \in 1..Len(ops) /\ cur # 0
            BY <3>1, Indices
          <6> QED
            BY <6>1 DEF OnlyCurrentIsLive
        <5>2. k # cur /\ k \in 1..Len(ops)
          BY <1>3, <3>1, <4>1
        <5>3. k \in 1..(cur - 1)
          BY <5>1, <5>2, Indices
        <5>4. ops[k].id # ops[cur].id
          BY <5>1, <5>3 DEF CurrentIsNewest
        <5> QED
          BY <4>1, <5>4
      <4> QED
        BY <4>1 DEF CancelsCurrent
    <3> QED
      BY <1>1, <3>1, <3>2
  <2>2. cur' # 0 => cur' = Len(ops') /\ ops'[cur'].status \notin Terminal
    BY <1>1, <1>2, <1>4, Indices DEF OnlyCurrentIsLive
  <2> QED
    BY <1>2, <2>1, <2>2, Indices, IndicesNext DEF OnlyCurrentIsLive
<1>6. SameIds(ops, ops')
  BY <1>2 DEF SameIds
<1>7. CurrentIsNewest'
  <2>1. cur' # 0 => cur' = cur /\ cur \in 1..Len(ops)
    BY <1>1, Indices
  <2> QED
    BY <1>2, <2>1, Indices DEF CurrentIsNewest
<1> QED
  BY <1>1, <1>5, <1>6, <1>7

\* A step of another thread: send_reqs is left where it is, or woken.
LEMMA SenderFrame ==
    ASSUME TypeOK, TypeOK', SenderFollows, ReadOpIsOwn,
           FrontKept \/ ~initialized', SameIds(ops, ops'), cur' \in {0, cur},
           UNCHANGED <<req, opRef>>, initialized' => initialized,
           \/ sendPc' = sendPc
           \/ /\ sendPc' = "top"
              /\ cur' = 0 \/ sendPc \in {"waitreq", "lostreq"}
    PROVE  SenderFollows' /\ ReadOpIsOwn'
<1> USE Indices, IndicesNext
<1>1. (cur' # 0 /\ FrontIsCurrent) => FrontIsCurrent'
  BY DEF FrontIsCurrent, FrontKept, SameIds
<1>2. SenderFollows'
  <2> SUFFICES ASSUME cur' # 0 PROVE SenderFollows'
    BY DEF SenderFollows
  <2>1. cur' = cur /\ ops'[cur'].id = ops[cur].id
    BY DEF SameIds
  <2>2. \/ sendPc' = sendPc
        \/ sendPc' = "top" /\ sendPc \in {"waitreq", "lostreq"}
    OBVIOUS
  <2> QED
    BY <1>1, <2>1, <2>2 DEF SenderFollows, InHand, Starts
<1>3. ReadOpIsOwn'
  BY DEF ReadOpIsOwn, SameIds, Starts
<1> QED
  BY <1>2, <1>3

\* A step that makes no request, operation or stream, and ends or keeps the
\* current operation.
LEMMA OtherStep ==
    ASSUME IInv, TypeOK', OneSession', OnlyCurrentIsLive', CurrentIsNewest',
           SameTags(voiceReqs, voiceReqs'), SameIds(textReqs, textReqs'),
           SameIds(ops, ops'), UNCHANGED <<nextId, req, opRef>>,
           cur' \in {0, cur}, initialized' => initialized,
           \/ sendPc' = sendPc
           \/ /\ sendPc' = "top"
              /\ cur' = 0 \/ sendPc \in {"waitreq", "lostreq"},
           /\ sendPc' \in {"block", "waitop", "lostop"}
           /\ relPc' \in {"up", "seterror", "writeerror"}
           => cur' = cur /\ relPc \in {"up", "seterror", "writeerror"}
    PROVE  IInv'
<1>1. InHand' => InHand /\ req' = req
  BY DEF InHand
<1>2. IdsKnown' /\ IdsApart' /\ NotBegun'
  BY <1>1, QueueFrame DEF IInv
<1>3. FrontKept
  BY Indices, IndicesNext DEF IInv, FrontKept, SameTags
<1>4. SenderFollows' /\ ReadOpIsOwn'
  BY <1>3, SenderFrame DEF IInv
<1>5. SleepsUntilError'
  <2>1. SleepsUntilError
    BY DEF IInv
  <2>2. cur # 0 => ops'[cur].id = ops[cur].id
    BY Indices DEF IInv, SameIds
  <2> QED
    BY <2>1, <2>2 DEF SleepsUntilError, SleepsForOwnOp
<1>6. StartedIsFront'
  BY <1>1, <1>3 DEF IInv, StartedIsFront, FrontKept
<1> QED
  BY <1>2, <1>4, <1>5, <1>6 DEF IInv

\* A step that touches none of this but a wakeup on req_cond_.
LEMMA IdleStep ==
    ASSUME IInv, TypeOK', OneSession',
           UNCHANGED <<voiceReqs, textReqs, ops, cur, nextId, req, opRef>>,
           initialized' => initialized,
           \/ sendPc' = sendPc
           \/ sendPc' = "top" /\ sendPc \in {"waitreq", "lostreq"},
           relPc' \in {"up", "seterror", "writeerror"} =>
                relPc \in {"up", "seterror", "writeerror"}
    PROVE  IInv'
<1>1. SameTags(voiceReqs, voiceReqs') /\ SameIds(textReqs, textReqs')
  BY DEF SameTags, SameIds
<1>2. OnlyCurrentIsLive' /\ CurrentIsNewest' /\ SameIds(ops, ops')
  BY OpsKept DEF IInv
<1> QED
  BY <1>1, <1>2, OtherStep

\* The operations of voice_reqs_ that keep its tags.
LEMMA VoiceTags ==
    ASSUME TypeOK
    PROVE  /\ SameTags(voiceReqs, voiceReqs)
           /\ \A id \in Nat :
                SameTags(voiceReqs, Stream(voiceReqs, id, "voice"))
           /\ \A id \in Nat : SameTags(voiceReqs, End(voiceReqs, id))
           /\ \A id : \A type \in {"deleted", "error"} :
                SameTags(voiceReqs, Erase(voiceReqs, id, type))
           /\ SameTags(voiceReqs, Clear(voiceReqs))
<1> DEFINE D == {"voice"}
<1>1. voiceReqs \in Queues(Nat, D) /\ "voice" \in D
  BY DEF TypeOK, VoiceStreams
<1> HIDE DEF D
<1>2. SameTags(voiceReqs, voiceReqs)
  BY DEF SameTags
<1>3. \A id \in Nat : SameTags(voiceReqs, Stream(voiceReqs, id, "voice"))
  BY <1>1, StreamLemma
<1>4. \A id \in Nat : SameTags(voiceReqs, End(voiceReqs, id))
  BY <1>1, EndLemma
<1>5. \A id : \A type \in {"deleted", "error"} :
        SameTags(voiceReqs, Erase(voiceReqs, id, type))
  BY <1>1, EraseLemma
<1>6. SameTags(voiceReqs, Clear(voiceReqs))
  BY <1>1, ClearLemma
<1> QED
  BY <1>2, <1>3, <1>4, <1>5, <1>6

\* The text requests keep their ids when some are cancelled.
LEMMA TextIds ==
    ASSUME TypeOK
    PROVE  /\ SameIds(textReqs, textReqs)
           /\ \A id : SameIds(textReqs, TextCancelled(id))
  BY TextCancelledLemma DEF TypeOK, SameIds

\* The other threads, but for the steps that make or drop requests.
LEMMA OtherThreads ==
    ASSUME IInv, TypeOK', SingleSession,
           \/ ReleaseTestOp \/ ReleaseSetOpError \/ ReleaseResponses
           \/ ReleaseReturns \/ CancelStep \/ RecvStep \/ PollStep
           \/ SpuriousWakeup
           \/ \E id \in 1..nextId : PutVoice(id) \/ EndVoice(id)
    PROVE  IInv'
<1> USE DEF opVars, appVars, sendVars
<1>0. TypeOK /\ OnlyCurrentIsLive /\ CurrentIsNewest /\ OneSession
  BY DEF IInv
<1>1. CASE ReleaseTestOp
  <2>1. OneSession'
    BY <1>0, <1>1 DEF OneSession, ReleaseTestOp
  <2> QED
    BY <1>1, <2>1, IdleStep DEF ReleaseTestOp
<1>2. CASE ReleaseReturns
  <2>1. OneSession'
    BY <1>0, <1>2 DEF OneSession, ReleaseReturns
  <2> QED
    BY <1>2, <2>1, IdleStep DEF ReleaseReturns
<1>3. ASSUME NEW id \in Ids, RecvStale(id)
      PROVE  IInv'
  <2>1. OneSession'
    BY <1>0, <1>3 DEF OneSession, RecvStale, RecvFrame, RefreshOpTime,
       Receives
  <2> QED
    BY <1>3, <2>1, IdleStep DEF RecvStale, RecvFrame, RefreshOpTime, Receives
<1>4. CASE RecvIgnored
  <2>1. OneSession'
    BY <1>0, <1>4 DEF OneSession, RecvIgnored, RecvFrame
  <2> QED
    BY <1>4, <2>1, IdleStep DEF RecvIgnored, RecvFrame
<1>5. CASE RecvQuit
  <2>1. OneSession'
    BY <1>0, <1>5 DEF OneSession, RecvQuit, RecvFrame
  <2> QED
    BY <1>5, <2>1, IdleStep DEF RecvQuit, RecvFrame
<1>6. CASE PollCall
  <2>1. OneSession'
    BY <1>0, <1>6 DEF OneSession, PollCall, PollFrame
  <2> QED
    BY <1>6, <2>1, IdleStep DEF PollCall, PollFrame
<1>7. CASE PollReturnsFalse
  <2>1. OneSession'
    BY <1>0, <1>7 DEF OneSession, PollReturnsFalse, PollFrame
  <2> QED
    BY <1>7, <2>1, IdleStep DEF PollReturnsFalse, PollFrame
<1>8. CASE PollAborted
  <2>1. OneSession'
    BY <1>0, <1>8 DEF OneSession, PollAborted, PollFrame
  <2> QED
    BY <1>8, <2>1, IdleStep DEF PollAborted, PollFrame
<1>9. CASE PollResult
  <2>1. OneSession'
    BY <1>0, <1>9 DEF OneSession, PollResult, PollFrame
  <2> QED
    BY <1>9, <2>1, IdleStep DEF PollResult, PollFrame
<1>10. CASE PollWaits
  <2>1. OneSession'
    BY <1>0, <1>10 DEF OneSession, PollWaits, PollFrame
  <2> QED
    BY <1>10, <2>1, IdleStep DEF PollWaits, PollFrame
<1>11. CASE SpuriousWakeup
  <2>1. OneSession'
    BY <1>0, <1>11 DEF OneSession, SpuriousWakeup, SingleSession
  <2> QED
    BY <1>11, <2>1, IdleStep DEF SpuriousWakeup, SingleSession
<1>12. ASSUME NEW id \in 1..nextId, PutVoice(id)
      PROVE  IInv'
  <2>1. SameTags(voiceReqs, voiceReqs') /\ SameIds(textReqs, textReqs')
    BY <1>0, <1>12, VoiceTags, TextIds DEF PutVoice
  <2>2. OnlyCurrentIsLive' /\ CurrentIsNewest' /\ SameIds(ops, ops')
    BY <1>0, <1>12, OpsKept DEF PutVoice
  <2>3. OneSession'
    BY <1>0, <1>12 DEF OneSession, PutVoice, Enters, AfterNotifyReq
  <2> QED
    BY <1>12, <2>1, <2>2, <2>3, OtherStep DEF PutVoice, Enters, AfterNotifyReq
<1>13. ASSUME NEW id \in 1..nextId, EndVoice(id)
      PROVE  IInv'
  <2>1. SameTags(voiceReqs, voiceReqs') /\ SameIds(textReqs, textReqs')
    BY <1>0, <1>13, VoiceTags, TextIds DEF EndVoice
  <2>2. OnlyCurrentIsLive' /\ CurrentIsNewest' /\ SameIds(ops, ops')
    BY <1>0, <1>13, OpsKept DEF EndVoice
  <2>3. OneSession'
    BY <1>0, <1>13 DEF OneSession, EndVoice, Enters, AfterNotifyReq
  <2> QED
    BY <1>13, <2>1, <2>2, <2>3, OtherStep DEF EndVoice, Enters, AfterNotifyReq
<1>14. ASSUME NEW id \in 1..nextId, CancelQueued(id)
      PROVE  IInv'
  <2>1. SameTags(voiceReqs, voiceReqs') /\ SameIds(textReqs, textReqs')
    BY <1>0, <1>14, VoiceTags, TextIds DEF CancelQueued
  <2>2. OnlyCurrentIsLive' /\ CurrentIsNewest' /\ SameIds(ops, ops')
    BY <1>0, <1>14, OpsKept DEF CancelQueued
  <2>3. OneSession'
    BY <1>0, <1>14 DEF OneSession, CancelQueued, AfterNotifyReq
  <2> QED
    BY <1>14, <2>1, <2>2, <2>3, OtherStep DEF CancelQueued, AfterNotifyReq
<1>15. CASE CancelAllQueued
  <2>1. SameTags(voiceReqs, voiceReqs') /\ SameIds(textReqs, textReqs')
    BY <1>0, <1>15, VoiceTags, TextIds DEF CancelAllQueued
  <2>2. OnlyCurrentIsLive' /\ CurrentIsNewest' /\ SameIds(ops, ops')
    BY <1>0, <1>15, OpsKept DEF CancelAllQueued
  <2>3. OneSession'
    BY <1>0, <1>15 DEF OneSession, CancelAllQueued, AfterNotifyReq
  <2> QED
    BY <1>15, <2>1, <2>2, <2>3, OtherStep DEF CancelAllQueued, AfterNotifyReq
<1>16. CASE EraseReq
  <2>1. SameTags(voiceReqs, voiceReqs') /\ SameIds(textReqs, textReqs')
    BY <1>0, <1>16, VoiceTags, TextIds DEF EraseReq, RecvFrame
  <2>2. OnlyCurrentIsLive' /\ CurrentIsNewest' /\ SameIds(ops, ops')
    BY <1>0, <1>16, OpsKept DEF EraseReq
  <2>3. OneSession'
    BY <1>0, <1>16 DEF OneSession, EraseReq, RecvFrame, AfterNotifyReq
  <2> QED
    BY <1>16, <2>1, <2>2, <2>3, OtherStep DEF EraseReq, RecvFrame,
       AfterNotifyReq
<1>17. CASE ReleaseSetOpError
  <2>1. SameTags(voiceReqs, voiceReqs') /\ SameIds(textReqs, textReqs')
    BY <1>0, <1>17, VoiceTags, TextIds DEF ReleaseSetOpError
  <2>2. OnlyCurrentIsLive' /\ CurrentIsNewest' /\ SameIds(ops, ops')
    BY <1>0, <1>17, OpsEnd DEF ReleaseSetOpError, SetOpError, CurrentIn,
       NoCurrent, Terminal
  <2>3. OneSession'
    BY <1>0, <1>17 DEF OneSession, ReleaseSetOpError, SetOpError, NoCurrent,
       AfterNotifyOp
  <2> QED
    BY <1>17, <2>1, <2>2, <2>3, OtherStep DEF ReleaseSetOpError, SetOpError,
       NoCurrent, AfterNotifyOp
<1>18. ASSUME NEW id \in Ids, NEW t \in RespTypes, RecvLast(id, t)
      PROVE  IInv'
  <2>1. SameTags(voiceReqs, voiceReqs') /\ SameIds(textReqs, textReqs')
    BY <1>0, <1>18, VoiceTags, TextIds DEF RecvLast, RecvFrame
  <2>2. OnlyCurrentIsLive' /\ CurrentIsNewest' /\ SameIds(ops, ops')
    BY <1>0, <1>18, OpsEnd DEF RecvLast, CurrentIn, NoCurrent, Terminal
  <2>3. OneSession'
    BY <1>0, <1>18 DEF OneSession, RecvLast, RecvFrame, Receives, RespFree,
       NoCurrent, AfterNotifyOp
  <2> QED
    BY <1>18, <2>1, <2>2, <2>3, OtherStep DEF RecvLast, RecvFrame, Receives,
       RespFree, NoCurrent, AfterNotifyOp
<1>19. CASE (recvPc = "recv" \/ Receives) /\ RecvAborts
  <2>1. SameTags(voiceReqs, voiceReqs') /\ SameIds(textReqs, textReqs')
    BY <1>0, <1>19, VoiceTags, TextIds DEF RecvAborts, RecvFrame
  <2>2. OnlyCurrentIsLive' /\ CurrentIsNewest' /\ SameIds(ops, ops')
    BY <1>0, <1>19, OpsEnd DEF RecvAborts, SetOpError, CurrentIn, NoCurrent,
       Terminal
  <2>3. OneSession'
    BY <1>0, <1>19 DEF OneSession, RecvAborts, SetOpError, RecvFrame,
       Receives, RespFree, NoCurrent, AfterNotifyOp
  <2> QED
    BY <1>19, <2>1, <2>2, <2>3, OtherStep DEF RecvAborts, SetOpError,
       RecvFrame, Receives, RespFree, NoCurrent, AfterNotifyOp
<1>20. CASE ReleaseResponses
  <2>1. SameTags(voiceReqs, voiceReqs') /\ SameIds(textReqs, textReqs')
    BY <1>0, <1>20, VoiceTags, TextIds DEF ReleaseResponses
  <2>2. OnlyCurrentIsLive' /\ CurrentIsNewest' /\ SameIds(ops, ops')
    <3>1. ops' = OpsIn({cur}, "END") \/ (cur = 0 /\ ops' = ops)
      BY <1>0, <1>20 DEF ReleaseResponses, FinishOp, Finished, CurrentIn,
         OnlyCurrentIsLive, Terminal
    <3>2. cur' = 0
      BY <1>20 DEF ReleaseResponses, FinishOp, NoCurrent
    <3>3. CASE ops' = OpsIn({cur}, "END")
      BY <1>0, <3>2, <3>3, OpsEnd DEF Terminal
    <3>4. CASE cur = 0 /\ ops' = ops
      BY <1>0, <3>2, <3>4, OpsKept
    <3> QED
      BY <3>1, <3>3, <3>4
  <2>3. OneSession'
    BY <1>0, <1>20 DEF OneSession, ReleaseResponses, FinishOp, NoCurrent
  <2> QED
    BY <1>20, <2>1, <2>2, <2>3, OtherStep DEF ReleaseResponses, FinishOp,
       NoCurrent
<1>21. ASSUME NEW id \in Ids, NEW t \in RespTypes,
             RecvIntermediate(id, t) \/ RecvUnknown(id, t)
      PROVE  IInv'
  <2>1. SameTags(voiceReqs, voiceReqs') /\ SameIds(textReqs, textReqs')
    BY <1>0, <1>21, VoiceTags, TextIds DEF RecvIntermediate, RecvUnknown,
       RecvFrame
  <2>2. OnlyCurrentIsLive' /\ CurrentIsNewest' /\ SameIds(ops, ops')
    <3> DEFINE current == {cur}
    <3>1. ops \in Seq(Operations) /\ "STREAMING" \in Statuses /\ cur # 0
      BY <1>0, <1>21 DEF TypeOK, Statuses, RecvIntermediate, RecvUnknown
    <3>2. ops' = OpsIn(current, "STREAMING") /\ cur' = cur
      BY <1>21 DEF RecvIntermediate, RecvUnknown, CurrentIn
    <3>3. \A i : i \in current <=> i = cur
      OBVIOUS
    <3> HIDE DEF current
    <3>4. /\ Len(ops') = Len(ops)
          /\ \A i \in 1..Len(ops) :
                /\ ops'[i].id = ops[i].id
                /\ ops'[i].status = IF i = cur THEN "STREAMING"
                                    ELSE ops[i].status
      BY <3>1, <3>2, <3>3, OpsInLemma
    <3>5. OnlyCurrentIsLive'
      <4>1. cur = Len(ops) /\ cur \in 1..Len(ops)
        BY <1>0, <3>1, Indices DEF OnlyCurrentIsLive
      <4>2. ops'[cur].status \notin Terminal
        BY <3>4, <4>1 DEF Terminal
      <4>3. \A i \in 1..Len(ops) : ops'[i].status \notin Terminal => i = cur
        BY <1>0, <3>4, Indices DEF OnlyCurrentIsLive
      <4> QED
        BY <3>2, <3>4, <4>1, <4>2, <4>3, Indices, IndicesNext
        DEF OnlyCurrentIsLive
    <3>6. CurrentIsNewest' /\ SameIds(ops, ops')
      BY <1>0, <3>2, <3>4, Indices DEF CurrentIsNewest, SameIds
    <3> QED
      BY <3>5, <3>6
  <2>3. OneSession'
    BY <1>0, <1>21 DEF OneSession, RecvIntermediate, RecvUnknown, RecvFrame,
       Receives, RespFree
  <2> QED
    BY <1>21, <2>1, <2>2, <2>3, OtherStep DEF RecvIntermediate, RecvUnknown,
       RecvFrame, Receives, RespFree
<1>22. ASSUME NEW id \in cancels, CancelOperations(id)
      PROVE  IInv'
  <2>1. SameTags(voiceReqs, voiceReqs') /\ SameIds(textReqs, textReqs')
    BY <1>0, <1>22, VoiceTags, TextIds DEF CancelOperations
  <2>2. /\ OnlyCurrentIsLive' /\ CurrentIsNewest' /\ SameIds(ops, ops')
        /\ cur' = IF CancelsCurrent(id) THEN 0 ELSE cur
    BY <1>0, <1>22, OpsCancelled DEF CancelOperations
  <2>3. OneSession'
    BY <1>0, <1>22 DEF OneSession, CancelOperations, AfterNotifyOp
  <2> QED
    BY <1>22, <2>1, <2>2, <2>3, OtherStep DEF CancelOperations, RespFree,
       AfterNotifyOp
<1> QED
  BY <1>1, <1>2, <1>3, <1>4, <1>5, <1>6, <1>7, <1>8, <1>9, <1>10, <1>11,
     <1>12, <1>13, <1>14, <1>15, <1>16, <1>17, <1>18, <1>19, <1>20, <1>21,
     <1>22 DEF CancelStep, RecvStep, PollStep, RecvTimeout, RecvBroken

\* prepare(): the only session starts with nothing.
LEMMA PrepareStep ==
    ASSUME IInv, TypeOK', SingleSession, Prepare
    PROVE  IInv'
<1> USE DEF opVars, appVars, sendVars
<1>1. /\ sessions = 0 /\ sessions' = 1 /\ relPc' = "up" /\ cur' = 0 /\ cur = 0
      /\ voiceReqs' = <<>> /\ textReqs' = <<>> /\ ops' = <<>>
      /\ sendPc' = "top" /\ ops = <<>>
  <2>1. sessions \in Nat /\ MaxSessions \in Nat /\ OneSession
    BY BoundsAssumption DEF IInv, TypeOK
  <2>2. sessions = 0
    BY <2>1 DEF Prepare, SingleSession
  <2> QED
    BY <2>1, <2>2 DEF Prepare, OneSession
<1>2. OnlyCurrentIsLive' /\ CurrentIsNewest'
  BY <1>1 DEF OnlyCurrentIsLive, CurrentIsNewest
<1>3. IdsKnown' /\ IdsApart' /\ NotBegun'
  BY <1>1 DEF IdsKnown, IdsApart, DistinctIds, NotBegun, InHand
<1>4. StartedIsFront' /\ SenderFollows' /\ ReadOpIsOwn' /\ SleepsUntilError'
  BY <1>1 DEF StartedIsFront, InHand, SenderFollows, ReadOpIsOwn,
     SleepsUntilError, SleepsForOwnOp
<1>5. OneSession'
  BY <1>1 DEF OneSession
<1> QED
  BY <1>2, <1>3, <1>4, <1>5 DEF IInv

\* release(): the requests are dropped and the threads told.
LEMMA ReleaseStep ==
    ASSUME IInv, TypeOK', ReleaseRequests
    PROVE  IInv'
<1> USE DEF opVars, appVars, sendVars
<1>0. /\ TypeOK /\ OnlyCurrentIsLive /\ CurrentIsNewest /\ OneSession
      /\ IdsKnown /\ NotBegun /\ SenderFollows /\ ReadOpIsOwn
      /\ SleepsUntilError
  BY DEF IInv
<1>1. /\ voiceReqs' = <<>> /\ textReqs' = <<>> /\ initialized' = FALSE
      /\ relPc = "up" /\ relPc' = "seterror"
      /\ \/ sendPc' = sendPc
         \/ sendPc' = "top" /\ sendPc \in {"waitreq", "lostreq"}
      /\ UNCHANGED <<ops, cur, req, opRef, nextId>>
  BY DEF ReleaseRequests, AfterNotifyReq
<1>2. OnlyCurrentIsLive' /\ CurrentIsNewest' /\ SameIds(ops, ops')
  BY <1>0, <1>1, OpsKept
<1>3. IdsKnown' /\ IdsApart' /\ NotBegun'
  BY <1>0, <1>1 DEF IdsKnown, IdsApart, DistinctIds, NotBegun, InHand, Unsent,
     Starts
<1>4. SenderFollows' /\ ReadOpIsOwn'
  BY <1>0, <1>1, <1>2, SenderFrame
<1>5. StartedIsFront' /\ SleepsUntilError'
  BY <1>0, <1>1 DEF StartedIsFront, SleepsUntilError, SleepsForOwnOp
<1>6. OneSession'
  BY <1>0 DEF ReleaseRequests, OneSession, TypeOK, AfterNotifyReq
<1> QED
  BY <1>2, <1>3, <1>4, <1>5, <1>6 DEF IInv

\* start_voice() and put_text() add a request with an id nothing has.
LEMMA NewRequestStep ==
    ASSUME IInv, TypeOK', StartVoice \/ PutText
    PROVE  IInv'
<1> USE DEF opVars, appVars, sendVars
<1> DEFINE new == nextId + 1
<1>0. /\ TypeOK /\ OnlyCurrentIsLive /\ CurrentIsNewest /\ OneSession
      /\ IdsKnown /\ IdsApart /\ NotBegun /\ SenderFollows /\ ReadOpIsOwn
      /\ SleepsUntilError /\ StartedIsFront
  BY DEF IInv
<1>1. /\ nextId' = new /\ nextId \in Nat
      /\ \/ sendPc' = sendPc
         \/ sendPc' = "top" /\ sendPc \in {"waitreq", "lostreq"}
      /\ UNCHANGED <<ops, cur, req, opRef, initialized, relPc, sessions>>
  BY <1>0 DEF StartVoice, PutText, AfterNotifyReq, TypeOK
<1>2. OnlyCurrentIsLive' /\ CurrentIsNewest' /\ SameIds(ops, ops')
  BY <1>0, <1>1, OpsKept
<1>3. /\ Len(voiceReqs') >= Len(voiceReqs)
      /\ \A i \in 1..Len(voiceReqs) : voiceReqs'[i] = voiceReqs[i]
      /\ \A i \in 1..Len(voiceReqs') :
            \/ i \in 1..Len(voiceReqs)
            \/ /\ i = Len(voiceReqs) + 1 /\ textReqs' = textReqs
               /\ voiceReqs'[i].id = new /\ voiceReqs'[i].polling = 0
  <2>1. CASE StartVoice
    <3> DEFINE D == {"voice"}
    <3>1. voiceReqs \in Queues(Nat, D) /\ new \in Nat
      BY <1>0, <1>1 DEF TypeOK, VoiceStreams
    <3>2. voiceReqs' = Start(voiceReqs, new) /\ textReqs' = textReqs
      BY <2>1 DEF StartVoice
    <3>3. Len(voiceReqs) \in Nat
      BY <1>0, Indices
    <3> HIDE DEF D, new
    <3>4. /\ Len(voiceReqs') \in {Len(voiceReqs), Len(voiceReqs) + 1}
          /\ \A i \in 1..Len(voiceReqs) : voiceReqs'[i] = voiceReqs[i]
          /\ Len(voiceReqs') = Len(voiceReqs) + 1 =>
                /\ voiceReqs'[Len(voiceReqs) + 1].id = new
                /\ voiceReqs'[Len(voiceReqs) + 1].polling = 0
      BY <3>1, <3>2, StartLemma
    <3> QED
      BY <3>2, <3>3, <3>4
  <2>2. CASE PutText
    <3>1. voiceReqs' = voiceReqs /\ Len(voiceReqs) \in Nat
      BY <1>0, <2>2, Indices DEF PutText
    <3> QED
      BY <3>1
  <2> QED
    BY <2>1, <2>2
<1>4. /\ \A i \in 1..Len(textReqs) : textReqs'[i] = textReqs[i]
      /\ \A i \in 1..Len(textReqs') :
            \/ i \in 1..Len(textReqs)
            \/ /\ i = Len(textReqs) + 1 /\ voiceReqs' = voiceReqs
               /\ textReqs'[i].id = new
  <2>1. CASE StartVoice
    BY <2>1 DEF StartVoice
  <2>2. CASE PutText
    <3> DEFINE r == [id |-> new, type |-> "TEXT"]
    <3>1. /\ textReqs' = Append(textReqs, r) /\ voiceReqs' = voiceReqs
          /\ r.id = new
      BY <2>2 DEF PutText
    <3>2. textReqs \in Seq(TextRequests) /\ r \in TextRequests
      BY <1>0, <1>1 DEF TypeOK, TextRequests
    <3> HIDE DEF r, new
    <3> QED
      BY <3>1, <3>2
  <2> QED
    BY <2>1, <2>2
<1> HIDE DEF new
<1>i. /\ DOMAIN voiceReqs = 1..Len(voiceReqs) /\ Len(voiceReqs) \in Nat
      /\ DOMAIN voiceReqs' = 1..Len(voiceReqs') /\ Len(voiceReqs') \in Nat
      /\ DOMAIN textReqs = 1..Len(textReqs) /\ Len(textReqs) \in Nat
      /\ DOMAIN textReqs' = 1..Len(textReqs') /\ Len(textReqs') \in Nat
      /\ DOMAIN ops = 1..Len(ops)
      /\ voiceReqs = <<>> <=> Len(voiceReqs) = 0
      /\ voiceReqs' = <<>> <=> Len(voiceReqs') = 0
  BY <1>0, Indices, IndicesNext
<1>k. IdsKnown /\ IdsApart /\ NotBegun
  BY <1>0
<1>5. /\ \A i \in 1..Len(voiceReqs) : voiceReqs[i].id # new
      /\ \A i \in 1..Len(textReqs) : textReqs[i].id # new
      /\ Unsent(new) /\ (InHand => req.id # new)
  <2>1. \A x \in 1..nextId : x # new
    BY <1>1 DEF new
  <2>2. /\ \A i \in 1..Len(voiceReqs) : voiceReqs[i].id \in 1..nextId
        /\ \A i \in 1..Len(textReqs) : textReqs[i].id \in 1..nextId
        /\ \A i \in DOMAIN ops : ops[i].id \in 1..nextId
        /\ InHand => req.id \in 1..nextId
    BY <1>i, <1>k DEF IdsKnown
  <2> QED
    BY <2>1, <2>2 DEF Unsent
<1>6. IdsKnown'
  <2>1. \A i \in 1..Len(voiceReqs') : voiceReqs'[i].id \in 1..new
    <3> SUFFICES ASSUME NEW i \in 1..Len(voiceReqs')
                 PROVE  voiceReqs'[i].id \in 1..new
      OBVIOUS
    <3>1. CASE i \in 1..Len(voiceReqs)
      <4>1. voiceReqs[i].id \in 1..nextId /\ voiceReqs'[i] = voiceReqs[i]
        BY <1>k, <1>3, <1>i, <3>1 DEF IdsKnown
      <4> QED
        BY <1>1, <4>1 DEF new
    <3>2. CASE voiceReqs'[i].id = new
      BY <1>1, <3>2 DEF new
    <3> QED
      BY <1>3, <3>1, <3>2
  <2>2. \A i \in 1..Len(textReqs') : textReqs'[i].id \in 1..new
    <3> SUFFICES ASSUME NEW i \in 1..Len(textReqs')
                 PROVE  textReqs'[i].id \in 1..new
      OBVIOUS
    <3>1. CASE i \in 1..Len(textReqs)
      <4>1. textReqs[i].id \in 1..nextId /\ textReqs'[i] = textReqs[i]
        BY <1>k, <1>4, <1>i, <3>1 DEF IdsKnown
      <4> QED
        BY <1>1, <4>1 DEF new
    <3>2. CASE textReqs'[i].id = new
      BY <1>1, <3>2 DEF new
    <3> QED
      BY <1>4, <3>1, <3>2
  <2>x. \A x \in 1..nextId : x \in 1..new
    BY <1>1 DEF new
  <2>3. \A i \in DOMAIN ops' : ops'[i].id \in 1..new
    <3>1. \A i \in DOMAIN ops : ops[i].id \in 1..nextId
      BY <1>k DEF IdsKnown
    <3> QED
      BY <1>1, <2>x, <3>1
  <2>4. InHand' => req'.id \in 1..new
    <3>1. InHand => req.id \in 1..nextId
      BY <1>k DEF IdsKnown
    <3> QED
      BY <1>1, <2>x, <3>1 DEF InHand
  <2> QED
    BY <1>1, <1>i, <2>1, <2>2, <2>3, <2>4 DEF IdsKnown
<1>7. IdsApart'
  <2>1. InHand' => InHand /\ req' = req
    BY <1>1 DEF InHand
  <2>2. DistinctIds(voiceReqs')
    BY <1>k, <1>3, <1>5, <1>i DEF IdsApart, DistinctIds
  <2>3. \A i \in DOMAIN textReqs', j \in DOMAIN textReqs' :
            textReqs'[i].id = textReqs'[j].id => i = j
    BY <1>k, <1>4, <1>5, <1>i DEF IdsApart
  <2>4. \A i \in DOMAIN voiceReqs', j \in DOMAIN textReqs' :
            voiceReqs'[i].id # textReqs'[j].id
    BY <1>k, <1>3, <1>4, <1>5, <1>i DEF IdsApart
  <2>5. InHand' => \A j \in DOMAIN textReqs' : textReqs'[j].id # req'.id
    BY <1>k, <1>4, <1>5, <2>1, <1>i DEF IdsApart
  <2>6. InHand' => \A i \in DOMAIN voiceReqs' :
                    voiceReqs'[i].id = req'.id => voiceReqs'[i].polling = 1
    BY <1>k, <1>3, <1>5, <2>1, <1>i DEF IdsApart
  <2> QED
    BY <2>2, <2>3, <2>4, <2>5, <2>6 DEF IdsApart
<1>8. NotBegun'
  <2>1. ops' = ops
    BY <1>1
  <2>2. \A i \in DOMAIN voiceReqs' :
            voiceReqs'[i].polling = 0 =>
                \A k \in DOMAIN ops' : ops'[k].id # voiceReqs'[i].id
    BY <1>k, <1>3, <1>5, <2>1, <1>i DEF NotBegun, Unsent
  <2>3. \A i \in DOMAIN textReqs' : \A k \in DOMAIN ops' :
            ops'[k].id # textReqs'[i].id
    BY <1>k, <1>4, <1>5, <2>1, <1>i DEF NotBegun, Unsent
  <2>4. (InHand /\ Starts)' => Unsent(req.id)'
    BY <1>k, <1>1 DEF NotBegun, InHand, Starts, Unsent
  <2> QED
    BY <2>1, <2>2, <2>3, <2>4 DEF NotBegun, Unsent
<1>9. FrontKept
  BY <1>3, <1>i DEF FrontKept
<1>10. SenderFollows' /\ ReadOpIsOwn'
  BY <1>0, <1>1, <1>2, <1>9, SenderFrame
<1>11. StartedIsFront' /\ SleepsUntilError'
  BY <1>0, <1>1, <1>9 DEF StartedIsFront, FrontKept, InHand, SleepsUntilError,
     SleepsForOwnOp
<1>12. OneSession'
  BY <1>0, <1>1 DEF OneSession, StartVoice, PutText, Enters
<1> QED
  BY <1>2, <1>6, <1>7, <1>8, <1>10, <1>11, <1>12 DEF IInv

\* A step of send_reqs is a step of the only session.
LEMMA SenderSession ==
    ASSUME OneSession, sendPc # "quit", UNCHANGED <<sessions, relPc>>
    PROVE  OneSession'
<1>1. relPc \notin {"down", "joinrecv"} /\ sessions = 1
  BY DEF OneSession
<1> QED
  BY <1>1 DEF OneSession

\* A step of send_reqs that touches neither requests nor operations.
LEMMA SenderQuiet ==
    ASSUME IInv, TypeOK', sendPc # "quit", SendFrame,
           UNCHANGED <<voiceReqs, textReqs, ops, cur>>,
           InHand' => InHand /\ req' = req,
           SenderFollows', ReadOpIsOwn', SleepsUntilError'
    PROVE  IInv'
<1>0. /\ TypeOK /\ OnlyCurrentIsLive /\ CurrentIsNewest /\ OneSession
      /\ IdsKnown /\ IdsApart /\ NotBegun /\ StartedIsFront
  BY DEF IInv
<1>1. /\ OnlyCurrentIsLive' /\ CurrentIsNewest' /\ SameIds(ops, ops')
  BY <1>0, OpsKept
<1>2. SameTags(voiceReqs, voiceReqs') /\ SameIds(textReqs, textReqs')
      /\ nextId' = nextId
  BY DEF SameTags, SameIds, SendFrame
<1>3. IdsKnown' /\ IdsApart' /\ NotBegun'
  BY <1>0, <1>1, <1>2, QueueFrame
<1>4. StartedIsFront'
  BY <1>0 DEF StartedIsFront, SendFrame
<1>5. OneSession'
  BY <1>0, SenderSession DEF SendFrame
<1> QED
  BY <1>1, <1>3, <1>4, <1>5 DEF IInv

\* The steps of send_reqs between requests and operations.
LEMMA SenderQuietStep ==
    ASSUME IInv, TypeOK',
           \/ SendQuit \/ SendNoVoice \/ SendPeekOp \/ SendTextMustWait
           \/ ControlReadOp \/ ControlContinue \/ ControlDrop \/ RequestSent
           \/ RequestFailed \/ RequestSetTime \/ WaitOpTest \/ WaitOpSleep
    PROVE  IInv'
<1> USE DEF opVars, appVars, sendVars
<1>0. /\ TypeOK /\ SenderFollows /\ ReadOpIsOwn /\ SleepsUntilError
      /\ OnlyCurrentIsLive
  BY DEF IInv
<1>1. CASE SendQuit
  <2>1. SenderFollows' /\ ReadOpIsOwn' /\ SleepsUntilError'
    BY <1>1 DEF SendQuit, SenderFollows, ReadOpIsOwn, SleepsUntilError,
       SleepsForOwnOp, InHand
  <2> QED
    BY <1>1, <2>1, SenderQuiet DEF SendQuit, InHand
<1>2. CASE SendNoVoice
  <2>1. FrontIsCurrent => FrontIsCurrent'
    BY <1>2 DEF SendNoVoice, SendFrame, FrontIsCurrent
  <2>2. SenderFollows' /\ ReadOpIsOwn' /\ SleepsUntilError'
    BY <1>0, <1>2, <2>1 DEF SendNoVoice, SenderFollows, ReadOpIsOwn,
       SleepsUntilError, SleepsForOwnOp, InHand
  <2> QED
    BY <1>2, <2>2, SenderQuiet DEF SendNoVoice, InHand
<1>3. CASE SendPeekOp
  <2>1. FrontIsCurrent => FrontIsCurrent'
    BY <1>3 DEF SendPeekOp, SendFrame, FrontIsCurrent
  <2>2. SenderFollows' /\ ReadOpIsOwn' /\ SleepsUntilError'
    BY <1>0, <1>3, <2>1 DEF SendPeekOp, SenderFollows, ReadOpIsOwn,
       SleepsUntilError, SleepsForOwnOp, InHand
  <2> QED
    BY <1>3, <2>2, SenderQuiet DEF SendPeekOp, InHand
<1>4. CASE SendTextMustWait
  <2>1. FrontIsCurrent => FrontIsCurrent'
    BY <1>4 DEF SendTextMustWait, SendFrame, FrontIsCurrent
  <2>2. SenderFollows' /\ ReadOpIsOwn' /\ SleepsUntilError'
    BY <1>0, <1>4, <2>1 DEF SendTextMustWait, SenderFollows, ReadOpIsOwn,
       SleepsUntilError, SleepsForOwnOp, InHand
  <2> QED
    BY <1>4, <2>2, SenderQuiet DEF SendTextMustWait, InHand
<1>5. CASE ControlReadOp
  <2>1. FrontIsCurrent => FrontIsCurrent'
    BY <1>5 DEF ControlReadOp, SendFrame, FrontIsCurrent
  <2>2. SenderFollows' /\ ReadOpIsOwn' /\ SleepsUntilError'
    BY <1>0, <1>5, <2>1 DEF ControlReadOp, SenderFollows, ReadOpIsOwn,
       SleepsUntilError, SleepsForOwnOp, InHand, Starts
  <2> QED
    BY <1>5, <2>2, SenderQuiet DEF ControlReadOp, InHand
<1>6. CASE ControlContinue
  <2>1. FrontIsCurrent => FrontIsCurrent'
    BY <1>6 DEF ControlContinue, SendFrame, FrontIsCurrent
  <2>2. SenderFollows' /\ ReadOpIsOwn' /\ SleepsUntilError'
    BY <1>0, <1>6, <2>1 DEF ControlContinue, SenderFollows, ReadOpIsOwn,
       SleepsUntilError, SleepsForOwnOp, InHand
  <2> QED
    BY <1>6, <2>2, SenderQuiet DEF ControlContinue, InHand
<1>7. CASE ControlDrop
  <2>1. cur = 0
    BY <1>0, <1>7 DEF ControlDrop, SenderFollows
  <2>2. SenderFollows' /\ ReadOpIsOwn' /\ SleepsUntilError'
    BY <1>7, <2>1 DEF ControlDrop, SenderFollows, ReadOpIsOwn,
       SleepsUntilError, SleepsForOwnOp
  <2> QED
    BY <1>7, <2>2, SenderQuiet DEF ControlDrop, InHand
<1>8. CASE RequestSent
  <2>1. FrontIsCurrent => FrontIsCurrent'
    BY <1>8 DEF RequestSent, SendFrame, FrontIsCurrent
  <2>2. SenderFollows' /\ ReadOpIsOwn' /\ SleepsUntilError'
    BY <1>0, <1>8, <2>1 DEF RequestSent, SenderFollows, ReadOpIsOwn,
       SleepsUntilError, SleepsForOwnOp, InHand
  <2> QED
    BY <1>8, <2>2, SenderQuiet DEF RequestSent, InHand
<1>9. CASE RequestFailed
  <2>1. FrontIsCurrent => FrontIsCurrent'
    BY <1>9 DEF RequestFailed, SendFrame, FrontIsCurrent
  <2>2. SenderFollows' /\ ReadOpIsOwn' /\ SleepsUntilError'
    BY <1>0, <1>9, <2>1 DEF RequestFailed, SenderFollows, ReadOpIsOwn,
       SleepsUntilError, SleepsForOwnOp, InHand
  <2> QED
    BY <1>9, <2>2, SenderQuiet DEF RequestFailed, InHand
<1>10. CASE RequestSetTime
  <2>1. FrontIsCurrent => FrontIsCurrent'
    BY <1>10 DEF RequestSetTime, RefreshOpTime, SendFrame, FrontIsCurrent
  <2>2. req.type \in ReqTypes
    BY <1>0, FieldsLemma
  <2>3. SenderFollows' /\ ReadOpIsOwn' /\ SleepsUntilError'
    BY <1>0, <1>10, <2>1, <2>2 DEF RequestSetTime, RefreshOpTime,
       SenderFollows, ReadOpIsOwn, SleepsUntilError, SleepsForOwnOp, InHand,
       ReqTypes
  <2> QED
    BY <1>10, <2>3, SenderQuiet DEF RequestSetTime, RefreshOpTime, InHand
<1>11. CASE WaitOpTest
  <2>1. SenderFollows' /\ ReadOpIsOwn' /\ SleepsUntilError'
    BY <1>0, <1>11 DEF WaitOpTest, SenderFollows, ReadOpIsOwn,
       SleepsUntilError, SleepsForOwnOp, InHand
  <2> QED
    BY <1>11, <2>1, SenderQuiet DEF WaitOpTest, InHand
<1>12. CASE WaitOpSleep
  <2>1. SenderFollows' /\ ReadOpIsOwn' /\ SleepsUntilError'
    BY <1>0, <1>12 DEF WaitOpSleep, SendFrame, SenderFollows, ReadOpIsOwn,
       SleepsUntilError, SleepsForOwnOp, InHand
  <2> QED
    BY <1>12, <2>1, SenderQuiet DEF WaitOpSleep, InHand
<1> QED
  BY <1>1, <1>2, <1>3, <1>4, <1>5, <1>6, <1>7, <1>8, <1>9, <1>10, <1>11, <1>12

\* send_reqs takes what voice_reqs_ gives out: the start of a stream that has
\* no operation yet, or a piece or the end of the first one.
LEMMA PopVoiceStep ==
    ASSUME IInv, TypeOK', SendPopVoice
    PROVE  IInv'
<1> USE DEF opVars, appVars, sendVars
<1> DEFINE D == {"voice"}
           p == PopType(voiceReqs)
           d == IF p \in {"END", "REMOVED", "ERROR"} THEN 1 ELSE 0
<1>0. /\ TypeOK /\ OnlyCurrentIsLive /\ CurrentIsNewest /\ OneSession
      /\ IdsKnown /\ IdsApart /\ NotBegun /\ SenderFollows
  BY DEF IInv
<1>1. /\ voiceReqs \in Queues(Nat, D) /\ voiceReqs' = Popped(voiceReqs)
      /\ p # "EMPTY"
  BY <1>0 DEF SendPopVoice, TypeOK, VoiceStreams
<1>2. /\ sendPc = "top" /\ sendPc' = "control" /\ initialized
      /\ req'.id = voiceReqs[1].id /\ req'.type = ReqTypeOf(p)
      /\ UNCHANGED <<textReqs, ops, cur, nextId, initialized, sessions, relPc>>
  BY DEF SendPopVoice, SendFrame
<1>i. /\ DOMAIN voiceReqs = 1..Len(voiceReqs) /\ Len(voiceReqs) \in Nat
      /\ DOMAIN voiceReqs' = 1..Len(voiceReqs') /\ Len(voiceReqs') \in Nat
      /\ DOMAIN textReqs = 1..Len(textReqs) /\ DOMAIN ops = 1..Len(ops)
      /\ voiceReqs = <<>> <=> Len(voiceReqs) = 0
      /\ voiceReqs' = <<>> <=> Len(voiceReqs') = 0
      /\ \A i \in 1..Len(voiceReqs) : voiceReqs[i].polling \in {0, 1}
  BY <1>0, Indices, IndicesNext
<1> HIDE DEF D
<1>3. /\ p \in {"START", "DATA", "END", "REMOVED", "ERROR"}
      /\ Len(voiceReqs) >= 1
      /\ p = "START" => voiceReqs[1].polling = 0
      /\ p \in {"DATA", "END"} => voiceReqs[1].polling = 1
  BY <1>1, PopTypeLemma
<1>4. /\ p = "START" =>
            /\ Len(voiceReqs') = Len(voiceReqs)
            /\ voiceReqs'[1].id = voiceReqs[1].id /\ voiceReqs'[1].polling = 1
            /\ \A i \in 2..Len(voiceReqs) : voiceReqs'[i] = voiceReqs[i]
      /\ p = "DATA" => SameTags(voiceReqs, voiceReqs')
      /\ p \in {"END", "REMOVED", "ERROR"} => voiceReqs' = Tail(voiceReqs)
  BY <1>1, PoppedLemma
<1> HIDE DEF p
<1>5. /\ d = 0 => /\ voiceReqs' # <<>>
                  /\ voiceReqs'[1].id = voiceReqs[1].id
                  /\ voiceReqs'[1].polling = 1
      /\ d \in {0, 1} /\ Len(voiceReqs') = Len(voiceReqs) - d
      /\ \A i \in 1..Len(voiceReqs') :
            /\ i + d \in 1..Len(voiceReqs)
            /\ voiceReqs'[i].id = voiceReqs[i + d].id
            /\ \/ voiceReqs'[i].polling = voiceReqs[i + d].polling
               \/ voiceReqs'[i].polling = 1
  <2>0. /\ p \in {"START", "DATA"} => d = 0
        /\ p \in {"END", "REMOVED", "ERROR"} => d = 1
    OBVIOUS
  <2>1. CASE p = "START"
    <3>1. d = 0 /\ Len(voiceReqs') = Len(voiceReqs)
      BY <1>4, <2>0, <2>1
    <3> HIDE DEF d
    <3>2. ASSUME NEW i \in 1..Len(voiceReqs')
          PROVE  /\ i + d \in 1..Len(voiceReqs)
                 /\ voiceReqs'[i].id = voiceReqs[i + d].id
                 /\ \/ voiceReqs'[i].polling = voiceReqs[i + d].polling
                    \/ voiceReqs'[i].polling = 1
      <4>1. i + d = i /\ i \in 1..Len(voiceReqs)
        BY <1>i, <3>1
      <4>2. CASE i = 1
        BY <1>4, <2>1, <4>1, <4>2
      <4>3. CASE i \in 2..Len(voiceReqs)
        BY <1>4, <2>1, <4>1, <4>3
      <4> QED
        BY <1>i, <4>1, <4>2, <4>3
    <3> QED
      BY <1>i, <1>3, <1>4, <2>1, <3>1, <3>2
  <2>2. CASE p = "DATA"
    <3>1. d = 0 /\ SameTags(voiceReqs, voiceReqs')
      BY <1>4, <2>0, <2>2
    <3>2. voiceReqs[1].polling = 1
      BY <1>3, <2>2
    <3> HIDE DEF d
    <3> QED
      BY <1>i, <1>3, <3>1, <3>2 DEF SameTags
  <2>3. CASE p \in {"END", "REMOVED", "ERROR"}
    <3>1. d = 1 /\ voiceReqs' = Tail(voiceReqs)
      BY <1>4, <2>0, <2>3
    <3>2. voiceReqs \in Seq(Streams(Nat, D))
      BY <1>1 DEF Queues
    <3> HIDE DEF d
    <3> QED
      BY <1>i, <1>3, <3>1, <3>2
  <2> QED
    BY <1>3, <2>1, <2>2, <2>3
<1>6. /\ req'.type = "VOICE_START" => p = "START"
      /\ req'.type = "VOICE_DATA" => p = "DATA"
      /\ req'.type # "TEXT" /\ req'.type \in ReqTypes
      /\ p \in {"START", "DATA"} => d = 0
  BY <1>2, <1>3 DEF ReqTypeOf, ReqTypes
<1> HIDE DEF d
<1>7. /\ InHand' /\ (Starts' => p = "START")
  BY <1>2, <1>6 DEF InHand, Starts
<1>8. IdsKnown'
  <2>1. \A i \in 1..Len(voiceReqs) : voiceReqs[i].id \in 1..nextId
    BY <1>0, <1>i DEF IdsKnown
  <2>2. \A i \in 1..Len(voiceReqs') : voiceReqs'[i].id \in 1..nextId
    BY <1>5, <2>1
  <2>3. req'.id \in 1..nextId
    BY <1>2, <1>3, <1>i, <2>1
  <2> QED
    BY <1>0, <1>2, <1>i, <2>2, <2>3 DEF IdsKnown
<1>9. IdsApart'
  <2>1. \A i \in 1..Len(voiceReqs), j \in 1..Len(voiceReqs) :
            voiceReqs[i].id = voiceReqs[j].id => i = j
    BY <1>0, <1>i DEF IdsApart, DistinctIds
  <2>2. \A i \in 1..Len(voiceReqs'), j \in 1..Len(voiceReqs') :
            voiceReqs'[i].id = voiceReqs'[j].id => i = j
    <3> SUFFICES ASSUME NEW i \in 1..Len(voiceReqs'),
                        NEW j \in 1..Len(voiceReqs'),
                        voiceReqs'[i].id = voiceReqs'[j].id
                 PROVE  i = j
      OBVIOUS
    <3>1. i + d = j + d
      BY <1>5, <2>1
    <3> QED
      BY <1>5, <3>1
  <2>3. \A i \in 1..Len(voiceReqs), j \in 1..Len(textReqs) :
            voiceReqs[i].id # textReqs[j].id
    BY <1>0, <1>i DEF IdsApart
  <2>4. \A i \in 1..Len(voiceReqs'), j \in 1..Len(textReqs) :
            voiceReqs'[i].id # textReqs[j].id
    BY <1>5, <2>3
  <2>5. \A j \in 1..Len(textReqs) : textReqs[j].id # req'.id
    BY <1>2, <1>3, <1>i, <2>3
  <2>6. \A i \in 1..Len(voiceReqs') :
            voiceReqs'[i].id = req'.id => voiceReqs'[i].polling = 1
    <3> SUFFICES ASSUME NEW i \in 1..Len(voiceReqs'),
                        voiceReqs'[i].id = req'.id
                 PROVE  voiceReqs'[i].polling = 1
      OBVIOUS
    <3>1. i + d = 1
      BY <1>2, <1>3, <1>5, <1>i, <2>1
    <3>2. i = 1 /\ d = 0
      BY <1>5, <3>1
    <3> QED
      BY <1>5, <3>2
  <2> QED
    BY <1>0, <1>2, <1>i, <2>2, <2>4, <2>5, <2>6 DEF IdsApart, DistinctIds
<1>10. NotBegun'
  <2>1. \A i \in 1..Len(voiceReqs) : voiceReqs[i].polling = 0 =>
            \A k \in 1..Len(ops) : ops[k].id # voiceReqs[i].id
    BY <1>0, <1>i DEF NotBegun, Unsent
  <2>2. \A i \in 1..Len(voiceReqs') : voiceReqs'[i].polling = 0 =>
            \A k \in 1..Len(ops) : ops[k].id # voiceReqs'[i].id
    <3> SUFFICES ASSUME NEW i \in 1..Len(voiceReqs'),
                        voiceReqs'[i].polling = 0
                 PROVE  \A k \in 1..Len(ops) : ops[k].id # voiceReqs'[i].id
      OBVIOUS
    <3> DEFINE j == i + d
    <3>1. /\ j \in 1..Len(voiceReqs) /\ voiceReqs'[i].id = voiceReqs[j].id
          /\ voiceReqs[j].polling = 0
      BY <1>5
    <3> HIDE DEF j
    <3> QED
      BY <2>1, <3>1
  <2>3. Starts' => \A k \in 1..Len(ops) : ops[k].id # req'.id
    BY <1>2, <1>3, <1>7, <1>i, <2>1
  <2> QED
    BY <1>0, <1>2, <1>i, <2>2, <2>3 DEF NotBegun, Unsent
<1>11. StartedIsFront'
  BY <1>2, <1>5, <1>6 DEF StartedIsFront
<1>12. SenderFollows'
  <2> SUFFICES ASSUME cur # 0 PROVE SenderFollows'
    BY <1>2 DEF SenderFollows
  <2>1. voiceReqs[1].id = ops[cur].id /\ voiceReqs[1].polling = 1
    BY <1>0, <1>2 DEF SenderFollows, FrontIsCurrent
  <2>2. ~Starts' /\ ops'[cur'].id = req'.id
    BY <1>2, <1>3, <1>7, <2>1
  <2>3. req'.type \in {"VOICE_START", "VOICE_DATA"} => FrontIsCurrent'
    BY <1>2, <1>5, <1>6, <2>1 DEF FrontIsCurrent
  <2> QED
    BY <1>2, <2>2, <2>3 DEF SenderFollows
<1>13. ReadOpIsOwn' /\ SleepsUntilError'
  BY <1>2 DEF ReadOpIsOwn, SleepsUntilError, SleepsForOwnOp
<1>14. OnlyCurrentIsLive' /\ CurrentIsNewest'
  BY <1>0, <1>2, OpsKept
<1>15. OneSession'
  BY <1>0, <1>2, SenderSession
<1> QED
  BY <1>8, <1>9, <1>10, <1>11, <1>12, <1>13, <1>14, <1>15 DEF IInv

\* The text request at the front is taken when no operation was seen; should
\* release() have dropped it, the thread stops.
LEMMA PopTextStep ==
    ASSUME IInv, TypeOK', SendPopText
    PROVE  IInv'
<1> USE DEF opVars, appVars, sendVars
<1>0. /\ TypeOK /\ OnlyCurrentIsLive /\ CurrentIsNewest /\ OneSession
      /\ IdsKnown /\ IdsApart /\ NotBegun /\ SenderFollows
  BY DEF IInv
<1>1. cur = 0 /\ sendPc = "peeked"
  BY <1>0 DEF SendPopText, SenderFollows
<1>2. UNCHANGED <<voiceReqs, ops, cur, opRef, nextId, initialized, sessions,
                  relPc>>
  BY DEF SendPopText, SendFrame
<1>3. OnlyCurrentIsLive' /\ CurrentIsNewest'
  BY <1>0, <1>2, OpsKept
<1>4. OneSession'
  BY <1>0, <1>1, <1>2, SenderSession
<1>5. CASE textReqs = <<>>
  <2>1. textReqs' = textReqs /\ sendPc' = "crashed"
    BY <1>5 DEF SendPopText
  <2>2. IdsKnown' /\ IdsApart' /\ NotBegun'
    BY <1>0, <1>2, <2>1 DEF IdsKnown, IdsApart, DistinctIds, NotBegun, Unsent,
       InHand
  <2>3. StartedIsFront' /\ SenderFollows' /\ ReadOpIsOwn' /\ SleepsUntilError'
    BY <1>1, <1>2, <2>1 DEF StartedIsFront, SenderFollows, ReadOpIsOwn,
       SleepsUntilError, SleepsForOwnOp, InHand
  <2> QED
    BY <1>3, <1>4, <2>2, <2>3 DEF IInv
<1>6. CASE textReqs # <<>>
  <2>1. /\ textReqs' = Tail(textReqs) /\ sendPc' = "control"
        /\ req' = textReqs[1]
    BY <1>6 DEF SendPopText
  <2>2. /\ textReqs \in Seq(TextRequests) /\ Len(textReqs) >= 1
        /\ req'.type \in {"TEXT", "CANCELLED"}
    <3>1. textReqs \in Seq(TextRequests) /\ Len(textReqs) >= 1
      <4>1. Len(textReqs) \in Nat /\ Len(textReqs) # 0
        BY <1>0, <1>6, Indices
      <4>2. textReqs \in Seq(TextRequests)
        BY <1>0 DEF TypeOK
      <4> QED
        BY <4>1, <4>2
    <3>2. textReqs[1] \in TextRequests
      BY <3>1
    <3> QED
      BY <2>1, <3>1, <3>2 DEF TextRequests
  <2>3. /\ DOMAIN textReqs = 1..Len(textReqs) /\ Len(textReqs) \in Nat
        /\ DOMAIN textReqs' = 1..Len(textReqs')
        /\ Len(textReqs') = Len(textReqs) - 1
        /\ \A i \in 1..Len(textReqs') : /\ i + 1 \in 1..Len(textReqs)
                                        /\ textReqs'[i] = textReqs[i + 1]
    BY <2>1, <2>2
  <2>4. IdsKnown'
    <3>1. \A i \in 1..Len(textReqs) : textReqs[i].id \in 1..nextId
      BY <1>0, <2>3 DEF IdsKnown
    <3>2. /\ \A i \in 1..Len(textReqs') : textReqs'[i].id \in 1..nextId
          /\ req'.id \in 1..nextId
      BY <2>1, <2>2, <2>3, <3>1
    <3> QED
      BY <1>0, <1>2, <2>3, <3>2 DEF IdsKnown
  <2>5. IdsApart'
    <3>1. \A i \in 1..Len(textReqs), j \in 1..Len(textReqs) :
              textReqs[i].id = textReqs[j].id => i = j
      BY <1>0, <2>3 DEF IdsApart
    <3>2. \A i \in 1..Len(textReqs'), j \in 1..Len(textReqs') :
              textReqs'[i].id = textReqs'[j].id => i = j
      <4> SUFFICES ASSUME NEW i \in 1..Len(textReqs'),
                          NEW j \in 1..Len(textReqs'),
                          textReqs'[i].id = textReqs'[j].id
                   PROVE  i = j
        OBVIOUS
      <4>1. i + 1 = j + 1
        BY <2>3, <3>1
      <4> QED
        BY <4>1
    <3>3. \A i \in DOMAIN voiceReqs, j \in 1..Len(textReqs) :
              voiceReqs[i].id # textReqs[j].id
      BY <1>0, <2>3 DEF IdsApart
    <3>4. \A i \in DOMAIN voiceReqs, j \in 1..Len(textReqs') :
              voiceReqs[i].id # textReqs'[j].id
      BY <2>3, <3>3
    <3>5. \A j \in 1..Len(textReqs') : textReqs'[j].id # req'.id
      <4> SUFFICES ASSUME NEW j \in 1..Len(textReqs'),
                          textReqs'[j].id = req'.id
                   PROVE  FALSE
        OBVIOUS
      <4>1. j + 1 = 1
        BY <2>1, <2>2, <2>3, <3>1
      <4> QED
        BY <4>1
    <3>6. \A i \in DOMAIN voiceReqs : voiceReqs[i].id # req'.id
      BY <2>1, <2>2, <2>3, <3>3
    <3> QED
      BY <1>0, <1>2, <2>3, <3>2, <3>4, <3>5, <3>6 DEF IdsApart, DistinctIds
  <2>6. NotBegun'
    <3>1. \A i \in 1..Len(textReqs) :
              \A k \in DOMAIN ops : ops[k].id # textReqs[i].id
      BY <1>0, <2>3 DEF NotBegun, Unsent
    <3>2. /\ \A i \in 1..Len(textReqs') :
                \A k \in DOMAIN ops : ops[k].id # textReqs'[i].id
          /\ \A k \in DOMAIN ops : ops[k].id # req'.id
      BY <2>1, <2>2, <2>3, <3>1
    <3> QED
      BY <1>0, <1>2, <2>3, <3>2 DEF NotBegun, Unsent
  <2>7. StartedIsFront' /\ SenderFollows' /\ ReadOpIsOwn' /\ SleepsUntilError'
    BY <1>1, <1>2, <2>1, <2>2 DEF StartedIsFront, SenderFollows, ReadOpIsOwn,
       SleepsUntilError, SleepsForOwnOp
  <2> QED
    BY <1>3, <1>4, <2>4, <2>5, <2>6, <2>7 DEF IInv
<1> QED
  BY <1>5, <1>6

\* do_ctl_change_op() begins the request's operation: there was none, and the
\* request had none.
LEMMA StartStep ==
    ASSUME IInv, TypeOK', ControlStart
    PROVE  IInv'
<1> USE DEF opVars, appVars, sendVars
<1>0. /\ TypeOK /\ OnlyCurrentIsLive /\ OneSession /\ IdsKnown /\ IdsApart
      /\ NotBegun /\ StartedIsFront /\ SenderFollows
  BY DEF IInv
<1>1. /\ sendPc = "change" /\ sendPc' = "send" /\ InHand /\ Starts
      /\ NewOp(req.id, "START")
      /\ UNCHANGED <<voiceReqs, textReqs, req, nextId, initialized, sessions,
                     relPc>>
  BY DEF ControlStart, SendFrame, InHand
<1>2. cur = 0
  BY <1>0, <1>1 DEF SenderFollows
<1>3. /\ Len(ops') = Len(ops) + 1 /\ cur' = Len(ops) + 1
      /\ \A i \in 1..Len(ops) : ops'[i] = ops[i]
      /\ ops'[Len(ops) + 1] = [id |-> req.id, status |-> "START"]
      /\ Len(ops) \in Nat /\ DOMAIN ops = 1..Len(ops)
      /\ DOMAIN ops' = 1..(Len(ops) + 1)
  <2>1. req.id \in Nat /\ "START" \in Statuses
    BY <1>0, FieldsLemma DEF Statuses
  <2>2. cur' = Len(ops) + 1
    BY <1>1 DEF NewOp
  <2> QED
    BY <1>0, <1>1, <2>1, <2>2, NewOpLemma, Indices, IndicesNext
<1>4. /\ ops'[cur'].id = req.id /\ ops'[cur'].status = "START" /\ cur' # 0
      /\ \A i \in 1..Len(ops) : ops[i].id # req.id
  BY <1>0, <1>1, <1>3 DEF NotBegun, Unsent
<1>5. OnlyCurrentIsLive'
  <2>1. \A i \in 1..Len(ops) : ops[i].status \in Terminal
    BY <1>0, <1>2, <1>3 DEF OnlyCurrentIsLive
  <2>2. \A i \in 1..(Len(ops) + 1) : i = cur' \/ ops'[i].status \in Terminal
    BY <1>3, <2>1
  <2>3. "START" \notin Terminal
    BY DEF Terminal
  <2> QED
    BY <1>3, <1>4, <2>2, <2>3 DEF OnlyCurrentIsLive
<1>6. CurrentIsNewest'
  BY <1>3, <1>4 DEF CurrentIsNewest
<1>7. IdsKnown'
  <2>1. \A i \in 1..(Len(ops) + 1) : ops'[i].id \in 1..nextId
    BY <1>0, <1>1, <1>3 DEF IdsKnown
  <2> QED
    BY <1>0, <1>1, <1>3, <2>1 DEF IdsKnown, InHand
<1>8. IdsApart'
  BY <1>0, <1>1 DEF IdsApart, DistinctIds, InHand
<1>9. NotBegun'
  <2>1. \A i \in DOMAIN voiceReqs : voiceReqs[i].polling = 0 =>
            voiceReqs[i].id # req.id /\ Unsent(voiceReqs[i].id)
    BY <1>0, <1>1 DEF IdsApart, NotBegun
  <2>2. \A i \in DOMAIN textReqs :
            textReqs[i].id # req.id /\ Unsent(textReqs[i].id)
    BY <1>0, <1>1 DEF IdsApart, NotBegun
  <2>3. ASSUME NEW id, id # req.id, Unsent(id)
        PROVE  \A i \in DOMAIN ops' : ops'[i].id # id
    BY <1>3, <2>3 DEF Unsent
  <2>4. \A i \in DOMAIN voiceReqs : voiceReqs[i].polling = 0 =>
            \A k \in DOMAIN ops' : ops'[k].id # voiceReqs[i].id
    BY <2>1, <2>3
  <2>5. \A i \in DOMAIN textReqs :
            \A k \in DOMAIN ops' : ops'[k].id # textReqs[i].id
    BY <2>2, <2>3
  <2> QED
    BY <1>1, <2>4, <2>5 DEF NotBegun, Unsent, InHand
<1>10. SenderFollows'
  <2>1. (req.type \in {"VOICE_START", "VOICE_DATA"}) => FrontIsCurrent'
    BY <1>0, <1>1, <1>4 DEF StartedIsFront, FrontIsCurrent, Starts
  <2>2. req.type # "CANCELLED"
    BY <1>1 DEF Starts
  <2> QED
    BY <1>1, <1>4, <2>1, <2>2 DEF SenderFollows, InHand
<1>11. StartedIsFront' /\ ReadOpIsOwn' /\ SleepsUntilError'
  BY <1>1 DEF StartedIsFront, InHand, ReadOpIsOwn, SleepsUntilError,
     SleepsForOwnOp
<1>12. OneSession'
  BY <1>0, <1>1, SenderSession
<1> QED
  BY <1>5, <1>6, <1>7, <1>8, <1>9, <1>10, <1>11, <1>12 DEF IInv

\* A request that was cancelled before it was sent gets an operation that is
\* over at once.
LEMMA CancelUnsentStep ==
    ASSUME IInv, TypeOK', ControlCancelUnsent
    PROVE  IInv'
<1> USE DEF opVars, appVars, sendVars
<1>0. /\ TypeOK /\ OnlyCurrentIsLive /\ OneSession /\ IdsKnown /\ IdsApart
      /\ NotBegun /\ SenderFollows
  BY DEF IInv
<1>1. /\ sendPc = "change" /\ sendPc' = "top" /\ InHand
      /\ NewOp(req.id, "CANCELLED") /\ opRef = 0
      /\ UNCHANGED <<voiceReqs, textReqs, nextId, sessions, relPc>>
  BY DEF ControlCancelUnsent, SendFrame, InHand
<1>2. cur = 0
  BY <1>0, <1>1 DEF SenderFollows
<1>3. /\ Len(ops') = Len(ops) + 1 /\ cur' = 0
      /\ \A i \in 1..Len(ops) : ops'[i] = ops[i]
      /\ ops'[Len(ops) + 1] = [id |-> req.id, status |-> "CANCELLED"]
      /\ Len(ops) \in Nat /\ DOMAIN ops = 1..Len(ops)
      /\ DOMAIN ops' = 1..(Len(ops) + 1)
  <2>1. req.id \in Nat /\ "CANCELLED" \in Statuses
    BY <1>0, FieldsLemma DEF Statuses
  <2>2. cur' = 0
    BY <1>1, <1>2 DEF NewOp
  <2> QED
    BY <1>0, <1>1, <2>1, <2>2, NewOpLemma, Indices, IndicesNext
<1>4. OnlyCurrentIsLive' /\ CurrentIsNewest'
  <2>1. \A i \in 1..Len(ops) : ops[i].status \in Terminal
    BY <1>0, <1>2, <1>3 DEF OnlyCurrentIsLive
  <2>2. \A i \in 1..(Len(ops) + 1) : ops'[i].status \in Terminal
    BY <1>3, <2>1 DEF Terminal
  <2> QED
    BY <1>3, <2>2 DEF OnlyCurrentIsLive, CurrentIsNewest
<1>5. IdsKnown'
  <2>1. \A i \in 1..(Len(ops) + 1) : ops'[i].id \in 1..nextId
    BY <1>0, <1>1, <1>3 DEF IdsKnown
  <2> QED
    BY <1>0, <1>1, <1>3, <2>1 DEF IdsKnown, InHand
<1>6. IdsApart'
  BY <1>0, <1>1 DEF IdsApart, DistinctIds, InHand
<1>7. NotBegun'
  <2>1. \A i \in DOMAIN voiceReqs : voiceReqs[i].polling = 0 =>
            voiceReqs[i].id # req.id /\ Unsent(voiceReqs[i].id)
    BY <1>0, <1>1 DEF IdsApart, NotBegun
  <2>2. \A i \in DOMAIN textReqs :
            textReqs[i].id # req.id /\ Unsent(textReqs[i].id)
    BY <1>0, <1>1 DEF IdsApart, NotBegun
  <2>3. ASSUME NEW id, id # req.id, Unsent(id)
        PROVE  \A i \in DOMAIN ops' : ops'[i].id # id
    BY <1>3, <2>3 DEF Unsent
  <2>4. \A i \in DOMAIN voiceReqs : voiceReqs[i].polling = 0 =>
            \A k \in DOMAIN ops' : ops'[k].id # voiceReqs[i].id
    BY <2>1, <2>3
  <2>5. \A i \in DOMAIN textReqs :
            \A k \in DOMAIN ops' : ops'[k].id # textReqs[i].id
    BY <2>2, <2>3
  <2> QED
    BY <1>1, <2>4, <2>5 DEF NotBegun, Unsent, InHand
<1>8. /\ StartedIsFront' /\ SenderFollows' /\ ReadOpIsOwn'
      /\ SleepsUntilError'
  BY <1>1, <1>3 DEF StartedIsFront, SenderFollows, InHand, ReadOpIsOwn,
     SleepsUntilError, SleepsForOwnOp
<1>9. OneSession'
  BY <1>0, <1>1, SenderSession
<1> QED
  BY <1>4, <1>5, <1>6, <1>7, <1>8, <1>9 DEF IInv

\* send_reqs ends the operation: cancelled while it was being sent, or failed
\* to be sent.
LEMMA EndOperationStep ==
    ASSUME IInv, TypeOK', ControlCancel \/ RequestSetError
    PROVE  IInv'
<1> USE DEF opVars, appVars, sendVars
<1>0. /\ TypeOK /\ OnlyCurrentIsLive /\ OneSession /\ IdsKnown /\ IdsApart
      /\ NotBegun /\ SenderFollows
  BY DEF IInv
<1>1. /\ sendPc' \in {"send", "top"} /\ sendPc # "quit" /\ cur' = 0
      /\ UNCHANGED <<textReqs, req, nextId, sessions, relPc>>
  BY DEF ControlCancel, RequestSetError, SetOpError, NoCurrent, SendFrame
<1>2. OnlyCurrentIsLive' /\ CurrentIsNewest' /\ SameIds(ops, ops')
  <2>1. CASE ControlCancel
    <3>1. ops' = OpsIn({opRef}, "CANCELLED")
      BY <2>1 DEF ControlCancel
    <3>2. cur # 0 => cur \in {opRef}
      BY <1>0, <2>1 DEF ControlCancel, SenderFollows
    <3> QED
      BY <1>0, <1>1, <3>1, <3>2, OpsEnd DEF Terminal
  <2>2. CASE RequestSetError
    <3>1. ops' = OpsIn({cur}, "ERROR")
      BY <2>2 DEF RequestSetError, SetOpError, CurrentIn
    <3> QED
      BY <1>0, <1>1, <3>1, OpsEnd DEF Terminal
  <2> QED
    BY <2>1, <2>2
<1>3. SameTags(voiceReqs, voiceReqs') /\ SameIds(textReqs, textReqs')
  BY <1>0, <1>1, VoiceTags, TextIds DEF ControlCancel, RequestSetError
<1>4. ~InHand'
  BY <1>1 DEF InHand
<1>5. IdsKnown' /\ IdsApart' /\ NotBegun'
  BY <1>0, <1>1, <1>2, <1>3, <1>4, QueueFrame
<1>6. /\ StartedIsFront' /\ SenderFollows' /\ ReadOpIsOwn'
      /\ SleepsUntilError'
  BY <1>1, <1>4 DEF StartedIsFront, SenderFollows, ReadOpIsOwn,
     SleepsUntilError, SleepsForOwnOp
<1>7. OneSession'
  BY <1>0, <1>1, SenderSession
<1> QED
  BY <1>2, <1>5, <1>6, <1>7 DEF IInv

\* A stuttering step.
LEMMA StutterStep ==
    ASSUME IInv, UNCHANGED vars
    PROVE  IInv'
<1> USE DEF vars, opVars, appVars, sendVars
<1>0. /\ TypeOK /\ OnlyCurrentIsLive /\ OneSession /\ IdsKnown /\ IdsApart
      /\ NotBegun /\ CurrentIsNewest /\ StartedIsFront /\ SenderFollows
      /\ ReadOpIsOwn /\ SleepsUntilError
  BY DEF IInv
<1>1. TypeOK'
  BY <1>0, TypeStep
<1>2. OneSession'
  BY <1>0 DEF OneSession
<1> QED
  BY <1>1, <1>2, IdleStep

\* Every step preserves the invariant.
LEMMA InvariantStep ==
    ASSUME IInv, SingleSession, [Next]_vars
    PROVE  IInv'
<1>1. TypeOK'
  <2>1. TypeOK
    BY DEF IInv
  <2> QED
    BY <2>1, TypeStep
<1>2. CASE LifecycleStep
  BY <1>1, <1>2, PrepareStep, ReleaseStep, OtherThreads DEF LifecycleStep
<1>3. CASE AppStep
  BY <1>1, <1>3, NewRequestStep, OtherThreads DEF AppStep
<1>4. CASE SendStep
  BY <1>1, <1>4, SenderQuietStep, PopVoiceStep, PopTextStep, StartStep,
     CancelUnsentStep, EndOperationStep DEF SendStep
<1>5. CASE CancelStep \/ RecvStep \/ PollStep \/ SpuriousWakeup
  BY <1>1, <1>5, OtherThreads
<1>6. CASE UNCHANGED vars
  BY <1>6, StutterStep
<1> QED
  BY <1>2, <1>3, <1>4, <1>5, <1>6 DEF Next

LEMMA InvariantInit ==
    ASSUME Init, SingleSession
    PROVE  IInv
<1>1. TypeOK
  BY TypeInit
<1>2. /\ voiceReqs = <<>> /\ textReqs = <<>> /\ ops = <<>> /\ cur = 0
      /\ sendPc = "quit" /\ relPc = "down" /\ sessions = 0
      /\ appPc = "idle" /\ cancels = {} /\ recvPc = "quit" /\ pollPc = "out"
      /\ ~initialized
  BY DEF Init
<1>3. OnlyCurrentIsLive /\ CurrentIsNewest
  BY <1>2 DEF OnlyCurrentIsLive, CurrentIsNewest
<1>4. IdsKnown /\ IdsApart /\ NotBegun
  BY <1>2 DEF IdsKnown, IdsApart, DistinctIds, NotBegun, InHand
<1>5. /\ StartedIsFront /\ SenderFollows /\ ReadOpIsOwn /\ SleepsUntilError
      /\ OneSession
  BY <1>2 DEF StartedIsFront, InHand, SenderFollows, ReadOpIsOwn,
     SleepsUntilError, SleepsForOwnOp, OneSession
<1> QED
  BY <1>1, <1>3, <1>4, <1>5 DEF IInv

\* In one session the requests, the operations and the hands of send_reqs stay
\* tied together, whatever the threads do.
THEOREM InvariantHolds ==
    ASSUME SingleSession
    PROVE  Spec => []IInv
<1>1. Init => IInv
  BY InvariantInit
<1>2. IInv /\ [Next]_vars => IInv'
  BY InvariantStep
<1> QED
  BY <1>1, <1>2, PTL DEF Spec

\* In one session no step of any thread leaves an operation in progress that
\* is not the current one: poll() waits for no other (op_ctl.h:27-85).
THEOREM CurrentAlone ==
    ASSUME SingleSession
    PROVE  Spec => []OnlyCurrentIsLive
<1>1. IInv => OnlyCurrentIsLive
  BY DEF IInv
<1> QED
  BY <1>1, InvariantHolds, PTL

\* In one session do_ctl_change_op() finds the operation of its own request
\* or none, although it acts on what it read before it released the lock, and
\* none at all when the request starts (the assertion of speech_impl.cc:569).
THEOREM ControlSafe ==
    ASSUME SingleSession
    PROVE  Spec => []ControlFindsOwnOp
<1>1. IInv => ControlFindsOwnOp
  <2> SUFFICES ASSUME IInv, sendPc = "change" PROVE ControlFindsOwnOp
    BY DEF ControlFindsOwnOp
  <2>1. (opRef # 0 => ~Starts /\ ops[opRef].id = req.id)
    BY DEF IInv, ReadOpIsOwn
  <2>2. cur # 0 => ~Starts /\ opRef = cur
    BY DEF IInv, SenderFollows, InHand
  <2> QED
    BY <2>1, <2>2 DEF ControlFindsOwnOp
<1> QED
  BY <1>1, InvariantHolds, PTL

\* Until release() is called send_reqs sleeps on op_cond_ only for the current
\* operation: whoever ends that operation wakes it (op_ctl.h:60-64).
THEOREM SleepsSafely ==
    ASSUME SingleSession, MaxReleases = 0
    PROVE  Spec => []SleepsForOwnOp
<1>1. IInv => SleepsForOwnOp
  <2> SUFFICES ASSUME IInv PROVE SleepsForOwnOp
    OBVIOUS
  <2>1. relPc \in {"down", "up"} /\ (relPc = "down" => sendPc = "quit")
    BY DEF IInv, OneSession
  <2> QED
    BY <2>1 DEF IInv, SleepsUntilError, SleepsForOwnOp
<1> QED
  BY <1>1, InvariantHolds, PTL
=============================================================================

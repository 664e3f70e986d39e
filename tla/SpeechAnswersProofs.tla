------------------------ MODULE SpeechAnswersProofs ------------------------
(***************************************************************************)
(* AInv is an invariant, hence PollServesFrontOp, PollSleepsOnlyForCurrent,*)
(* AnswersInOrder, WireInOrder and RequestsKept are, for any number of     *)
(* requests, chunks, results and cancelling threads.                       *)
(***************************************************************************)
EXTENDS SpeechAnswersInvariant, SpeechProofs

\* The indices and elements of the operations and of the response streams.
LEMMA Shape ==
    ASSUME TypeOK
    PROVE  /\ Len(ops) \in Nat /\ DOMAIN ops = 1..Len(ops)
           /\ removed \in 0..Len(ops) /\ cur \in 0..Len(ops)
           /\ Len(responses) \in Nat /\ DOMAIN responses = 1..Len(responses)
           /\ responses = <<>> <=> Len(responses) = 0
           /\ \A i \in 1..Len(responses) :
                /\ responses[i].id \in Nat /\ responses[i].polling \in {0, 1}
                /\ responses[i].type \in TagTypes
           /\ \A k \in 1..Len(ops) :
                ops[k].id \in Nat /\ ops[k].status \in Statuses
<1>1. \A k \in 1..Len(ops) : ops[k] \in Operations
  BY DEF TypeOK
<1>2. responses \in Seq(Streams(Nat, {"INTERMEDIATE", "ASR_FINISH"}))
  BY DEF TypeOK, ResponseStreams, Queues
<1>3. \A i \in 1..Len(responses) :
          /\ responses[i].id \in Nat /\ responses[i].polling \in {0, 1}
          /\ responses[i].type \in TagTypes
  <2>1. \A i \in 1..Len(responses) :
            responses[i] \in Streams(Nat, {"INTERMEDIATE", "ASR_FINISH"})
    BY <1>2
  <2> QED
    BY <2>1 DEF Streams
<1> QED
  BY <1>1, <1>2, <1>3 DEF TypeOK, Operations

\* What of the type invariant the leaves below need most.
LEMMA OpsTyped ==
    ASSUME TypeOK
    PROVE  /\ ops \in Seq(Operations) /\ Len(ops) \in Nat
           /\ nextId \in Nat /\ nextId \in 0..MaxId
           /\ sessions \in Nat
  BY BoundsAssumption DEF TypeOK

\* The indices of the operations and streams of the next state.
LEMMA ShapeNext ==
    ASSUME TypeOK'
    PROVE  /\ Len(ops') \in Nat /\ DOMAIN ops' = 1..Len(ops')
           /\ removed' \in 0..Len(ops') /\ cur' \in 0..Len(ops')
           /\ Len(responses') \in Nat
           /\ DOMAIN responses' = 1..Len(responses')
           /\ responses' = <<>> <=> Len(responses') = 0
<1>1. responses' \in Seq(Streams(Nat, {"INTERMEDIATE", "ASR_FINISH"}))
  BY DEF TypeOK, ResponseStreams, Queues
<1> QED
  BY <1>1 DEF TypeOK

\* The operation that leads an id is the only one that does.
LEMMA LeadAlone ==
    ASSUME TypeOK
    PROVE  \A k, l \in 1..Len(ops) :
               (Leads(k) /\ ops[k].id = ops[l].id) => k <= l
<1> SUFFICES ASSUME NEW k \in 1..Len(ops), NEW l \in 1..Len(ops), Leads(k),
                    ops[k].id = ops[l].id, ~(k <= l)
             PROVE  FALSE
  OBVIOUS
<1>1. l \in 1..(k - 1)
  BY Shape
<1> QED
  BY <1>1 DEF Leads

\* Which operations lead depends on the ids in operations_ only.
LEMMA LeadsFrame ==
    ASSUME TypeOK, TypeOK', Len(ops) <= Len(ops'),
           \A i \in 1..Len(ops) : ops'[i].id = ops[i].id
    PROVE  \A k \in 1..Len(ops) : Leads(k)' <=> Leads(k)
<1> SUFFICES ASSUME NEW k \in 1..Len(ops) PROVE Leads(k)' <=> Leads(k)
  OBVIOUS
<1>1. \A j \in 1..(k - 1) : j \in 1..Len(ops)
  BY Shape
<1> QED
  BY <1>1 DEF Leads

\* A stream that is over has something to pop, and what ends it comes only then.
LEMMA OverIsPopped ==
    ASSUME TypeOK
    PROVE  /\ (responses # <<>> /\ responses[1].type # "uncompleted") =>
                PopType(responses) # "EMPTY"
           /\ PopType(responses) \in {"END", "REMOVED", "ERROR"} =>
                responses # <<>> /\ responses[1].type # "uncompleted"
           /\ PopType(responses) # "EMPTY" => responses # <<>>
<1>1. CASE responses = <<>>
  BY <1>1 DEF PopType
<1>2. CASE responses # <<>>
  <2>1. responses[1].type \in TagTypes /\ responses[1].polling \in {0, 1}
    BY <1>2, Shape
  <2> QED
    BY <1>2, <2>1 DEF PopType, Live, TagTypes
<1> QED
  BY <1>1, <1>2

\* If the operation at the front has a stream it is the first one, and no
\* other.
LEMMA FrontStream ==
    ASSUME TypeOK, StreamsOwned, StreamsOrdered, HasFront,
           Has(responses, Front.id)
    PROVE  /\ responses # <<>> /\ responses[1].id = Front.id
           /\ \A i \in 2..Len(responses) : responses[i].id # Front.id
           /\ Leads(removed + 1)
<1> USE Shape
<1> DEFINE f == removed + 1
<1>1. f \in 1..Len(ops)
  BY DEF HasFront
<1>2. PICK i \in 1..Len(responses) : responses[i].id = ops[f].id
  BY DEF Has, Front
<1>3. ASSUME NEW j \in 1..Len(responses), responses[j].id = ops[f].id
      PROVE  Leads(f)
  <2>1. PICK k \in 1..Len(ops) :
            removed < k /\ Leads(k) /\ ops[k].id = responses[j].id
    BY DEF StreamsOwned
  <2>2. k <= f
    BY <1>1, <1>3, <2>1, LeadAlone
  <2>3. k = f
    BY <2>1, <2>2
  <2> QED
    BY <2>1, <2>3
<1>4. Leads(f)
  BY <1>2, <1>3
<1>5. 1 \in 1..Len(responses)
  BY <1>2
<1>6. PICK k \in 1..Len(ops) :
          removed < k /\ Leads(k) /\ ops[k].id = responses[1].id
  BY <1>5 DEF StreamsOwned
<1>7. i = 1
  <2>1. SUFFICES ASSUME 1 < i PROVE FALSE
    BY <1>2
  <2>2. k < f
    BY <1>1, <1>2, <1>4, <1>5, <1>6, <2>1 DEF StreamsOrdered
  <2> QED
    BY <1>1, <1>6, <2>2
<1>8. ASSUME NEW j \in 2..Len(responses), responses[j].id = ops[f].id
      PROVE  FALSE
  <2>1. j \in 1..Len(responses) /\ 1 < j
    OBVIOUS
  <2>2. f < f
    BY <1>1, <1>2, <1>4, <1>5, <1>7, <1>8, <2>1 DEF StreamsOrdered
  <2> QED
    BY <1>1, <2>2
<1> QED
  BY <1>2, <1>4, <1>5, <1>7, <1>8 DEF Front

\* An operation in its place that is answered and neither cancelled nor failed
\* leads its id, and its stream is the first.
LEMMA FrontServed ==
    ASSUME IInv, StreamsFollow, HasFront,
           Front.status \notin {"CANCELLED", "ERROR"},
           PopType(responses) # "EMPTY"
    PROVE  Has(responses, Front.id)
<1> USE Shape
<1>0. /\ TypeOK /\ OnlyCurrentIsLive /\ StreamsOwned /\ BegunHasStream
      /\ Lifecycle
  BY DEF IInv, StreamsFollow
<1>1. removed + 1 \in 1..Len(ops)
  BY <1>0 DEF HasFront
<1>2. responses # <<>> /\ 1 \in 1..Len(responses)
  BY <1>0, OverIsPopped
<1>3. CASE ops[removed + 1].status \notin Terminal
  <2>1. removed + 1 = Len(ops)
    BY <1>0, <1>1, <1>3 DEF OnlyCurrentIsLive
  <2>2. PICK k \in 1..Len(ops) : removed < k /\ ops[k].id = responses[1].id
    BY <1>0, <1>2 DEF StreamsOwned
  <2>3. k = removed + 1
    BY <1>0, <2>1, <2>2
  <2> QED
    BY <1>0, <1>2, <2>2, <2>3 DEF Has, Front
<1>4. CASE ops[removed + 1].status \in Terminal
  <2>1. ops[removed + 1].status = "END" /\ relPc \notin {"down", "joinrecv"}
    BY <1>0, <1>2, <1>4 DEF Front, Terminal, Lifecycle
  <2> QED
    BY <1>0, <1>1, <2>1 DEF BegunHasStream, Has, Front
<1> QED
  BY <1>3, <1>4

\* What poll() takes off the responses is the answer to the front operation.
LEMMA ServesFront ==
    ASSUME IInv, StreamsFollow
    PROVE  PollServesFrontOp
<1>0. TypeOK /\ StreamsOwned /\ StreamsOrdered
  BY DEF IInv, StreamsFollow
<1>1. (HasFront /\ Has(responses, Front.id)) => responses[1].id = Front.id
  BY <1>0, FrontStream
<1> QED
  BY <1>0, <1>1, FrontServed DEF PollServesFrontOp
-----------------------------------------------------------------------------
(* Steps that make no operation and no stream.                             *)

\* Operations keep their place and id, and at most end without an answer.
OpsEnded ==
    /\ SameIds(ops, ops') /\ removed' = removed /\ cur' \in {0, cur}
    /\ \A k \in 1..Len(ops) :
        \/ ops'[k].status = ops[k].status
        \/ ops'[k].status = "CANCELLED"
        \/ k = cur /\ ops'[k].status = "ERROR"

\* A closed session stays closed, an open one open.
ClosedKept == relPc' \in {"down", "joinrecv"} <=> relPc \in {"down", "joinrecv"}

\* What poll() has to report follows the operations that end.
LEMMA EndedStreams ==
    ASSUME IInv, IInv', StreamsFollow, OpsEnded, responses' = responses,
           ClosedKept, initialized' => initialized /\ relPc' = "up",
           sessions = 0 => UNCHANGED told, sessions' = 0 => sessions = 0
    PROVE  StreamsFollow'
<1> USE Shape, ShapeNext DEF OpsEnded, SameIds
<1>0. /\ TypeOK /\ TypeOK' /\ OnlyCurrentIsLive
      /\ RepeatsCancel /\ StreamsOwned /\ StreamsOrdered /\ BegunHasStream
      /\ CurrentPending /\ Lifecycle
  BY DEF IInv, StreamsFollow
<1>1. \A k \in 1..Len(ops) : Leads(k)' <=> Leads(k)
  BY <1>0, LeadsFrame
<1>2. RepeatsCancel'
  <2>1. \A k \in 1..Len(ops) : ops'[k].status # "CANCELLED" =>
            ops[k].status # "CANCELLED"
    BY <1>0 DEF OnlyCurrentIsLive, Terminal
  <2> QED
    BY <1>0, <1>1, <2>1 DEF RepeatsCancel
<1>3. StreamsOwned'
  <2> SUFFICES ASSUME NEW i \in 1..Len(responses)
               PROVE  \E k \in 1..Len(ops) :
                        /\ removed < k /\ Leads(k)'
                        /\ ops'[k].id = responses[i].id
                        /\ responses[i].type # "uncompleted" =>
                                ops'[k].status \in Terminal
    BY <1>0 DEF StreamsOwned
  <2>1. PICK k \in 1..Len(ops) :
            /\ removed < k /\ Leads(k) /\ ops[k].id = responses[i].id
            /\ responses[i].type # "uncompleted" => ops[k].status \in Terminal
    BY <1>0 DEF StreamsOwned
  <2>2. ops[k].status \in Terminal => ops'[k].status \in Terminal
    BY <1>0 DEF Terminal
  <2> QED
    BY <1>0, <1>1, <2>1, <2>2
<1>4. StreamsOrdered'
  BY <1>0, <1>1 DEF StreamsOrdered
<1>5. BegunHasStream'
  <2> SUFFICES ASSUME relPc' \notin {"down", "joinrecv"},
                      NEW k \in DOMAIN ops', removed' < k,
                      ops'[k].status \in {"STREAMING", "END"}
               PROVE  \E i \in DOMAIN responses' :
                        /\ responses'[i].id = ops'[k].id
                        /\ ops'[k].status = "END" =>
                                responses'[i].type # "uncompleted"
    BY DEF BegunHasStream
  <2>1. /\ k \in DOMAIN ops /\ removed < k
        /\ ops'[k].status = ops[k].status /\ ops'[k].id = ops[k].id
    BY <1>0
  <2>2. PICK i \in DOMAIN responses :
            /\ responses[i].id = ops[k].id
            /\ ops[k].status = "END" => responses[i].type # "uncompleted"
    BY <1>0, <2>1 DEF BegunHasStream, ClosedKept
  <2> QED
    BY <2>1, <2>2
<1>6. CurrentPending'
  BY <1>0 DEF CurrentPending
<1>7. Lifecycle'
  BY <1>0 DEF Lifecycle, ClosedKept
<1> QED
  BY <1>2, <1>3, <1>4, <1>5, <1>6, <1>7 DEF StreamsFollow

\* So does what poll() has said.
LEMMA EndedTales ==
    ASSUME IInv, IInv', TalesFollow, OpsEnded, UNCHANGED <<responses, told>>
    PROVE  TalesFollow'
<1> USE Shape, ShapeNext DEF OpsEnded, SameIds
<1>0. TypeOK /\ TypeOK' /\ OpsTold /\ StreamsTold
  BY DEF IInv, TalesFollow
<1>1. \A k \in 1..Len(ops) : Leads(k)' <=> Leads(k)
  BY <1>0, LeadsFrame
<1>2. \A id \in Ids : InOrder(told'[id]) /\ (Unsent(id)' => told'[id] = <<>>)
  <2>1. \A id \in Ids : Unsent(id)' => Unsent(id)
    BY <1>0 DEF Unsent
  <2> QED
    BY <2>1 DEF TalesFollow, InOrder
<1>3. OpsTold'
  <2> SUFFICES ASSUME NEW k \in DOMAIN ops'
               PROVE  (/\ k <= removed => Answered(ops[k].id)
                       /\ (removed < k /\ Leads(k)) =>
                             told[ops[k].id] \in {<<>>, <<"START">>}
                       /\ (removed + 1 < k /\ Leads(k)) =>
                             told[ops[k].id] = <<>>
                       /\ ops[k].status = "START" =>
                             /\ told[ops[k].id] = <<>>
                             /\ ~Has(responses, ops[k].id))'
    <3> HIDE Shape, ShapeNext DEF OpsEnded, SameIds
    <3> QED
      BY DEF OpsTold
  <2>0. /\ k \in 1..Len(ops) /\ ops'[k].id = ops[k].id
        /\ told' = told /\ responses' = responses /\ removed' = removed
    BY <1>0
  <2>1. ops'[k].status = "START" => ops[k].status = "START"
    BY <1>0
  <2>2. k \in DOMAIN ops /\ (Leads(k)' <=> Leads(k))
    BY <1>0, <1>1
  <2>3. /\ k <= removed => Answered(ops[k].id)
        /\ (removed < k /\ Leads(k)) => told[ops[k].id] \in {<<>>, <<"START">>}
        /\ (removed + 1 < k /\ Leads(k)) => told[ops[k].id] = <<>>
        /\ ops[k].status = "START" =>
                told[ops[k].id] = <<>> /\ ~Has(responses, ops[k].id)
    BY <1>0, <2>2 DEF OpsTold
  <2> HIDE Shape, ShapeNext DEF OpsEnded, SameIds
  <2> QED
    BY <2>0, <2>1, <2>2, <2>3 DEF Answered, Has
<1>4. StreamsTold'
  BY <1>0 DEF StreamsTold
<1> QED
  BY <1>2, <1>3, <1>4 DEF TalesFollow

\* poll() sleeps on while the operation in progress does and no stream is
\* touched.
LEMMA SleepKept ==
    ASSUME TypeOK, PollSleepsOnlyForCurrent, Len(ops') = Len(ops),
           UNCHANGED <<removed, responses>>,
           (pollPc' \in {"wait", "passed"} /\ initialized') =>
                pollPc' = pollPc /\ initialized /\ cur' = cur
    PROVE  PollSleepsOnlyForCurrent'
  BY DEF PollSleepsOnlyForCurrent, HasFront, PopType, Live

\* What those steps keep, together.
Answers == StreamsFollow /\ TalesFollow /\ PollSleepsOnlyForCurrent

\* A step that at most ends operations leaves what poll() has to tell in step.
LEMMA EndedStep ==
    ASSUME IInv, IInv', Answers, OpsEnded, UNCHANGED <<responses, told>>,
           ClosedKept, initialized' => initialized /\ relPc' = "up",
           sessions' = sessions,
           (pollPc' \in {"wait", "passed"} /\ initialized') =>
                pollPc' = pollPc /\ cur' = cur
    PROVE  Answers'
<1>1. StreamsFollow' /\ TalesFollow'
  BY EndedStreams, EndedTales DEF Answers
<1>2. TypeOK /\ Len(ops') = Len(ops)
  BY DEF IInv, OpsEnded, SameIds
<1> QED
  BY <1>1, <1>2, SleepKept DEF Answers, OpsEnded

\* A step that touches no operation and no answer at all.
LEMMA QuietStep ==
    ASSUME IInv, IInv', Answers,
           UNCHANGED <<ops, removed, cur, responses, told, sessions>>,
           ClosedKept, initialized' => initialized /\ relPc' = "up",
           (pollPc' \in {"wait", "passed"} /\ initialized') => pollPc' = pollPc
    PROVE  Answers'
<1>1. OpsEnded
  BY DEF OpsEnded, SameIds
<1> QED
  BY <1>1, EndedStep

\* Nothing changes that poll() can tell.
Unseen ==
    /\ UNCHANGED <<ops, removed, cur, responses, told, sessions>>
    /\ pollPc' \in {"wait", "passed"} => pollPc' = pollPc

\* A step that poll() cannot see leaves it in step too.
LEMMA UnseenStep ==
    ASSUME IInv, IInv', Answers, Unseen, UNCHANGED <<initialized, relPc>>
    PROVE  Answers'
<1>1. initialized => relPc = "up"
  BY DEF Answers, StreamsFollow, Lifecycle
<1> QED
  BY <1>1, QuietStep DEF Unseen, ClosedKept

\* The steps that touch neither an operation nor an answer.
LEMMA QuietThreads ==
    ASSUME IInv, IInv', Answers,
           \/ ReleaseRequests \/ ReleaseTestOp \/ ReleaseReturns \/ AppStep
           \/ \E id \in 1..nextId : CancelQueued(id)
           \/ CancelAllQueued
           \/ SendQuit \/ SendPopVoice \/ SendNoVoice \/ SendPeekOp
           \/ SendPopText \/ SendTextMustWait \/ ControlReadOp
           \/ ControlContinue \/ ControlDrop \/ RequestSent \/ RequestFailed
           \/ RequestSetTime \/ WaitOpTest \/ WaitOpSleep
           \/ \E id \in Ids : RecvStale(id)
           \/ RecvIgnored \/ EraseReq \/ RecvQuit \/ PollCall
           \/ PollReturnsFalse \/ SpuriousWakeup \/ UNCHANGED vars
    PROVE  Answers'
<1> USE DEF opVars, appVars, sendVars
<1>0. Lifecycle
  BY DEF Answers, StreamsFollow
<1>1. CASE ReleaseRequests
  BY <1>1, QuietStep DEF ReleaseRequests, ClosedKept
<1>2. CASE ReleaseTestOp
  BY <1>0, <1>2, QuietStep DEF ReleaseTestOp, ClosedKept, Lifecycle
<1>3. CASE ReleaseReturns
  BY <1>0, <1>3, QuietStep DEF ReleaseReturns, ClosedKept, Lifecycle
<1>4. CASE AppStep
  <2>1. CASE StartVoice \/ PutText
    BY <2>1, UnseenStep DEF StartVoice, PutText, Unseen
  <2>2. ASSUME NEW id \in 1..nextId, PutVoice(id) \/ EndVoice(id)
        PROVE  Answers'
    BY <2>2, UnseenStep DEF PutVoice, EndVoice, Unseen
  <2> QED
    BY <1>4, <2>1, <2>2 DEF AppStep
<1>5. CASE (\E id \in 1..nextId : CancelQueued(id)) \/ CancelAllQueued
  BY <1>5, UnseenStep DEF CancelQueued, CancelAllQueued, Unseen
<1>6. CASE \/ SendQuit \/ SendPopVoice \/ SendNoVoice \/ SendPeekOp
           \/ SendPopText \/ SendTextMustWait \/ ControlReadOp
  BY <1>6, UnseenStep DEF SendQuit, SendPopVoice, SendNoVoice, SendPeekOp,
     SendPopText, SendTextMustWait, ControlReadOp, SendFrame, Unseen
<1>7. CASE \/ ControlContinue \/ ControlDrop \/ RequestSent \/ RequestFailed
           \/ RequestSetTime \/ WaitOpTest \/ WaitOpSleep
  BY <1>7, UnseenStep DEF ControlContinue, ControlDrop, RequestSent,
     RequestFailed, RequestSetTime, WaitOpTest, WaitOpSleep, RefreshOpTime,
     SendFrame, Unseen
<1>8. CASE \/ \E id \in Ids : RecvStale(id)
           \/ RecvIgnored \/ EraseReq \/ RecvQuit
  BY <1>8, UnseenStep DEF RecvStale, RecvIgnored, EraseReq, RecvQuit,
     RefreshOpTime, RecvFrame, Unseen
<1>9. CASE PollCall \/ PollReturnsFalse \/ SpuriousWakeup
  BY <1>9, UnseenStep DEF PollCall, PollReturnsFalse, SpuriousWakeup,
     PollFrame, Unseen
<1>10. CASE UNCHANGED vars
  BY <1>10, UnseenStep DEF vars, Unseen
<1> QED
  BY <1>1, <1>2, <1>3, <1>4, <1>5, <1>6, <1>7, <1>8, <1>9, <1>10

\* The operation in progress fails, or operations are cancelled; poll() is told
\* of the one in progress.
LEMMA ErrorEnds ==
    ASSUME TypeOK, SetOpError
    PROVE  OpsEnded /\ cur' = 0
<1>1. ops' = OpsIn({cur}, "ERROR") /\ cur' = 0 /\ removed' = removed
  BY DEF SetOpError, CurrentIn, NoCurrent
<1>2. /\ Len(ops') = Len(ops)
      /\ \A k \in 1..Len(ops) :
            /\ ops'[k].id = ops[k].id
            /\ ops'[k].status = IF k \in {cur} THEN "ERROR" ELSE ops[k].status
  BY <1>1, OpsInLemma DEF TypeOK, Statuses
<1> QED
  BY <1>1, <1>2 DEF OpsEnded, SameIds

\* cancel_op() only ends operations.
LEMMA CancelEnds ==
    ASSUME TypeOK, NEW id, CancelOp(id)
    PROVE  OpsEnded /\ cur' = IF CancelsCurrent(id) THEN 0 ELSE cur
<1>1. /\ ops' = OpsIn(Matching(id), "CANCELLED") /\ removed' = removed
      /\ cur' = IF CancelsCurrent(id) THEN 0 ELSE cur
  BY DEF CancelOp
<1>2. /\ Len(ops') = Len(ops)
      /\ \A k \in 1..Len(ops) :
            /\ ops'[k].id = ops[k].id
            /\ ops'[k].status = IF k \in Matching(id) THEN "CANCELLED"
                                ELSE ops[k].status
  BY <1>1, OpsInLemma DEF TypeOK, Statuses
<1> QED
  BY <1>1, <1>2 DEF OpsEnded, SameIds

\* The steps that end operations without an answer: errors and cancellations.
LEMMA EndingThreads ==
    ASSUME IInv, IInv', Answers,
           \/ ReleaseSetOpError
           \/ \E id \in cancels : CancelOperations(id)
           \/ ControlCancel \/ RequestSetError \/ RecvTimeout \/ RecvBroken
    PROVE  Answers'
<1> USE DEF appVars, sendVars
<1>0. TypeOK /\ SenderFollows /\ ReadOpIsOwn /\ Lifecycle /\ CurrentPending
  BY DEF IInv, Answers, StreamsFollow
<1>1. CASE ReleaseSetOpError
  <2>1. OpsEnded
    BY <1>0, <1>1, ErrorEnds DEF ReleaseSetOpError
  <2> QED
    BY <1>0, <1>1, <2>1, EndedStep DEF ReleaseSetOpError, ClosedKept, Lifecycle
<1>2. ASSUME NEW id \in cancels, CancelOperations(id) PROVE Answers'
  <2>1. OpsEnded /\ cur' = IF CancelsCurrent(id) THEN 0 ELSE cur
    BY <1>0, <1>2, CancelEnds DEF CancelOperations
  <2>2. pollPc' \in {"wait", "passed"} =>
            pollPc' = pollPc /\ ~CancelsCurrent(id)
    BY <1>2 DEF CancelOperations, AfterNotifyResp
  <2> QED
    BY <1>0, <1>2, <2>1, <2>2, EndedStep DEF CancelOperations, ClosedKept,
       Lifecycle
<1>3. CASE ControlCancel
  <2>1. cur' = 0 /\ ops' = OpsIn({opRef}, "CANCELLED") /\ removed' = removed
    BY <1>3 DEF ControlCancel, NoCurrent
  <2>2. /\ Len(ops') = Len(ops)
        /\ \A k \in 1..Len(ops) :
              /\ ops'[k].id = ops[k].id
              /\ ops'[k].status = IF k \in {opRef} THEN "CANCELLED"
                                  ELSE ops[k].status
    BY <1>0, <2>1, OpsInLemma DEF TypeOK, Statuses
  <2>3. OpsEnded
    BY <2>1, <2>2 DEF OpsEnded, SameIds
  <2> QED
    BY <1>0, <1>3, <2>3, EndedStep DEF ControlCancel, ClosedKept, Lifecycle,
       AfterNotifyResp, SendFrame
<1>4. CASE RequestSetError
  <2>1. OpsEnded
    BY <1>0, <1>4, ErrorEnds DEF RequestSetError
  <2> QED
    BY <1>0, <1>4, <2>1, EndedStep DEF RequestSetError, ClosedKept, Lifecycle,
       AfterNotifyResp, SendFrame
<1>5. CASE RecvTimeout \/ RecvBroken
  <2>1. RecvAborts
    BY <1>5 DEF RecvTimeout, RecvBroken
  <2>2. OpsEnded
    BY <1>0, <2>1, ErrorEnds DEF RecvAborts
  <2> QED
    BY <1>0, <2>1, <2>2, EndedStep DEF RecvAborts, ClosedKept, Lifecycle,
       AfterNotifyResp, RecvFrame
<1> QED
  BY <1>1, <1>2, <1>3, <1>4, <1>5

-----------------------------------------------------------------------------
(* prepare(), and release() dropping the responses.                        *)

\* prepare(): the only session starts with nothing to tell.
LEMMA PrepareAnswers ==
    ASSUME IInv, IInv', Answers, SingleSession, Prepare
    PROVE  Answers'
<1>0. TypeOK /\ TypeOK' /\ OneSession /\ Lifecycle /\ StreamsFollow
  BY DEF IInv, Answers, StreamsFollow
<1>1. sessions = 0
  BY <1>0, BoundsAssumption DEF TypeOK, Prepare, SingleSession
<1>2. ops' = <<>> /\ responses' = <<>> /\ cur' = 0 /\ removed' = 0
      /\ sessions' = 1 /\ relPc' = "up" /\ pollPc' = "out"
      /\ told' = [id \in Ids |-> <<>>]
  BY <1>0, <1>1 DEF OneSession, Lifecycle, StreamsFollow, Prepare, opVars
<1>3. StreamsFollow'
  BY <1>2 DEF StreamsFollow, RepeatsCancel, StreamsOwned, StreamsOrdered,
     BegunHasStream, CurrentPending, Lifecycle
<1>4. TalesFollow'
  BY <1>2 DEF TalesFollow, OpsTold, StreamsTold, InOrder
<1>5. PollSleepsOnlyForCurrent'
  BY <1>2 DEF PollSleepsOnlyForCurrent
<1> QED
  BY <1>3, <1>4, <1>5 DEF Answers

\* release() drops the responses and finishes the current operation.
LEMMA DropAnswers ==
    ASSUME IInv, IInv', Answers, ReleaseResponses
    PROVE  Answers'
<1> USE Shape, ShapeNext
<1>0. /\ TypeOK /\ TypeOK' /\ OnlyCurrentIsLive /\ RepeatsCancel /\ Lifecycle
      /\ OpsTold /\ OneSession /\ TalesFollow
  BY DEF IInv, Answers, StreamsFollow, TalesFollow
<1>1. /\ UNCHANGED <<initialized, sessions, told>>
      /\ ops' = Finished /\ cur' = 0 /\ removed' = removed
      /\ relPc = "joinsend" /\ relPc' = "joinrecv"
      /\ pollPc' \notin {"wait", "passed"}
      /\ responses' = <<>> /\ DOMAIN responses' = {}
  BY DEF ReleaseResponses, FinishOp, NoCurrent, AfterNotifyResp
<1>2. /\ Len(ops') = Len(ops)
      /\ \A k \in 1..Len(ops) :
            /\ ops'[k].id = ops[k].id
            /\ \/ ops'[k].status = ops[k].status
               \/ k = cur /\ ops'[k].status = "END"
  BY <1>0, <1>1, FinishedLemma DEF TypeOK
<1>3. \A k \in 1..Len(ops) : Leads(k)' <=> Leads(k)
  BY <1>0, <1>2, LeadsFrame
<1>4. StreamsFollow'
  <2>1. \A k \in 1..Len(ops) : ops'[k].status # "CANCELLED" =>
            ops[k].status # "CANCELLED"
    BY <1>0, <1>2 DEF OnlyCurrentIsLive, Terminal
  <2>2. RepeatsCancel'
    BY <1>0, <1>2, <1>3, <2>1 DEF RepeatsCancel
  <2>3. StreamsOwned' /\ StreamsOrdered' /\ BegunHasStream' /\ CurrentPending'
    BY <1>1 DEF StreamsOwned, StreamsOrdered, BegunHasStream, CurrentPending
  <2>4. Lifecycle'
    BY <1>0, <1>1 DEF Lifecycle, OneSession
  <2> QED
    BY <2>2, <2>3, <2>4 DEF StreamsFollow
<1>5. TalesFollow'
  <2>1. \A id \in Ids : Unsent(id)' => Unsent(id)
    BY <1>0, <1>2 DEF Unsent
  <2>2. \A id \in Ids : InOrder(told'[id]) /\ (Unsent(id)' => told'[id] = <<>>)
    BY <1>0, <1>1, <2>1 DEF TalesFollow, InOrder
  <2>3. StreamsTold'
    BY <1>1 DEF StreamsTold
  <2>4. \A k \in 1..Len(ops) : ops'[k].status = "START" =>
            ops[k].status = "START"
    BY <1>2
  <2>5. OpsTold'
    <3> SUFFICES ASSUME NEW k \in 1..Len(ops)
                 PROVE  /\ k <= removed => Answered(ops[k].id)
                        /\ (removed < k /\ Leads(k)') =>
                              told[ops[k].id] \in {<<>>, <<"START">>}
                        /\ (removed + 1 < k /\ Leads(k)') =>
                              told[ops[k].id] = <<>>
                        /\ ops'[k].status = "START" => told[ops[k].id] = <<>>
      BY <1>0, <1>1, <1>2 DEF OpsTold, Answered, Has
    <3>1. k \in DOMAIN ops /\ (Leads(k)' <=> Leads(k))
      BY <1>0, <1>3
    <3>2. /\ k <= removed => Answered(ops[k].id)
          /\ (removed < k /\ Leads(k)) =>
                told[ops[k].id] \in {<<>>, <<"START">>}
          /\ (removed + 1 < k /\ Leads(k)) => told[ops[k].id] = <<>>
          /\ ops[k].status = "START" => told[ops[k].id] = <<>>
      BY <1>0, <3>1 DEF OpsTold
    <3> QED
      BY <2>4, <3>1, <3>2
  <2> QED
    BY <2>2, <2>3, <2>5 DEF TalesFollow
<1>6. PollSleepsOnlyForCurrent'
  BY <1>1 DEF PollSleepsOnlyForCurrent
<1> QED
  BY <1>4, <1>5, <1>6 DEF Answers

-----------------------------------------------------------------------------
(* A new operation.                                                        *)

\* A new operation is the newest, so it is told of after the others; one made
\* only to carry CANCELLED may repeat an id.
LEMMA NewOpAnswers ==
    ASSUME IInv, IInv', Answers, cur = 0, req.id \in Ids,
           NEW status \in {"START", "CANCELLED"}, NewOp(req.id, status),
           status = "START" => Unsent(req.id),
           UNCHANGED <<initialized, sessions, responses, relPc, told>>,
           relPc \notin {"down", "joinrecv"},
           pollPc' \in {"wait", "passed"} =>
                pollPc' = pollPc /\ status = "START"
    PROVE  Answers'
<1> USE Shape, ShapeNext
<1> SUFFICES ASSUME NEW n \in Nat, n = Len(ops), NEW id \in Ids, id = req.id
             PROVE  Answers'
  BY DEF IInv
<1>0. /\ TypeOK /\ TypeOK' /\ RepeatsCancel /\ StreamsOwned /\ StreamsOrdered
      /\ BegunHasStream /\ Lifecycle /\ TalesFollow /\ OpsTold /\ StreamsTold
      /\ PollSleepsOnlyForCurrent
  BY DEF IInv, Answers, StreamsFollow, TalesFollow
<1>1. /\ Len(ops') = n + 1 /\ removed' = removed
      /\ cur' = IF status = "START" THEN n + 1 ELSE 0
      /\ \A k \in 1..n : ops'[k] = ops[k]
      /\ ops'[n + 1].id = id /\ ops'[n + 1].status = status
  <2>1. status \in Statuses /\ id \in Nat
    BY DEF Statuses, Ids
  <2> QED
    BY <1>0, <2>1, NewOpLemma DEF NewOp
<1>2. \A k \in 1..n : Leads(k)' <=> Leads(k)
  BY <1>0, <1>1, LeadsFrame
<1>3. Leads(n + 1)' <=> Unsent(id)
  <2>1. \A j \in 1..((n + 1) - 1) : j \in 1..n /\ ops'[j].id = ops[j].id
    BY <1>0, <1>1
  <2>2. 1..((n + 1) - 1) = 1..n
    BY <1>0
  <2> QED
    BY <1>0, <1>1, <2>1, <2>2 DEF Leads, Unsent
<1>4. \A k \in DOMAIN ops' : k \in 1..n \/ k = n + 1
  BY <1>0, <1>1
<1>5. \A i \in 1..Len(responses) : ~Unsent(responses[i].id)
  BY <1>0 DEF StreamsOwned, Unsent
<1>6. \A i \in DOMAIN responses', k \in DOMAIN ops' :
        (Leads(k)' /\ ops'[k].id = responses'[i].id) => k \in 1..n /\ Leads(k)
  <2> SUFFICES ASSUME NEW i \in 1..Len(responses), NEW k \in DOMAIN ops',
                      Leads(k)', ops'[k].id = responses[i].id
               PROVE  k \in 1..n /\ Leads(k)
    BY <1>0
  <2>1. k # n + 1
    BY <1>1, <1>3, <1>5
  <2> QED
    BY <1>2, <1>4, <2>1
<1>7. StreamsFollow'
  <2>1. RepeatsCancel'
    BY <1>0, <1>1, <1>2, <1>3, <1>4 DEF RepeatsCancel
  <2>2. StreamsOwned'
    <3> SUFFICES ASSUME NEW i \in 1..Len(responses)
                 PROVE  \E k \in DOMAIN ops' :
                          /\ removed' < k /\ Leads(k)'
                          /\ ops'[k].id = responses'[i].id
                          /\ responses'[i].type # "uncompleted" =>
                                  ops'[k].status \in Terminal
      BY <1>0 DEF StreamsOwned
    <3>1. PICK k \in 1..n :
              /\ removed < k /\ Leads(k) /\ ops[k].id = responses[i].id
              /\ responses[i].type # "uncompleted" =>
                    ops[k].status \in Terminal
      BY <1>0 DEF StreamsOwned
    <3>2. k \in DOMAIN ops'
      BY <1>0, <1>1
    <3> QED
      BY <1>1, <1>2, <3>1, <3>2
  <2>3. StreamsOrdered'
    <3> SUFFICES ASSUME NEW i \in 1..Len(responses), NEW j \in 1..Len(responses),
                        NEW k \in DOMAIN ops', NEW l \in DOMAIN ops',
                        i < j, Leads(k)', Leads(l)',
                        ops'[k].id = responses[i].id,
                        ops'[l].id = responses[j].id
                 PROVE  k < l
      BY <1>0 DEF StreamsOrdered
    <3>1. k \in 1..n /\ Leads(k) /\ l \in 1..n /\ Leads(l)
      BY <1>0, <1>6
    <3> QED
      BY <1>0, <1>1, <3>1 DEF StreamsOrdered
  <2>4. BegunHasStream'
    <3> SUFFICES ASSUME NEW k \in DOMAIN ops', removed' < k,
                        ops'[k].status \in {"STREAMING", "END"}
                 PROVE  \E i \in DOMAIN responses' :
                          /\ responses'[i].id = ops'[k].id
                          /\ ops'[k].status = "END" =>
                                  responses'[i].type # "uncompleted"
      BY DEF BegunHasStream
    <3>1. k \in 1..n
      BY <1>1, <1>4
    <3>2. k \in DOMAIN ops /\ ops'[k] = ops[k]
      BY <1>0, <1>1, <3>1
    <3> QED
      BY <1>0, <1>1, <3>2 DEF BegunHasStream
  <2>5. CurrentPending' /\ Lifecycle'
    BY <1>0, <1>1 DEF CurrentPending, Lifecycle, IInv, OneSession
  <2> QED
    BY <2>1, <2>2, <2>3, <2>4, <2>5 DEF StreamsFollow
<1>8. TalesFollow'
  <2>1. \A x \in Ids : Unsent(x)' => Unsent(x)
    <3> SUFFICES ASSUME NEW x \in Ids, Unsent(x)', NEW k \in 1..n
                 PROVE  ops[k].id # x
      BY <1>0 DEF Unsent
    <3>1. k \in DOMAIN ops'
      BY <1>0, <1>1
    <3> QED
      BY <1>1, <3>1 DEF Unsent
  <2>2. \A x \in Ids : InOrder(told'[x]) /\ (Unsent(x)' => told'[x] = <<>>)
    BY <1>0, <2>1 DEF TalesFollow, InOrder
  <2>3. Unsent(id) => told[id] = <<>>
    BY <1>0 DEF TalesFollow
  <2>4. Unsent(id) => ~Has(responses, id)
    BY <1>0, <1>5 DEF Has
  <2>5. OpsTold'
    <3> SUFFICES ASSUME NEW k \in DOMAIN ops'
                 PROVE  /\ k <= removed => Answered(ops'[k].id)
                        /\ (removed < k /\ Leads(k)') =>
                              told[ops'[k].id] \in {<<>>, <<"START">>}
                        /\ (removed + 1 < k /\ Leads(k)') =>
                              told[ops'[k].id] = <<>>
                        /\ ops'[k].status = "START" =>
                              /\ told[ops'[k].id] = <<>>
                              /\ ~Has(responses, ops'[k].id)
      BY <1>1 DEF OpsTold, Answered, Has
    <3>1. CASE k \in 1..n
      <4>1. k \in DOMAIN ops /\ ops'[k] = ops[k]
        BY <1>0, <1>1, <3>1
      <4> QED
        BY <1>0, <1>2, <3>1, <4>1 DEF OpsTold
    <3>2. CASE k = n + 1
      <4>1. ~(k <= removed)
        BY <1>0, <3>2
      <4>2. ops'[k].id = id /\ (Leads(k)' => Unsent(id))
            /\ (ops'[k].status = "START" => Unsent(id))
        BY <1>1, <1>3, <3>2
      <4> QED
        BY <2>3, <2>4, <4>1, <4>2
    <3> QED
      BY <1>4, <3>1, <3>2
  <2>6. StreamsTold'
    BY <1>0 DEF StreamsTold
  <2> QED
    BY <2>2, <2>5, <2>6 DEF TalesFollow
<1>9. PollSleepsOnlyForCurrent'
  <2> SUFFICES ASSUME pollPc' \in {"wait", "passed"}, initialized'
               PROVE  cur' = removed' + 1 /\ PopType(responses) = "EMPTY"
    BY DEF PollSleepsOnlyForCurrent, PopType, Live
  <2>1. ~HasFront
    BY <1>0, Shape DEF PollSleepsOnlyForCurrent
  <2>2. removed = n
    BY <1>0, <2>1 DEF HasFront
  <2>3. responses = <<>>
    <3>1. \A i \in 1..Len(responses) : FALSE
      BY <1>0, <2>2 DEF StreamsOwned
    <3> QED
      BY <1>0, <3>1
  <2> QED
    BY <1>1, <2>2, <2>3 DEF PopType
<1> HIDE Shape, ShapeNext
<1> QED
  BY <1>7, <1>8, <1>9 DEF Answers

\* do_ctl_change_op() makes an operation: to start, or to tell of CANCELLED.
LEMMA NewOpThreads ==
    ASSUME IInv, IInv', Answers, ControlStart \/ ControlCancelUnsent
    PROVE  Answers'
<1>0. TypeOK /\ IdsKnown /\ NotBegun /\ SenderFollows /\ OneSession
  BY DEF IInv
<1>1. sendPc = "change" /\ InHand
  BY DEF ControlStart, ControlCancelUnsent, InHand
<1>2. req.id \in Ids
  BY <1>0, <1>1, BoundsAssumption DEF IdsKnown, TypeOK, Ids
<1>3. relPc \notin {"down", "joinrecv"}
  BY <1>0, <1>1 DEF OneSession
<1>4. cur = 0
  BY <1>0, <1>1, Indices DEF SenderFollows, ControlStart, ControlCancelUnsent
<1>5. CASE ControlStart
  <2>1. NewOp(req.id, "START") /\ Unsent(req.id)
    BY <1>0, <1>1, <1>5 DEF ControlStart, NotBegun
  <2> QED
    BY <1>2, <1>3, <1>4, <1>5, <2>1, NewOpAnswers DEF ControlStart, SendFrame
<1>6. CASE ControlCancelUnsent
  <2>1. NewOp(req.id, "CANCELLED") /\ pollPc' \notin {"wait", "passed"}
    BY <1>6 DEF ControlCancelUnsent, AfterNotifyResp
  <2> QED
    BY <1>2, <1>3, <1>4, <1>6, <2>1, NewOpAnswers DEF ControlCancelUnsent,
       SendFrame
<1> QED
  BY <1>5, <1>6

-----------------------------------------------------------------------------
(* A response to the current operation.                                    *)

\* The types of the server's responses.
Types == {"INTERMEDIATE", "ASR_FINISH", "FINISH", "FAILED", "UNKNOWN", "EXTRA"}

\* A last response ends the stream of the operation, any other leaves it on,
\* and the first one starts it.
LEMMA WithResponseLemma ==
    ASSUME TypeOK, NEW type \in Types, NEW id \in Nat,
           ops[cur].status = "START" => ~Has(responses, id),
           NEW n \in Nat, n = Len(responses),
           NEW r, r = WithResponse(id, type)
    PROVE  /\ Len(r) = IF ops[cur].status = "START" THEN n + 1 ELSE n
           /\ \A i \in 1..n :
                /\ r[i].id = responses[i].id
                /\ r[i].polling = responses[i].polling
                /\ r[i].id # id => r[i].type = responses[i].type
           /\ \A i \in 1..Len(r) :
                (r[i].id = id /\ type \in {"FINISH", "FAILED"}) =>
                    r[i].type # "uncompleted"
           /\ type \notin {"FINISH", "FAILED"} =>
                \A i \in 1..n : r[i].type = responses[i].type
           /\ ops[cur].status = "START" =>
                /\ r[n + 1].id = id /\ r[n + 1].polling = 0
                /\ type \notin {"FINISH", "FAILED"} =>
                        r[n + 1].type = "uncompleted"
<1> DEFINE D == {"INTERMEDIATE", "ASR_FINISH"}
           q == IF ops[cur].status = "START" THEN Start(responses, id)
                ELSE responses
<1>0. responses \in Queues(Nat, D)
  BY Shape DEF TypeOK, ResponseStreams
<1> HIDE DEF D
<1>1. /\ q \in Queues(Nat, D)
      /\ Len(q) = IF ops[cur].status = "START" THEN n + 1 ELSE n
      /\ \A i \in 1..n : q[i] = responses[i]
      /\ ops[cur].status = "START" =>
            /\ q[n + 1].id = id /\ q[n + 1].polling = 0
            /\ q[n + 1].type = "uncompleted"
  <2>1. CASE ops[cur].status = "START"
    <3>1. q = Start(responses, id) /\ ~Has(responses, id)
      BY <2>1
    <3> HIDE DEF q
    <3> QED
      BY <1>0, <2>1, <3>1, StartLemma
  <2>2. CASE ops[cur].status # "START"
    BY <1>0, <2>2
  <2> QED
    BY <2>1, <2>2
<1>2. r = CASE type = "FINISH" -> End(q, id)
            [] type = "FAILED" -> Erase(q, id, "error")
            [] type = "UNKNOWN" -> q
            [] type = "EXTRA"  -> Stream(q, id, "INTERMEDIATE")
            [] OTHER           -> Stream(q, id, type)
  BY DEF WithResponse
<1> HIDE DEF q
<1>3. /\ Len(r) = Len(q)
      /\ \A i \in 1..Len(q) :
            /\ r[i].id = q[i].id /\ r[i].polling = q[i].polling
            /\ q[i].id # id => r[i].type = q[i].type
            /\ (q[i].id = id /\ type \in {"FINISH", "FAILED"}) =>
                    r[i].type # "uncompleted"
            /\ type \notin {"FINISH", "FAILED"} => r[i].type = q[i].type
  <2>1. CASE type = "FINISH"
    <3>1. r = End(q, id)
      BY <1>2, <2>1
    <3> QED
      BY <1>1, <2>1, <3>1, EndLemma DEF SameTags
  <2>2. CASE type = "FAILED"
    <3>1. r = Erase(q, id, "error")
      BY <1>2, <2>2
    <3>2. /\ SameTags(q, r)
          /\ \A i \in 1..Len(q) :
                r[i].type = IF q[i].id = id THEN "error" ELSE q[i].type
      BY <1>1, <3>1, EraseLemma, EraseTypes
    <3> QED
      BY <2>2, <3>2 DEF SameTags
  <2>3. CASE type \in D \/ type = "EXTRA"
    <3>1. /\ type \notin {"FINISH", "FAILED"}
          /\ \E d \in D : r = Stream(q, id, d)
      BY <1>2, <2>3 DEF D
    <3>2. \A d \in D : /\ SameTags(q, Stream(q, id, d))
                         /\ SameTypes(q, Stream(q, id, d))
      BY <1>1, StreamLemma
    <3>3. SameTags(q, r) /\ SameTypes(q, r)
      BY <3>1, <3>2
    <3> QED
      BY <3>1, <3>3 DEF SameTags, SameTypes
  <2>4. CASE type = "UNKNOWN"
    BY <1>2, <2>4
  <2> QED
    BY <2>1, <2>2, <2>3, <2>4 DEF D, Types
<1>4. Len(q) = n \/ Len(q) = n + 1
  BY <1>1
<1>5. \A i \in 1..n : i \in 1..Len(q)
  BY <1>0, <1>4
<1>6. ops[cur].status = "START" => n + 1 \in 1..Len(q)
  BY <1>0, <1>1
<1>7. /\ Len(r) = IF ops[cur].status = "START" THEN n + 1 ELSE n
      /\ \A i \in 1..n :
            /\ r[i].id = responses[i].id
            /\ r[i].polling = responses[i].polling
            /\ r[i].id # id => r[i].type = responses[i].type
      /\ \A i \in 1..Len(r) :
            (r[i].id = id /\ type \in {"FINISH", "FAILED"}) =>
                r[i].type # "uncompleted"
  BY <1>1, <1>3, <1>5
<1>8. type \notin {"FINISH", "FAILED"} =>
        \A i \in 1..n : r[i].type = responses[i].type
  BY <1>1, <1>3, <1>5
<1>9. ops[cur].status = "START" =>
        /\ r[n + 1].id = id /\ r[n + 1].polling = 0
        /\ type \notin {"FINISH", "FAILED"} => r[n + 1].type = "uncompleted"
  BY <1>1, <1>3, <1>6
<1> QED
  BY <1>7, <1>8, <1>9

\* The responses after one to the current operation, in the next state.
LEMMA ResponseToCurrent ==
    ASSUME TypeOK, NEW type \in Types, cur # 0,
           ops[cur].status = "START" => ~Has(responses, ops[cur].id),
           NEW n \in Nat, n = Len(responses),
           responses' = WithResponse(ops[cur].id, type)
    PROVE  /\ Len(responses') = IF ops[cur].status = "START" THEN n + 1 ELSE n
           /\ \A i \in 1..n :
                /\ responses'[i].id = responses[i].id
                /\ responses'[i].polling = responses[i].polling
                /\ responses'[i].id # ops[cur].id =>
                        responses'[i].type = responses[i].type
           /\ \A i \in 1..Len(responses') :
                (responses'[i].id = ops[cur].id /\ type \in {"FINISH", "FAILED"}) =>
                    responses'[i].type # "uncompleted"
           /\ type \notin {"FINISH", "FAILED"} =>
                \A i \in 1..n : responses'[i].type = responses[i].type
           /\ ops[cur].status = "START" =>
                /\ responses'[n + 1].id = ops[cur].id /\ responses'[n + 1].polling = 0
                /\ type \notin {"FINISH", "FAILED"} =>
                        responses'[n + 1].type = "uncompleted"
<1>1. ops[cur].id \in Nat
  <2>1. cur \in 1..Len(ops)
    BY Shape
  <2> QED
    BY <2>1, Shape
<1> QED
  BY <1>1, WithResponseLemma, SMTT(30)

\* A response to the current operation is recorded in its stream.
LEMMA RecvAnswers ==
    ASSUME IInv, IInv', Answers, cur # 0, NEW type \in Types,
           NEW status \in {"STREAMING", "END"},
           status = "END" <=> type \in {"FINISH", "FAILED"},
           responses' = WithResponse(ops[cur].id, type),
           ops' = CurrentIn(status), cur' \in {0, cur},
           UNCHANGED <<initialized, sessions, removed, relPc, told>>,
           pollPc' = "wait" => UNCHANGED <<pollPc, cur, responses>>,
           pollPc' = "passed" => pollPc \in {"wait", "passed"} /\ cur' = cur
    PROVE  Answers'
<1>r. ASSUME NEW n \in Nat, n = Len(responses)
      PROVE  /\ Len(responses') = IF ops[cur].status = "START" THEN n + 1 ELSE n
             /\ \A i \in 1..n :
                   /\ responses'[i].id = responses[i].id
                   /\ responses'[i].polling = responses[i].polling
                   /\ responses'[i].id # ops[cur].id =>
                           responses'[i].type = responses[i].type
             /\ \A i \in 1..Len(responses') :
                   (responses'[i].id = ops[cur].id /\ type \in {"FINISH", "FAILED"}) =>
                       responses'[i].type # "uncompleted"
             /\ type \notin {"FINISH", "FAILED"} =>
                   \A i \in 1..n : responses'[i].type = responses[i].type
             /\ ops[cur].status = "START" =>
                   /\ responses'[n + 1].id = ops[cur].id /\ responses'[n + 1].polling = 0
                   /\ type \notin {"FINISH", "FAILED"} =>
                           responses'[n + 1].type = "uncompleted"
  <2>1. TypeOK
    BY DEF IInv
  <2>2. ops[cur].status = "START" => ~Has(responses, ops[cur].id)
    <3>1. OpsTold
      BY DEF Answers, TalesFollow
    <3>2. cur \in DOMAIN ops
      BY <2>1, Shape
    <3> QED
      BY <3>1, <3>2 DEF OpsTold
  <2> QED
    BY <1>r, <2>1, <2>2, ResponseToCurrent
<1> USE Shape, ShapeNext
<1>a. /\ Len(responses) \in Nat /\ cur \in 1..Len(ops)
      /\ ops[cur].id \in Nat
  <2>1. TypeOK
    BY DEF IInv
  <2>2. cur \in 1..Len(ops)
    BY <2>1
  <2> QED
    BY <2>1, <2>2
<1> SUFFICES ASSUME NEW n \in Nat, n = Len(responses), NEW c \in 1..Len(ops),
                    c = cur, NEW id \in Nat, id = ops[c].id
             PROVE  Answers'
  BY <1>a
<1>0. /\ TypeOK /\ TypeOK' /\ OnlyCurrentIsLive /\ RepeatsCancel
      /\ StreamsOwned /\ StreamsOrdered /\ BegunHasStream /\ CurrentPending
      /\ Lifecycle /\ TalesFollow /\ OpsTold /\ StreamsTold
  BY DEF IInv, Answers, StreamsFollow, TalesFollow
<1>d. /\ Len(ops) \in Nat /\ DOMAIN ops = 1..Len(ops)
      /\ DOMAIN ops' = 1..Len(ops') /\ removed \in 0..Len(ops)
      /\ DOMAIN responses = 1..n
      /\ Len(responses') \in Nat /\ DOMAIN responses' = 1..Len(responses')
  BY <1>0
<1>1. /\ Len(ops') = Len(ops)
      /\ \A k \in 1..Len(ops) :
            /\ ops'[k].id = ops[k].id
            /\ ops'[k].status = IF k = c THEN status ELSE ops[k].status
  <2> DEFINE w == {c}
  <2>1. status \in Statuses /\ ops' = OpsIn(w, status)
    BY DEF Statuses, CurrentIn
  <2>2. \A k : k \in w <=> k = c
    OBVIOUS
  <2>3. ops \in Seq(Operations)
    BY <1>0 DEF TypeOK
  <2> HIDE DEF w
  <2>4. /\ Len(ops') = Len(ops)
        /\ \A k \in 1..Len(ops) :
              /\ ops'[k].id = ops[k].id
              /\ ops'[k].status = IF k \in w THEN status ELSE ops[k].status
    BY <2>1, <2>3, OpsInLemma
  <2> QED
    BY <2>2, <2>4
<1>2. \A k \in 1..Len(ops) : Leads(k)' <=> Leads(k)
  BY <1>0, <1>1, LeadsFrame
<1>3. /\ c = Len(ops) /\ ops[c].status \in {"START", "STREAMING"}
      /\ Leads(c) /\ removed < c /\ relPc \notin {"down", "joinrecv"}
  BY <1>0 DEF OnlyCurrentIsLive, Terminal, Statuses, RepeatsCancel,
     CurrentPending, Lifecycle
<1>4. ops[c].status = "START" => told[id] = <<>> /\ ~Has(responses, id)
  BY <1>0 DEF OpsTold
<1>5. /\ Len(responses') = IF ops[c].status = "START" THEN n + 1 ELSE n
      /\ \A i \in 1..n :
            /\ responses'[i].id = responses[i].id
            /\ responses'[i].polling = responses[i].polling
            /\ responses'[i].id # id =>
                    responses'[i].type = responses[i].type
      /\ \A i \in 1..Len(responses') :
            (responses'[i].id = id /\ type \in {"FINISH", "FAILED"}) =>
                responses'[i].type # "uncompleted"
      /\ type \notin {"FINISH", "FAILED"} =>
            \A i \in 1..n : responses'[i].type = responses[i].type
      /\ ops[c].status = "START" =>
            /\ responses'[n + 1].id = id /\ responses'[n + 1].polling = 0
            /\ type \notin {"FINISH", "FAILED"} =>
                    responses'[n + 1].type = "uncompleted"
  BY <1>r
<1>6. \A i \in DOMAIN responses' :
        i \in 1..n \/ (i = n + 1 /\ ops[c].status = "START")
  <2> HIDE Shape, ShapeNext
  <2> QED
    BY <1>d, <1>5
<1>7. RepeatsCancel'
  BY <1>0, <1>1, <1>2, <1>3 DEF RepeatsCancel
<1>8. StreamsOwned'
  <2> SUFFICES ASSUME NEW i \in DOMAIN responses'
               PROVE  \E k \in DOMAIN ops' :
                        /\ removed' < k /\ Leads(k)'
                        /\ ops'[k].id = responses'[i].id
                        /\ responses'[i].type # "uncompleted" =>
                                ops'[k].status \in Terminal
    BY DEF StreamsOwned
  <2> HIDE Shape, ShapeNext
  <2>1. CASE i = n + 1 /\ ops[c].status = "START"
    <3>1. /\ c \in DOMAIN ops' /\ removed' < c /\ Leads(c)'
          /\ ops'[c].id = responses'[i].id /\ ops'[c].status = status
      BY <1>0, <1>d, <1>1, <1>2, <1>3, <1>5, <2>1
    <3>2. responses'[i].type # "uncompleted" => status \in Terminal
      BY <1>5, <2>1 DEF Terminal
    <3> QED
      BY <3>1, <3>2
  <2>2. CASE i \in 1..n
    <3>1. PICK k \in 1..Len(ops) :
              /\ removed < k /\ Leads(k) /\ ops[k].id = responses[i].id
              /\ responses[i].type # "uncompleted" =>
                    ops[k].status \in Terminal
      BY <1>0, <1>d, <2>2 DEF StreamsOwned
    <3>2. k \in DOMAIN ops' /\ Leads(k)' /\ ops'[k].id = responses'[i].id
      BY <1>0, <1>d, <1>1, <1>2, <1>5, <2>2, <3>1
    <3>3. CASE k = c
      <4>1. ops'[k].status = status
        BY <1>1, <3>3
      <4>2. status = "STREAMING" => responses'[i].type = "uncompleted"
        BY <1>3, <1>5, <2>2, <3>1, <3>3 DEF Terminal
      <4> QED
        BY <3>1, <3>2, <4>1, <4>2 DEF Terminal
    <3>4. CASE k # c
      <4>1. responses[i].id # id
        <5> SUFFICES ASSUME ops[k].id = ops[c].id PROVE FALSE
          BY <3>1
        <5>1. k <= c /\ c <= k
          BY <1>0, <1>d, <1>3, <3>1, LeadAlone
        <5> QED
          BY <3>4, <5>1
      <4>2. responses'[i].type = responses[i].type
        BY <1>5, <2>2, <4>1
      <4> QED
        BY <1>1, <3>1, <3>2, <3>4, <4>2
    <3> QED
      BY <3>3, <3>4
  <2> QED
    BY <1>6, <2>1, <2>2
<1>9. StreamsOrdered'
  <2> SUFFICES ASSUME NEW i \in DOMAIN responses', NEW j \in DOMAIN responses',
                      NEW k \in DOMAIN ops', NEW l \in DOMAIN ops',
                      i < j, Leads(k)', Leads(l)',
                      ops'[k].id = responses'[i].id,
                      ops'[l].id = responses'[j].id
               PROVE  k < l
    BY DEF StreamsOrdered
  <2> HIDE Shape, ShapeNext
  <2>1. /\ k \in 1..Len(ops) /\ l \in 1..Len(ops) /\ Leads(k) /\ Leads(l)
        /\ ops[k].id = responses'[i].id /\ ops[l].id = responses'[j].id
    BY <1>0, <1>d, <1>1, <1>2
  <2>2. i \in 1..n
    <3>1. i # n + 1
      BY <1>0, <1>d, <1>6
    <3> QED
      BY <1>6, <3>1
  <2>3. ops[k].id = responses[i].id
    BY <1>5, <2>1, <2>2
  <2>4. CASE j \in 1..n
    BY <1>0, <1>d, <1>5, <2>1, <2>2, <2>3, <2>4 DEF StreamsOrdered
  <2>5. CASE j = n + 1 /\ ops[c].status = "START"
    <3>1. ops[l].id = ops[c].id
      BY <1>5, <2>1, <2>5
    <3>2. c <= l
      BY <1>0, <1>d, <1>3, <2>1, <3>1, LeadAlone
    <3>3. l = c
      BY <1>0, <1>d, <1>3, <2>1, <3>2
    <3>4. k # c
      BY <1>0, <1>d, <1>4, <2>2, <2>3, <2>5 DEF Has
    <3> QED
      BY <1>0, <1>d, <1>3, <2>1, <3>3, <3>4
  <2> QED
    BY <1>6, <2>4, <2>5
<1>10. BegunHasStream'
  <2> SUFFICES ASSUME NEW k \in DOMAIN ops', removed' < k,
                      ops'[k].status \in {"STREAMING", "END"}
               PROVE  \E i \in DOMAIN responses' :
                        /\ responses'[i].id = ops'[k].id
                        /\ ops'[k].status = "END" =>
                                responses'[i].type # "uncompleted"
    BY DEF BegunHasStream
  <2>1. k \in 1..Len(ops) /\ ops'[k].id = ops[k].id
    BY <1>0, <1>1
  <2>2. \A i \in 1..n : i \in DOMAIN responses'
    BY <1>0, <1>5
  <2>3. CASE k = c /\ ops[c].status = "START"
    <3>1. n + 1 \in DOMAIN responses'
      BY <1>0, <1>5, <2>3
    <3>2. responses'[n + 1].id = ops'[k].id
      BY <1>5, <2>1, <2>3
    <3>3. ops'[k].status = "END" => responses'[n + 1].type # "uncompleted"
      BY <1>0, <1>1, <1>5, <2>1, <2>3, <3>1, <3>2
    <3> QED
      BY <3>1, <3>2, <3>3
  <2>4. CASE k = c /\ ops[c].status = "STREAMING"
    <3>1. PICK i \in 1..n : responses[i].id = ops[c].id
      BY <1>0, <1>3, <2>4 DEF BegunHasStream
    <3>2. responses'[i].id = ops'[k].id
      BY <1>5, <2>1, <2>4, <3>1
    <3>3. ops'[k].status = "END" => responses'[i].type # "uncompleted"
      BY <1>0, <1>1, <1>5, <2>1, <2>2, <2>4, <3>1, <3>2
    <3> QED
      BY <2>2, <3>2, <3>3
  <2>5. CASE k # c
    <3>1. ops'[k].status = ops[k].status /\ k \in DOMAIN ops
      BY <1>0, <1>1, <2>1, <2>5
    <3>2. PICK i \in 1..n :
              /\ responses[i].id = ops[k].id
              /\ ops[k].status = "END" => responses[i].type # "uncompleted"
      BY <1>0, <1>3, <3>1 DEF BegunHasStream
    <3>3. /\ i \in DOMAIN responses' /\ responses'[i].id = ops'[k].id
          /\ responses'[i].id # id =>
                responses'[i].type = responses[i].type
          /\ (responses'[i].id = id /\ type \in {"FINISH", "FAILED"}) =>
                responses'[i].type # "uncompleted"
          /\ type \notin {"FINISH", "FAILED"} =>
                responses'[i].type = responses[i].type
      BY <1>0, <1>5, <2>1, <2>2, <3>2
    <3> QED
      BY <3>1, <3>2, <3>3
  <2> QED
    BY <1>3, <2>3, <2>4, <2>5
<1>11. StreamsFollow'
  <2>1. CurrentPending' /\ Lifecycle'
    BY <1>0, <1>3 DEF CurrentPending, Lifecycle
  <2> QED
    BY <1>7, <1>8, <1>9, <1>10, <2>1 DEF StreamsFollow
<1>12. TalesFollow'
  <2>1. \A x \in Ids : Unsent(x)' => Unsent(x)
    BY <1>0, <1>1 DEF Unsent
  <2>2. \A x \in Ids : InOrder(told'[x]) /\ (Unsent(x)' => told'[x] = <<>>)
    BY <1>0, <2>1 DEF TalesFollow, InOrder
  <2>3. OpsTold'
    <3> SUFFICES ASSUME NEW k \in 1..Len(ops)
                 PROVE  /\ k <= removed => Answered(ops[k].id)
                        /\ (removed < k /\ Leads(k)') =>
                              told[ops[k].id] \in {<<>>, <<"START">>}
                        /\ (removed + 1 < k /\ Leads(k)') =>
                              told[ops[k].id] = <<>>
                        /\ ops'[k].status # "START"
      BY <1>0, <1>1 DEF OpsTold, Answered
    <3>1. ops'[k].status # "START"
      BY <1>0, <1>1 DEF OnlyCurrentIsLive, Terminal
    <3> QED
      BY <1>0, <1>2, <3>1 DEF OpsTold
  <2>4. StreamsTold'
    <3> SUFFICES ASSUME NEW i \in DOMAIN responses'
                 PROVE  told[responses'[i].id] =
                            IF responses'[i].polling = 1 THEN <<"START">>
                            ELSE <<>>
      BY DEF StreamsTold
    <3>1. CASE i \in 1..n
      <4>1. /\ responses'[i].id = responses[i].id
            /\ responses'[i].polling = responses[i].polling
        BY <1>5, <3>1
      <4>2. i \in DOMAIN responses
        BY <1>0, <3>1
      <4>3. told[responses[i].id] =
                IF responses[i].polling = 1 THEN <<"START">> ELSE <<>>
        BY <1>0, <4>2 DEF StreamsTold
      <4> QED
        BY <4>1, <4>3
    <3>2. CASE i = n + 1 /\ ops[c].status = "START"
      BY <1>4, <1>5, <3>2
    <3> QED
      BY <1>6, <3>1, <3>2
  <2> QED
    BY <2>2, <2>3, <2>4 DEF TalesFollow
<1>13. PollSleepsOnlyForCurrent'
  <2>1. PollSleepsOnlyForCurrent /\ HasFront
    BY <1>0, <1>d DEF Answers, CurrentPending, HasFront
  <2>2. pollPc \in {"wait", "passed"} /\ initialized => cur = removed + 1
    BY <2>1 DEF PollSleepsOnlyForCurrent
  <2>3. pollPc = "wait" /\ initialized => PopType(responses) = "EMPTY"
    BY <2>1 DEF PollSleepsOnlyForCurrent
  <2> QED
    BY <2>2, <2>3 DEF PollSleepsOnlyForCurrent, PopType, Live
<1> QED
  BY <1>11, <1>12, <1>13 DEF Answers

\* gen_results records a response to the current operation.
LEMMA RecvThreads ==
    ASSUME IInv, IInv', Answers, NEW id \in Ids, NEW type \in RespTypes,
           \/ RecvIntermediate(id, type) \/ RecvLast(id, type)
           \/ RecvUnknown(id, type)
    PROVE  Answers'
<1>1. type \in Types
  BY ChoicesAssumption DEF Types
<1>2. CASE RecvIntermediate(id, type)
  BY <1>1, <1>2, RecvAnswers DEF RecvIntermediate, RecvFrame, AfterNotifyResp
<1>3. CASE RecvLast(id, type)
  BY <1>1, <1>3, RecvAnswers DEF RecvLast, RecvFrame, NoCurrent,
     AfterNotifyResp
<1>4. CASE RecvUnknown(id, type)
  BY <1>1, <1>4, RecvAnswers DEF RecvUnknown, RecvFrame
<1> QED
  BY <1>2, <1>3, <1>4

-----------------------------------------------------------------------------
(* What poll() takes and tells.                                            *)

\* One more result keeps what was told of an id in order: START comes first,
\* END after START only, an error after no other last result, and a
\* cancellation after anything.
LEMMA TaleAppend ==
    ASSUME NEW tale \in Seq(Results), InOrder(tale), NEW t \in Results,
           t # "DATA", t = "START" => tale = <<>>,
           t = "END" => tale = <<"START">>,
           t = "ERROR" => tale \in {<<>>, <<"START">>}
    PROVE  /\ InOrder(Append(tale, t))
           /\ t \in Terminal => \E k \in DOMAIN Append(tale, t) :
                                    Append(tale, t)[k] \in Terminal
           /\ \A k \in DOMAIN tale : /\ k \in DOMAIN Append(tale, t)
                                     /\ Append(tale, t)[k] = tale[k]
<1>0. Len(tale) \in Nat /\ Append(tale, t) \in Seq(Results)
  OBVIOUS
<1> SUFFICES ASSUME NEW n \in Nat, n = Len(tale),
                    NEW r \in Seq(Results), r = Append(tale, t)
             PROVE  /\ InOrder(r)
                    /\ t \in Terminal => \E k \in DOMAIN r : r[k] \in Terminal
                    /\ \A k \in DOMAIN tale : k \in DOMAIN r /\ r[k] = tale[k]
  BY <1>0
<1>1. /\ DOMAIN r = 1..(n + 1) /\ DOMAIN tale = 1..n
      /\ \A k \in 1..n : r[k] = tale[k]
      /\ r[n + 1] = t
  OBVIOUS
<1>2. ASSUME NEW k \in 1..(n + 1)
      PROVE  /\ r[k] = "START" => k = 1
             /\ r[k] # "DATA"
             /\ r[k] = "END" => r[1] = "START"
             /\ \A j \in 1..(k - 1) : r[j] \in Terminal => r[k] = "CANCELLED"
  <2>1. CASE k \in 1..n
    <3>1. /\ k \in DOMAIN tale /\ 1 \in 1..n /\ r[k] = tale[k]
          /\ r[1] = tale[1] /\ \A j \in 1..(k - 1) : r[j] = tale[j]
      BY <1>1, <2>1
    <3> QED
      BY <3>1 DEF InOrder
  <2>2. CASE k = n + 1
    <3>1. r[k] = t /\ \A j \in 1..(k - 1) : j \in 1..n /\ r[j] = tale[j]
      BY <1>1, <2>2
    <3>2. t = "START" => k = 1
      BY <2>2
    <3>3. t = "END" => n = 1 /\ tale[1] = "START"
      OBVIOUS
    <3>4. t # "CANCELLED" => \A j \in 1..n : tale[j] \notin Terminal
      <4>1. CASE tale = <<>>
        BY <4>1
      <4>2. CASE tale = <<"START">>
        BY <4>2 DEF Terminal
      <4>3. t \in {"START", "END", "CANCELLED", "ERROR"}
        BY DEF Results
      <4> QED
        BY <4>1, <4>2, <4>3
    <3>5. t = "END" => r[1] = "START"
      BY <1>1, <3>3
    <3> QED
      BY <3>1, <3>2, <3>4, <3>5
  <2> QED
    BY <2>1, <2>2
<1>3. InOrder(r)
  BY <1>1, <1>2 DEF InOrder
<1>4. n + 1 \in DOMAIN r
  BY <1>1
<1>5. \A k \in DOMAIN tale : k \in DOMAIN r /\ r[k] = tale[k]
  BY <1>1
<1> QED
  BY <1>1, <1>3, <1>4, <1>5

\* poll() reports the last result of the front operation, whose stream, if it
\* has one, goes with it.
LEMMA FrontEnds ==
    ASSUME IInv, IInv', Answers, HasFront, Front.status \in Terminal,
           NEW t \in Terminal, t = "END" => told[Front.id] = <<"START">>,
           t = "ERROR" => Leads(removed + 1),
           told' = [told EXCEPT ![Front.id] = Append(@, t)],
           removed' = removed + 1,
           responses' = IF Has(responses, Front.id) THEN Tail(responses)
                        ELSE responses,
           UNCHANGED <<initialized, sessions, ops, cur, relPc>>,
           pollPc' \notin {"wait", "passed"}
    PROVE  Answers'
<1>0. /\ TypeOK /\ TypeOK' /\ OnlyCurrentIsLive /\ IdsKnown /\ OneSession
      /\ RepeatsCancel /\ StreamsOwned /\ StreamsOrdered /\ BegunHasStream
      /\ CurrentPending /\ Lifecycle /\ TalesFollow /\ OpsTold /\ StreamsTold
  BY DEF IInv, Answers, StreamsFollow, TalesFollow
<1>1. /\ removed + 1 \in 1..Len(ops) /\ ops[removed + 1].id \in Ids
      /\ removed + 1 \in Nat /\ Len(responses) \in Nat
  <2>1. removed + 1 \in 1..Len(ops) /\ removed + 1 \in DOMAIN ops
    BY <1>0, Shape DEF HasFront
  <2>2. ops[removed + 1].id \in 1..nextId /\ nextId \in 0..MaxId
    BY <1>0, <2>1 DEF IdsKnown, TypeOK
  <2> QED
    BY <1>0, <2>1, <2>2, Shape, BoundsAssumption DEF Ids
<1> SUFFICES ASSUME NEW f \in 1..Len(ops), f = removed + 1,
                    NEW id \in Ids, id = ops[f].id,
                    NEW n \in Nat, n = Len(responses)
             PROVE  Answers'
  BY <1>1
<1> USE Shape, ShapeNext
<1>d. /\ Len(ops) \in Nat /\ DOMAIN ops = 1..Len(ops)
      /\ DOMAIN responses = 1..n /\ removed \in 0..Len(ops)
      /\ Len(responses') \in Nat /\ DOMAIN responses' = 1..Len(responses')
      /\ cur \in 0..Len(ops)
  BY <1>0
<1>2. /\ removed' = f /\ told' = [told EXCEPT ![id] = Append(@, t)]
      /\ ops[f].status \in Terminal /\ id = Front.id
      /\ responses' = IF Has(responses, id) THEN Tail(responses) ELSE responses
  BY DEF Front
<1>3. \A k \in 1..Len(ops) : Leads(k)' <=> Leads(k)
  BY <1>0, LeadsFrame
<1>4. told \in [Ids -> Seq(Results)] /\ t \in Results
  BY <1>0 DEF TypeOK, Terminal, Results
<1>5. /\ told'[id] = Append(told[id], t)
      /\ \A x \in Ids : x # id => told'[x] = told[x]
  BY <1>2, <1>4
\* The streams that are left are those of the other ids.
<1>6. \A i \in DOMAIN responses' :
        \E j \in 1..n : /\ responses'[i] = responses[j]
                        /\ responses[j].id # id
                        /\ j = IF Has(responses, id) THEN i + 1 ELSE i
  <2>1. CASE Has(responses, id)
    <3>1. n # 0 /\ \A i \in 2..n : responses[i].id # id
      BY <1>0, <1>2, <2>1, FrontStream
    <3>2. responses' = Tail(responses)
      BY <1>2, <2>1
    <3>3. responses \in Seq(Streams(Nat, {"INTERMEDIATE", "ASR_FINISH"}))
      BY <1>0 DEF TypeOK, ResponseStreams, Queues
    <3>4. /\ DOMAIN responses' = 1..(n - 1)
          /\ \A i \in 1..(n - 1) : responses'[i] = responses[i + 1]
      BY <3>1, <3>2, <3>3
    <3>5. \A i \in 1..(n - 1) : i + 1 \in 1..n /\ i + 1 \in 2..n
      OBVIOUS
    <3> QED
      BY <2>1, <3>1, <3>4, <3>5
  <2>2. CASE ~Has(responses, id)
    BY <1>0, <1>2, <2>2 DEF Has
  <2> QED
    BY <2>1, <2>2
<1>7. \A j \in 1..n : responses[j].id # id =>
        \E i \in DOMAIN responses' : responses'[i] = responses[j]
  <2>1. CASE Has(responses, id)
    <3>1. n # 0 /\ responses[1].id = id
      BY <1>0, <1>2, <2>1, FrontStream
    <3>2. responses' = Tail(responses)
      BY <1>2, <2>1
    <3>3. responses \in Seq(Streams(Nat, {"INTERMEDIATE", "ASR_FINISH"}))
      BY <1>0 DEF TypeOK, ResponseStreams, Queues
    <3>4. /\ DOMAIN responses' = 1..(n - 1)
          /\ \A i \in 1..(n - 1) : responses'[i] = responses[i + 1]
      BY <3>1, <3>2, <3>3
    <3>5. ASSUME NEW j \in 1..n, responses[j].id # id
          PROVE  \E i \in DOMAIN responses' : responses'[i] = responses[j]
      <4>1. j - 1 \in 1..(n - 1) /\ (j - 1) + 1 = j
        BY <3>1, <3>5
      <4> QED
        BY <3>4, <4>1
    <3> QED
      BY <3>5
  <2>2. CASE ~Has(responses, id)
    BY <1>0, <1>2, <2>2
  <2> QED
    BY <2>1, <2>2
\* No other operation still to be polled leads the id.
<1>8. \A k \in 1..Len(ops) : (f < k /\ Leads(k)) => ops[k].id # id
  <2> SUFFICES ASSUME NEW k \in 1..Len(ops), f < k, Leads(k), ops[k].id = id
               PROVE  FALSE
    OBVIOUS
  <2>1. k <= f
    BY <1>0, LeadAlone
  <2> QED
    BY <2>1
<1>9. StreamsFollow'
  <2>1. RepeatsCancel'
    BY <1>0, <1>3 DEF RepeatsCancel
  <2>2. StreamsOwned'
    <3> SUFFICES ASSUME NEW i \in DOMAIN responses'
                 PROVE  \E k \in DOMAIN ops :
                          /\ f < k /\ Leads(k)' /\ ops[k].id = responses'[i].id
                          /\ responses'[i].type # "uncompleted" =>
                                  ops[k].status \in Terminal
      BY <1>2 DEF StreamsOwned
    <3>1. PICK j \in 1..n :
              responses'[i] = responses[j] /\ responses[j].id # id
      BY <1>6
    <3>2. PICK k \in 1..Len(ops) :
              /\ removed < k /\ Leads(k) /\ ops[k].id = responses[j].id
              /\ responses[j].type # "uncompleted" =>
                    ops[k].status \in Terminal
      BY <1>0 DEF StreamsOwned
    <3>3. f < k
      BY <1>0, <3>1, <3>2
    <3> QED
      BY <1>0, <1>3, <3>1, <3>2, <3>3
  <2>3. StreamsOrdered'
    <3> SUFFICES ASSUME NEW i \in DOMAIN responses',
                        NEW j \in DOMAIN responses',
                        NEW k \in DOMAIN ops, NEW l \in DOMAIN ops,
                        i < j, Leads(k)', Leads(l)',
                        ops[k].id = responses'[i].id,
                        ops[l].id = responses'[j].id
                 PROVE  k < l
      BY <1>2 DEF StreamsOrdered
    <3> HIDE Shape, ShapeNext
    <3>1. PICK ii \in 1..n :
              /\ responses'[i] = responses[ii]
              /\ ii = IF Has(responses, id) THEN i + 1 ELSE i
      BY <1>6
    <3>2. PICK jj \in 1..n :
              /\ responses'[j] = responses[jj]
              /\ jj = IF Has(responses, id) THEN j + 1 ELSE j
      BY <1>6
    <3>3. i \in Nat /\ j \in Nat
      BY <1>0, <1>d
    <3>4. ii < jj
      BY <3>1, <3>2, <3>3
    <3>5. Leads(k) /\ Leads(l)
      BY <1>0, <1>d, <1>3
    <3> QED
      BY <1>0, <1>d, <3>1, <3>2, <3>4, <3>5 DEF StreamsOrdered
  <2>4. BegunHasStream'
    <3> SUFFICES ASSUME relPc \notin {"down", "joinrecv"},
                        NEW k \in DOMAIN ops, f < k,
                        ops[k].status \in {"STREAMING", "END"}
                 PROVE  \E i \in DOMAIN responses' :
                          /\ responses'[i].id = ops[k].id
                          /\ ops[k].status = "END" =>
                                  responses'[i].type # "uncompleted"
      BY <1>2 DEF BegunHasStream
    <3> HIDE Shape, ShapeNext
    <3>1. k \in 1..Len(ops) /\ removed < k /\ Leads(k)
      BY <1>0, <1>d DEF RepeatsCancel
    <3>2. PICK j \in 1..n :
              /\ responses[j].id = ops[k].id
              /\ ops[k].status = "END" => responses[j].type # "uncompleted"
      BY <1>0, <1>d, <3>1 DEF BegunHasStream
    <3>3. responses[j].id # id
      BY <1>8, <3>1, <3>2
    <3>4. PICK i \in DOMAIN responses' : responses'[i] = responses[j]
      BY <1>7, <3>3
    <3> QED
      BY <3>2, <3>4
  <2>5. CurrentPending'
    <3> SUFFICES ASSUME cur # 0 PROVE f < cur
      BY <1>2 DEF CurrentPending
    <3>1. removed < cur /\ ops[cur].status \notin Terminal
      BY <1>0 DEF CurrentPending, OnlyCurrentIsLive
    <3> QED
      BY <1>0, <1>2, <3>1
  <2>6. Lifecycle'
    <3>1. Len(ops) # 0
      BY <1>0
    <3>2. sessions # 0
      BY <1>0, <3>1 DEF OneSession
    <3>3. responses = <<>> => responses' = <<>>
      BY <1>0, <1>2 DEF Has
    <3> QED
      BY <1>0, <3>2, <3>3 DEF Lifecycle
  <2> QED
    BY <2>1, <2>2, <2>3, <2>4, <2>5, <2>6 DEF StreamsFollow
<1>10. InOrder(told'[id]) /\ Answered(id)'
  <2>1. t = "ERROR" => told[id] \in {<<>>, <<"START">>}
    BY <1>0 DEF OpsTold
  <2>2. InOrder(told[id]) /\ told[id] \in Seq(Results)
    BY <1>0, <1>4 DEF TalesFollow
  <2>3. t \notin {"DATA", "START"} /\ (t = "END" => told[id] = <<"START">>)
    BY <1>2 DEF Terminal
  <2>4. /\ InOrder(Append(told[id], t))
        /\ \E k \in DOMAIN Append(told[id], t) :
                Append(told[id], t)[k] \in Terminal
    BY <1>4, <2>1, <2>2, <2>3, TaleAppend
  <2> QED
    BY <1>5, <2>4 DEF Answered
<1>11. TalesFollow'
  <2>1. \A x \in Ids : InOrder(told'[x]) /\ (Unsent(x)' => told'[x] = <<>>)
    <3> SUFFICES ASSUME NEW x \in Ids
                 PROVE  InOrder(told'[x]) /\ (Unsent(x)' => told'[x] = <<>>)
      OBVIOUS
    <3>1. CASE x = id
      <4>1. ~Unsent(x)'
        BY <1>0, <3>1 DEF Unsent
      <4> QED
        BY <1>10, <3>1, <4>1
    <3>2. CASE x # id
      BY <1>0, <1>5, <3>2 DEF TalesFollow, Unsent
    <3> QED
      BY <3>1, <3>2
  <2>2. OpsTold'
    <3> SUFFICES ASSUME NEW k \in DOMAIN ops'
                 PROVE  (/\ k <= removed => Answered(ops[k].id)
                         /\ (removed < k /\ Leads(k)) =>
                               told[ops[k].id] \in {<<>>, <<"START">>}
                         /\ (removed + 1 < k /\ Leads(k)) =>
                               told[ops[k].id] = <<>>
                         /\ ops[k].status = "START" =>
                               /\ told[ops[k].id] = <<>>
                               /\ ~Has(responses, ops[k].id))'
      BY DEF OpsTold
    <3>0. k \in 1..Len(ops) /\ f \in Nat /\ removed \in Nat
      BY <1>0
    <3>1. ops[k].id \in Ids
      <4>1. ops[k].id \in 1..nextId /\ nextId \in 0..MaxId
        BY <1>0 DEF IdsKnown, TypeOK
      <4> QED
        BY <4>1, BoundsAssumption DEF Ids
    <3>2. k <= f => Answered(ops[k].id)'
      <4>1. CASE ops[k].id = id
        BY <1>10, <4>1 DEF Answered
      <4>2. CASE ops[k].id # id /\ k <= f
        <5>1. k # f
          BY <4>2
        <5>2. k <= removed
          BY <3>0, <4>2, <5>1
        <5>3. Answered(ops[k].id)
          BY <1>0, <3>0, <5>2 DEF OpsTold
        <5>4. told'[ops[k].id] = told[ops[k].id]
          BY <1>5, <3>1, <4>2
        <5> QED
          BY <5>3, <5>4 DEF Answered
      <4> QED
        BY <4>1, <4>2
    <3>3. (f < k /\ Leads(k)') =>
                told'[ops[k].id] = told[ops[k].id] /\ ops[k].id # id
      BY <1>0, <1>3, <1>5, <1>8, <3>1
    <3>4. (f < k /\ Leads(k)') => told'[ops[k].id] = <<>>
      BY <1>0, <1>3, <3>3 DEF OpsTold
    <3>5. ASSUME ops[k].status = "START"
          PROVE  told'[ops[k].id] = <<>> /\ ~Has(responses', ops[k].id)
      <4>1. k = cur /\ Leads(k) /\ ops[k].status \notin Terminal
        BY <1>0, <3>5 DEF OnlyCurrentIsLive, RepeatsCancel, Terminal
      <4>2. f < k
        <5>1. removed < k
          BY <1>0, <3>0, <4>1 DEF CurrentPending
        <5>2. k # f
          BY <1>2, <4>1
        <5> QED
          BY <3>0, <5>1, <5>2
      <4>3. told'[ops[k].id] = <<>>
        BY <1>0, <1>3, <3>4, <4>1, <4>2
      <4>4. ~Has(responses, ops[k].id)
        BY <1>0, <3>5 DEF OpsTold
      <4>5. ~Has(responses', ops[k].id)
        <5> SUFFICES ASSUME NEW i \in DOMAIN responses',
                            responses'[i].id = ops[k].id
                     PROVE  FALSE
          BY DEF Has
        <5>1. PICK j \in 1..n : responses'[i] = responses[j]
          BY <1>6
        <5> QED
          BY <1>0, <4>4, <5>1 DEF Has
      <4> QED
        BY <4>3, <4>5
    <3> QED
      BY <3>2, <3>4, <3>5
  <2>3. StreamsTold'
    <3> SUFFICES ASSUME NEW i \in DOMAIN responses'
                 PROVE  told'[responses'[i].id] =
                            IF responses'[i].polling = 1 THEN <<"START">>
                            ELSE <<>>
      BY DEF StreamsTold
    <3>1. PICK j \in 1..n :
              responses'[i] = responses[j] /\ responses[j].id # id
      BY <1>6
    <3>2. PICK k \in 1..Len(ops) : ops[k].id = responses[j].id
      BY <1>0 DEF StreamsOwned
    <3>3. ops[k].id \in Ids
      <4>1. ops[k].id \in 1..nextId /\ nextId \in 0..MaxId
        BY <1>0 DEF IdsKnown, TypeOK
      <4> QED
        BY <4>1, BoundsAssumption DEF Ids
    <3>4. told'[responses[j].id] = told[responses[j].id]
      BY <1>5, <3>1, <3>2, <3>3
    <3> QED
      BY <1>0, <3>1, <3>4 DEF StreamsTold
  <2> QED
    BY <2>1, <2>2, <2>3 DEF TalesFollow
<1>12. PollSleepsOnlyForCurrent'
  BY DEF PollSleepsOnlyForCurrent
<1> QED
  BY <1>9, <1>11, <1>12 DEF Answers

\* The streams keep their ids and types.
SameStreams ==
    /\ Len(responses') = Len(responses)
    /\ \A i \in 1..Len(responses) :
        /\ responses'[i].id = responses[i].id
        /\ responses'[i].type = responses[i].type

\* Popping START or a result leaves the streams with their operations.
LEMMA StreamsKept ==
    ASSUME IInv, IInv', StreamsFollow, SameStreams, initialized,
           UNCHANGED <<initialized, sessions, removed, ops, cur, relPc>>
    PROVE  StreamsFollow'
<1> USE Shape, ShapeNext DEF SameStreams
<1>0. /\ TypeOK /\ TypeOK' /\ OneSession
      /\ RepeatsCancel /\ StreamsOwned /\ StreamsOrdered /\ BegunHasStream
      /\ CurrentPending /\ Lifecycle
  BY DEF IInv, StreamsFollow
<1>1. \A k \in 1..Len(ops) : Leads(k)' <=> Leads(k)
  BY <1>0, LeadsFrame
<1>2. RepeatsCancel' /\ CurrentPending'
  BY <1>0, <1>1 DEF RepeatsCancel, CurrentPending
<1>3. StreamsOwned'
  <2> SUFFICES ASSUME NEW i \in DOMAIN responses'
               PROVE  \E k \in DOMAIN ops' :
                        /\ removed' < k /\ Leads(k)'
                        /\ ops'[k].id = responses'[i].id
                        /\ responses'[i].type # "uncompleted" =>
                                ops'[k].status \in Terminal
    BY DEF StreamsOwned
  <2>1. i \in DOMAIN responses
    BY <1>0
  <2>2. PICK k \in DOMAIN ops :
            /\ removed < k /\ Leads(k) /\ ops[k].id = responses[i].id
            /\ responses[i].type # "uncompleted" => ops[k].status \in Terminal
    BY <1>0, <2>1 DEF StreamsOwned
  <2> QED
    BY <1>0, <1>1, <2>1, <2>2
<1>4. StreamsOrdered'
  BY <1>0, <1>1 DEF StreamsOrdered
<1>5. BegunHasStream'
  <2> SUFFICES ASSUME relPc \notin {"down", "joinrecv"},
                      NEW k \in DOMAIN ops, removed < k,
                      ops[k].status \in {"STREAMING", "END"}
               PROVE  \E i \in DOMAIN responses' :
                        /\ responses'[i].id = ops[k].id
                        /\ ops[k].status = "END" =>
                                responses'[i].type # "uncompleted"
    BY DEF BegunHasStream
  <2>1. PICK i \in DOMAIN responses :
            /\ responses[i].id = ops[k].id
            /\ ops[k].status = "END" => responses[i].type # "uncompleted"
    BY <1>0 DEF BegunHasStream
  <2> QED
    BY <1>0, <2>1
<1>6. Lifecycle'
  <2>1. relPc = "up"
    BY <1>0 DEF Lifecycle
  <2>2. sessions = 1
    BY <1>0, <2>1 DEF OneSession
  <2> QED
    BY <2>1, <2>2 DEF Lifecycle
<1> QED
  BY <1>2, <1>3, <1>4, <1>5, <1>6 DEF StreamsFollow

\* poll() announces the front operation.
LEMMA FrontBegins ==
    ASSUME IInv, IInv', Answers, HasFront, Has(responses, Front.id),
           initialized, responses[1].polling = 0,
           told' = [told EXCEPT ![Front.id] = Append(@, "START")],
           SameStreams, responses'[1].polling = 1,
           \A i \in 2..Len(responses) : responses'[i] = responses[i],
           UNCHANGED <<initialized, sessions, removed, ops, cur, relPc>>,
           pollPc' \notin {"wait", "passed"}
    PROVE  Answers'
<1>0. /\ TypeOK /\ TypeOK' /\ IdsKnown
      /\ StreamsOwned /\ StreamsOrdered /\ TalesFollow /\ OpsTold /\ StreamsTold
      /\ StreamsFollow
  BY DEF IInv, Answers, StreamsFollow, TalesFollow
<1>1. StreamsFollow' /\ PollSleepsOnlyForCurrent'
  BY <1>0, StreamsKept DEF PollSleepsOnlyForCurrent
<1>2. /\ responses # <<>> /\ responses[1].id = Front.id
      /\ \A i \in 2..Len(responses) : responses[i].id # Front.id
      /\ Leads(removed + 1)
  BY <1>0, FrontStream
<1>3. \A k \in 1..Len(ops) : Leads(k)' <=> Leads(k)
  BY <1>0, Shape, LeadsFrame
<1>4. \A k \in 1..Len(ops) : ops[k].id \in Ids
  <2> SUFFICES ASSUME NEW k \in 1..Len(ops) PROVE ops[k].id \in Ids
    OBVIOUS
  <2>1. ops[k].id \in 1..nextId /\ nextId \in 0..MaxId
    BY <1>0, Shape DEF IdsKnown, TypeOK
  <2> QED
    BY <2>1, BoundsAssumption DEF Ids
<1>5. /\ removed + 1 \in 1..Len(ops) /\ removed + 1 \in Nat /\ removed \in Nat
      /\ Front.id \in Ids
  BY <1>0, <1>4, Shape DEF HasFront, Front
<1> SUFFICES ASSUME NEW f \in 1..Len(ops), f = removed + 1,
                    NEW id \in Ids, id = ops[f].id, id = Front.id
             PROVE  Answers'
  BY <1>5 DEF Front
<1>6. told[id] = <<>>
  BY <1>0, <1>2, Shape DEF StreamsTold
<1>7. /\ told'[id] = <<"START">>
      /\ \A x \in Ids : x # id => told'[x] = told[x]
  BY <1>0, <1>6 DEF TypeOK
<1>8. \A k \in 1..Len(ops) : (Leads(k) /\ ops[k].id = id) => k = f
  <2> SUFFICES ASSUME NEW k \in 1..Len(ops), Leads(k), ops[k].id = id
               PROVE  k = f
    OBVIOUS
  <2>1. k <= f /\ f <= k
    BY <1>0, <1>2, LeadAlone
  <2> QED
    BY <1>0, <2>1, Shape
<1>9. \A k \in 1..(f - 1) : ops[k].id # id
  BY <1>2 DEF Leads
<1>10. \A x \in Ids : InOrder(told'[x]) /\ (Unsent(x)' => told'[x] = <<>>)
  <2> SUFFICES ASSUME NEW x \in Ids
               PROVE  InOrder(told'[x]) /\ (Unsent(x)' => told'[x] = <<>>)
    OBVIOUS
  <2>1. CASE x = id
    <3>1. ~Unsent(x)'
      BY <1>0, <2>1, Shape DEF Unsent
    <3>2. InOrder(<<"START">>)
      BY DEF InOrder
    <3> QED
      BY <1>7, <2>1, <3>1, <3>2
  <2>2. CASE x # id
    BY <1>0, <1>7, <2>2 DEF TalesFollow, Unsent
  <2> QED
    BY <2>1, <2>2
<1>11. OpsTold'
  <2> SUFFICES ASSUME NEW k \in DOMAIN ops'
               PROVE  (/\ k <= removed => Answered(ops[k].id)
                       /\ (removed < k /\ Leads(k)) =>
                             told[ops[k].id] \in {<<>>, <<"START">>}
                       /\ (removed + 1 < k /\ Leads(k)) =>
                             told[ops[k].id] = <<>>
                       /\ ops[k].status = "START" =>
                             /\ told[ops[k].id] = <<>>
                             /\ ~Has(responses, ops[k].id))'
    BY DEF OpsTold
  <2>0. k \in 1..Len(ops) /\ k \in DOMAIN ops /\ ops[k].id \in Ids
        /\ removed \in Nat /\ f \in Nat
    BY <1>0, <1>4, Shape
  <2>1. CASE ops[k].id = id
    <3>1. told'[ops[k].id] = <<"START">>
      BY <1>7, <2>1
    <3>2. ~(k <= removed)
      BY <1>9, <2>0, <2>1
    <3>3. Leads(k)' => ~(removed + 1 < k)
      BY <1>3, <1>8, <2>0, <2>1
    <3>4. ops[k].status # "START"
      BY <1>0, <2>0, <2>1 DEF OpsTold
    <3> QED
      BY <3>1, <3>2, <3>3, <3>4
  <2>2. CASE ops[k].id # id
    <3>1. told'[ops[k].id] = told[ops[k].id]
      BY <1>7, <2>0, <2>2
    <3>2. Answered(ops[k].id) => Answered(ops[k].id)'
      BY <3>1 DEF Answered
    <3>3. Has(responses', ops[k].id) => Has(responses, ops[k].id)
      BY <1>0, Shape, ShapeNext DEF Has, SameStreams
    <3> QED
      BY <1>0, <1>3, <2>0, <3>1, <3>2, <3>3 DEF OpsTold
  <2> QED
    BY <2>1, <2>2
<1>12. StreamsTold'
  <2> SUFFICES ASSUME NEW i \in 1..Len(responses)
               PROVE  told'[responses'[i].id] =
                          IF responses'[i].polling = 1 THEN <<"START">>
                          ELSE <<>>
    BY <1>0, Shape, ShapeNext DEF StreamsTold, SameStreams
  <2>1. CASE i = 1
    BY <1>2, <1>7, <2>1 DEF SameStreams
  <2>2. CASE i # 1
    <3>1. i \in 2..Len(responses)
      BY <1>0, <2>2, Shape
    <3>2. responses'[i] = responses[i] /\ responses[i].id # id
      BY <1>2, <3>1
    <3>3. PICK k \in 1..Len(ops) : ops[k].id = responses[i].id
      BY <1>0, Shape DEF StreamsOwned
    <3>4. told'[responses[i].id] = told[responses[i].id]
      BY <1>4, <1>7, <3>2, <3>3
    <3> QED
      BY <1>0, <3>2, <3>4, Shape DEF StreamsTold
  <2> QED
    BY <2>1, <2>2
<1> QED
  BY <1>1, <1>10, <1>11, <1>12 DEF Answers, TalesFollow

\* What poll() takes, tells and removes stays in step.
LEMMA PollThreads ==
    ASSUME IInv, IInv', Answers, PollAborted \/ PollResult \/ PollWaits
    PROVE  Answers'
<1>0. /\ TypeOK /\ TypeOK' /\ OnlyCurrentIsLive /\ RepeatsCancel
      /\ StreamsOwned /\ StreamsOrdered /\ BegunHasStream /\ Lifecycle
      /\ OpsTold /\ StreamsTold /\ StreamsFollow /\ PollSleepsOnlyForCurrent
  BY DEF IInv, Answers, StreamsFollow, TalesFollow
<1>1. responses \in Queues(Nat, {"INTERMEDIATE", "ASR_FINISH"})
  BY <1>0 DEF TypeOK, ResponseStreams
<1>2. HasFront => removed + 1 \in DOMAIN ops
  BY <1>0, Shape DEF HasFront
<1>3. (HasFront /\ Has(responses, Front.id)) =>
        /\ responses # <<>> /\ responses[1].id = Front.id
        /\ \A i \in 2..Len(responses) : responses[i].id # Front.id
        /\ Leads(removed + 1)
  BY <1>0, FrontStream
<1>4. CASE PollAborted
  <2>1. /\ HasFront /\ Front.status \in {"CANCELLED", "ERROR"}
        /\ Tell(Front.id, Front.status) /\ removed' = removed + 1
        /\ pollPc' = "run"
        /\ UNCHANGED <<initialized, sessions, ops, cur, relPc>>
        /\ responses' = IF Has(responses, Front.id)
                        THEN Popped(Erase(responses, Front.id, "deleted"))
                        ELSE responses
    BY <1>4 DEF PollAborted, PollFrame
  <2>2. told' = [told EXCEPT ![Front.id] = Append(@, Front.status)]
    BY <2>1 DEF Tell
  <2>3. responses' = IF Has(responses, Front.id) THEN Tail(responses)
                     ELSE responses
    BY <1>1, <1>3, <2>1, ErasePoppedLemma
  <2>4. Front.status = "ERROR" => Leads(removed + 1)
    BY <1>0, <1>2, <2>1 DEF RepeatsCancel, Front
  <2>5. Front.status \in Terminal /\ Front.status # "END"
    BY <2>1 DEF Terminal
  <2> QED
    BY <2>1, <2>2, <2>3, <2>4, <2>5, FrontEnds
<1>5. CASE PollResult
  <2> DEFINE p == PopType(responses)
  <2>1. /\ HasFront /\ Front.status \notin {"CANCELLED", "ERROR"}
        /\ p # "EMPTY" /\ initialized
        /\ Tell(responses[1].id,
                IF p = "DATA" THEN responses[1].data[1]
                ELSE IF p = "REMOVED" THEN "CANCELLED" ELSE p)
        /\ responses' = Popped(responses)
        /\ removed' = IF p \in {"END", "REMOVED", "ERROR"}
                      THEN removed + 1 ELSE removed
        /\ pollPc' = "run"
        /\ UNCHANGED <<initialized, sessions, ops, cur, relPc>>
    BY <1>5 DEF PollResult, PollFrame
  <2>2. Has(responses, Front.id)
    BY <1>0, <2>1, FrontServed
  <2>3. /\ responses # <<>> /\ responses[1].id = Front.id
        /\ \A i \in 2..Len(responses) : responses[i].id # Front.id
        /\ Leads(removed + 1)
        /\ 1 \in 1..Len(responses) /\ responses[1].polling \in {0, 1}
    BY <1>0, <1>3, <2>1, <2>2, Shape
  <2>4. told[Front.id] = IF responses[1].polling = 1 THEN <<"START">> ELSE <<>>
    BY <1>0, <2>3, Shape DEF StreamsTold
  <2>5. p \in {"START", "DATA", "END", "REMOVED", "ERROR"}
    BY <1>1, <2>1, PopTypeLemma
  <2>6. p = "START" => responses[1].polling = 0
    BY <1>1, PopTypeLemma
  <2>7. p \in {"DATA", "END"} => responses[1].polling = 1
    BY <1>1, PopTypeLemma
  <2>8. p \in {"END", "REMOVED", "ERROR"} => responses[1].type # "uncompleted"
    BY <1>0, OverIsPopped
  <2>9. /\ p = "START" =>
            /\ Len(responses') = Len(responses)
            /\ responses'[1].id = responses[1].id /\ responses'[1].polling = 1
            /\ responses'[1].type = responses[1].type
            /\ \A i \in 2..Len(responses) : responses'[i] = responses[i]
        /\ p = "DATA" =>
            /\ SameTags(responses, responses')
            /\ \A i \in 1..Len(responses) :
                    responses'[i].type = responses[i].type
        /\ p \in {"END", "REMOVED", "ERROR"} => responses' = Tail(responses)
    BY <1>1, <2>1, PoppedLemma
  <2>10. p = "DATA" => responses[1].data[1] \in {"INTERMEDIATE", "ASR_FINISH"}
    BY <1>0, ResponseLemma DEF TypeOK
  <2> HIDE DEF p
  <2>11. CASE p = "START"
    <3>1. told' = [told EXCEPT ![Front.id] = Append(@, "START")]
      BY <2>1, <2>3, <2>11 DEF Tell
    <3>2. SameStreams
      <4>1. \A i \in 1..Len(responses) : i = 1 \/ i \in 2..Len(responses)
        BY <1>0, Shape
      <4> QED
        BY <2>9, <2>11, <4>1 DEF SameStreams
    <3>3. removed' = removed
      BY <2>1, <2>11
    <3> QED
      BY <2>1, <2>2, <2>6, <2>9, <2>11, <3>1, <3>2, <3>3, FrontBegins
  <2>12. CASE p = "DATA"
    <3>1. told' = told
      BY <2>1, <2>3, <2>4, <2>7, <2>10, <2>12 DEF Tell
    <3>2. SameStreams /\ removed' = removed
      BY <2>1, <2>9, <2>12 DEF SameStreams, SameTags
    <3>3. StreamsFollow' /\ PollSleepsOnlyForCurrent'
      BY <1>0, <2>1, <3>2, StreamsKept DEF PollSleepsOnlyForCurrent
    <3>4. OpsTold'
      <4> SUFFICES ASSUME NEW k \in DOMAIN ops'
                   PROVE  (/\ k <= removed => Answered(ops[k].id)
                           /\ (removed < k /\ Leads(k)) =>
                                 told[ops[k].id] \in {<<>>, <<"START">>}
                           /\ (removed + 1 < k /\ Leads(k)) =>
                                 told[ops[k].id] = <<>>
                           /\ ops[k].status = "START" =>
                                 /\ told[ops[k].id] = <<>>
                                 /\ ~Has(responses, ops[k].id))'
        BY DEF OpsTold
      <4>1. k \in DOMAIN ops /\ ops' = ops
        BY <2>1
      <4>2. Leads(k)' <=> Leads(k)
        BY <2>1 DEF Leads
      <4>3. Has(responses', ops[k].id) => Has(responses, ops[k].id)
        BY <1>0, <3>2, Shape, ShapeNext DEF Has, SameStreams
      <4>4. Answered(ops[k].id) => Answered(ops[k].id)'
        BY <3>1, <4>1 DEF Answered
      <4> QED
        BY <1>0, <3>1, <3>2, <4>1, <4>2, <4>3, <4>4 DEF OpsTold
    <3>5. StreamsTold'
      BY <1>0, <2>9, <2>12, <3>1, Shape, ShapeNext DEF StreamsTold, SameTags
    <3>6. \A x \in Ids : InOrder(told'[x]) /\ (Unsent(x)' => told'[x] = <<>>)
      BY <2>1, <3>1 DEF Answers, TalesFollow, Unsent
    <3> QED
      BY <3>3, <3>4, <3>5, <3>6 DEF Answers, TalesFollow
  <2>13. CASE p \in {"END", "REMOVED", "ERROR"}
    <3> DEFINE t == IF p = "REMOVED" THEN "CANCELLED" ELSE p
    <3>1. t \in Terminal
      BY <2>13 DEF Terminal
    <3>2. told' = [told EXCEPT ![Front.id] = Append(@, t)]
      BY <2>1, <2>3, <2>13 DEF Tell
    <3>3. Front.status \in Terminal
      <4>1. PICK k \in 1..Len(ops) :
                /\ removed < k /\ Leads(k) /\ ops[k].id = responses[1].id
                /\ responses[1].type # "uncompleted" =>
                        ops[k].status \in Terminal
        BY <1>0, <2>3, Shape DEF StreamsOwned
      <4>2. k <= removed + 1 /\ removed + 1 <= k
        BY <1>0, <1>2, <2>1, <2>3, <4>1, LeadAlone, Shape DEF Front
      <4>3. k = removed + 1
        BY <1>0, <4>1, <4>2, Shape
      <4> QED
        BY <2>8, <2>13, <4>1, <4>3 DEF Front
    <3>4. t = "END" => told[Front.id] = <<"START">>
      BY <2>4, <2>7, <2>13
    <3>5. /\ removed' = removed + 1
          /\ responses' = IF Has(responses, Front.id) THEN Tail(responses)
                          ELSE responses
      BY <2>1, <2>2, <2>9, <2>13
    <3> HIDE DEF t
    <3> QED
      BY <2>1, <2>3, <3>1, <3>2, <3>3, <3>4, <3>5, FrontEnds
  <2> QED
    BY <2>5, <2>11, <2>12, <2>13
<1>6. CASE PollWaits
  <2>1. /\ UNCHANGED <<initialized, sessions, ops, cur, relPc, removed,
                       responses, told>>
        /\ pollPc' = "wait" /\ pollPc = "run" /\ initialized
        /\ \/ ~HasFront
           \/ /\ HasFront /\ Front.status \notin {"CANCELLED", "ERROR"}
              /\ PopType(responses) = "EMPTY"
    BY <1>6 DEF PollWaits, NothingToPoll, PollFrame
  <2>2. relPc = "up"
    BY <1>0, <2>1 DEF Lifecycle
  <2>3. OpsEnded
    BY <2>1 DEF OpsEnded, SameIds
  <2>4. StreamsFollow' /\ TalesFollow'
    BY <2>1, <2>2, <2>3, EndedStreams, EndedTales DEF Answers, ClosedKept
  <2>5. HasFront => cur = removed + 1
    <3> SUFFICES ASSUME HasFront PROVE cur = removed + 1
      OBVIOUS
    <3>1. CASE Front.status \notin Terminal
      BY <1>0, <1>2, <3>1 DEF OnlyCurrentIsLive, Front
    <3>2. CASE Front.status \in Terminal
      <4>1. Front.status = "END"
        BY <2>1, <3>2 DEF Terminal
      <4>2. PICK i \in DOMAIN responses :
                responses[i].id = Front.id /\ responses[i].type # "uncompleted"
        BY <1>0, <1>2, <2>2, <4>1, Shape DEF BegunHasStream, Front
      <4>3. Has(responses, Front.id)
        BY <4>2 DEF Has
      <4>4. i = 1
        BY <1>0, <1>3, <4>2, <4>3, Shape
      <4>5. PopType(responses) # "EMPTY"
        BY <1>0, <1>3, <4>2, <4>3, <4>4, OverIsPopped
      <4> QED
        BY <2>1, <4>5
    <3> QED
      BY <3>1, <3>2
  <2>6. PollSleepsOnlyForCurrent'
    BY <2>1, <2>5 DEF PollSleepsOnlyForCurrent, HasFront, PopType, Live
  <2> QED
    BY <2>4, <2>6 DEF Answers
<1> QED
  BY <1>4, <1>5, <1>6

\* Whatever a thread does, what poll() may report and has told stays in step
\* with the operations.
LEMMA AnswersStep ==
    ASSUME IInv, IInv', Answers, SingleSession, [Next]_vars
    PROVE  Answers'
<1>1. CASE LifecycleStep
  BY <1>1, PrepareAnswers, DropAnswers, QuietThreads, EndingThreads
     DEF LifecycleStep
<1>2. CASE AppStep
  BY <1>2, QuietThreads
<1>3. CASE CancelStep
  BY <1>3, QuietThreads, EndingThreads DEF CancelStep
<1>4. CASE SendStep
  BY <1>4, QuietThreads, EndingThreads, NewOpThreads DEF SendStep
<1>5. CASE RecvStep
  BY <1>5, QuietThreads, EndingThreads, RecvThreads DEF RecvStep
<1>6. CASE PollStep
  BY <1>6, QuietThreads, PollThreads DEF PollStep
<1>7. CASE SpuriousWakeup \/ UNCHANGED vars
  BY <1>7, QuietThreads
<1> QED
  BY <1>1, <1>2, <1>3, <1>4, <1>5, <1>6, <1>7 DEF Next

-----------------------------------------------------------------------------
(* No request is lost between the application and its operation.           *)

\* The step leaves the id with an operation.
SentNext(id) == \E i \in DOMAIN ops' : ops'[i].id = id

\* A request that had an operation has one.
SentKept == \A id : ~Unsent(id) => SentNext(id)

\* Operations are never freed, so they are only ever added.
LEMMA GrowKeepsSent ==
    ASSUME TypeOK, TypeOK', Len(ops) <= Len(ops'),
           \A i \in 1..Len(ops) : ops'[i].id = ops[i].id
    PROVE  SentKept
<1> SUFFICES ASSUME NEW id, ~Unsent(id) PROVE SentNext(id)
  BY DEF SentKept
<1>1. PICK i \in DOMAIN ops : ops[i].id = id
  BY DEF Unsent
<1>2. i \in DOMAIN ops' /\ ops'[i].id = id
  BY <1>1, Shape, ShapeNext
<1> QED
  BY <1>2 DEF SentNext

\* A voice request fails only once it has its operation.
NoNewErrors ==
    \A i \in 1..Len(voiceReqs) :
        voiceReqs'[i].type = "error" =>
            voiceReqs[i].type = "error" \/ ~Unsent(voiceReqs[i].id)

\* A step that neither makes nor takes requests keeps them all; the one that
\* send_reqs holds stays in its hands or has its operation.
LEMMA RequestsFrame ==
    ASSUME TypeOK, TypeOK', RequestsFollow, SentKept,
           SameTags(voiceReqs, voiceReqs'), NoNewErrors,
           SameIds(textReqs, textReqs'), nextId' = nextId,
           initialized' => initialized,
           InHand' => InHand /\ req' = req,
           InHand => (InHand' /\ req' = req) \/ SentNext(req.id),
           recvPc' = "erase" => SentNext(eraseId'),
           sendPc' \in {"send", "failed"} => SentNext(req'.id)
    PROVE  RequestsFollow'
<1> USE DEF SentKept
<1>1. IdsKept'
  <2> SUFFICES ASSUME initialized', NEW id \in 1..nextId'
               PROVE  \/ Has(voiceReqs', id) \/ TextHas(id)'
                      \/ (InHand' /\ req'.id = id) \/ ~Unsent(id)'
    BY DEF IdsKept
  <2>1. \/ Has(voiceReqs, id) \/ TextHas(id) \/ (InHand /\ req.id = id)
        \/ ~Unsent(id)
    BY DEF RequestsFollow, IdsKept
  <2>2. Has(voiceReqs, id) => Has(voiceReqs', id)
    BY Indices, IndicesNext DEF Has, SameTags
  <2>3. TextHas(id) => TextHas(id)'
    BY Indices, IndicesNext DEF TextHas, SameIds
  <2>4. SentNext(id) => ~Unsent(id)'
    BY DEF SentNext, Unsent
  <2> QED
    BY <2>1, <2>2, <2>3, <2>4
<1>2. \A id : SentNext(id) => ~(\A i \in DOMAIN ops' : ops'[i].id # id)
  BY DEF SentNext
<1>3. ASSUME NEW i \in DOMAIN voiceReqs',
             voiceReqs'[i].polling = 1 \/ voiceReqs'[i].type = "error"
      PROVE  \/ InHand' /\ Starts' /\ req'.id = voiceReqs'[i].id
             \/ ~Unsent(voiceReqs[i].id)'
  <2>1. /\ i \in 1..Len(voiceReqs) /\ i \in DOMAIN voiceReqs
        /\ voiceReqs'[i].id = voiceReqs[i].id
        /\ voiceReqs'[i].polling = voiceReqs[i].polling
    BY Indices, IndicesNext DEF SameTags
  <2>2. \/ InHand /\ Starts /\ req.id = voiceReqs[i].id
        \/ ~Unsent(voiceReqs[i].id)
    BY <1>3, <2>1 DEF NoNewErrors, RequestsFollow, BegunHasOp
  <2>3. CASE ~Unsent(voiceReqs[i].id)
    BY <1>2, <2>1, <2>3 DEF Unsent
  <2>4. CASE InHand /\ Starts /\ req.id = voiceReqs[i].id
    <3>1. CASE InHand' /\ req' = req
      BY <2>1, <2>4, <3>1 DEF Starts
    <3>2. CASE SentNext(req.id)
      BY <1>2, <2>1, <2>4, <3>2 DEF Unsent
    <3> QED
      BY <2>4, <3>1, <3>2
  <2> QED
    BY <2>2, <2>3, <2>4
<1>4. /\ recvPc' = "erase" => ~Unsent(eraseId)'
      /\ sendPc' \in {"send", "failed"} => ~Unsent(req.id)'
  BY <1>2 DEF Unsent
<1>5. (InHand' /\ req'.type \in {"VOICE_END", "VOICE_DATA"}) =>
            ~Unsent(req.id)'
  <2> SUFFICES ASSUME InHand', req'.type \in {"VOICE_END", "VOICE_DATA"}
               PROVE  ~Unsent(req.id)'
    OBVIOUS
  <2>1. InHand /\ req' = req /\ ~Unsent(req.id)
    BY DEF RequestsFollow, BegunHasOp
  <2> QED
    BY <1>2, <2>1 DEF Unsent
<1>6. BegunHasOp'
  BY <1>3, <1>4, <1>5 DEF BegunHasOp
<1> QED
  BY <1>1, <1>6 DEF RequestsFollow

\* The step of a thread other than send_reqs, which it can only wake up.
LEMMA OthersKeep ==
    ASSUME IInv, TypeOK', RequestsFollow,
           SameTags(voiceReqs, voiceReqs'), NoNewErrors,
           SameIds(textReqs, textReqs'), SameIds(ops, ops'),
           nextId' = nextId, req' = req, initialized' => initialized,
           \/ sendPc' = sendPc
           \/ sendPc' = "top" /\ sendPc \in {"waitreq", "waitop", "lostreq", "lostop"},
           recvPc' = "erase" =>
                \/ recvPc = "erase" /\ eraseId' = eraseId
                \/ cur # 0 /\ eraseId' = ops[cur].id
    PROVE  RequestsFollow'
<1>1. TypeOK
  BY DEF IInv
<1>2. SentKept
  BY <1>1, GrowKeepsSent, Shape DEF SameIds
<1>3. recvPc' = "erase" => SentNext(eraseId')
  <2>1. CASE recvPc = "erase" /\ eraseId' = eraseId
    BY <1>2, <2>1 DEF SentKept, RequestsFollow, BegunHasOp
  <2>2. CASE cur # 0 /\ eraseId' = ops[cur].id
    <3>1. ~Unsent(eraseId')
      BY <1>1, <2>2, Shape DEF Unsent
    <3> QED
      BY <1>2, <3>1 DEF SentKept
  <2> QED
    BY <2>1, <2>2
<1>4. sendPc' \in {"send", "failed"} => SentNext(req'.id)
  BY <1>2 DEF SentKept, RequestsFollow, BegunHasOp
<1>5. /\ InHand' => InHand /\ req' = req
      /\ InHand => InHand' /\ req' = req
  BY DEF InHand
<1> QED
  BY <1>1, <1>2, <1>3, <1>4, <1>5, RequestsFrame

\* A step of send_reqs that neither takes nor makes a request.
LEMMA SenderKeeps ==
    ASSUME IInv, TypeOK', RequestsFollow, SendFrame, textReqs' = textReqs,
           SameTags(voiceReqs, voiceReqs'), NoNewErrors,
           Len(ops) <= Len(ops'),
           \A i \in 1..Len(ops) : ops'[i].id = ops[i].id,
           InHand' => InHand /\ req' = req,
           InHand => (InHand' /\ req' = req) \/ SentNext(req.id),
           sendPc' \in {"send", "failed"} => SentNext(req'.id)
    PROVE  RequestsFollow'
<1>1. TypeOK
  BY DEF IInv
<1>2. SentKept
  BY <1>1, GrowKeepsSent
<1>3. recvPc' = "erase" => SentNext(eraseId')
  BY <1>2 DEF SendFrame, SentKept, RequestsFollow, BegunHasOp
<1>4. SameIds(textReqs, textReqs')
  BY <1>1, TextIds
<1>5. nextId' = nextId /\ initialized' = initialized
  BY DEF SendFrame
<1> QED
  BY <1>1, <1>2, <1>3, <1>4, <1>5, RequestsFrame

\* Of what is done to a queue only erasing with an error makes one.
LEMMA ErrorsErased ==
    ASSUME TypeOK
    PROVE  /\ voiceReqs' = voiceReqs => NoNewErrors
           /\ \A id \in Nat :
                /\ voiceReqs' = Stream(voiceReqs, id, "voice") => NoNewErrors
                /\ voiceReqs' = End(voiceReqs, id) => NoNewErrors
           /\ \A id :
                /\ voiceReqs' = Erase(voiceReqs, id, "deleted") => NoNewErrors
                /\ (voiceReqs' = Erase(voiceReqs, id, "error") /\ ~Unsent(id))
                        => NoNewErrors
           /\ voiceReqs' = Clear(voiceReqs) => NoNewErrors
<1> DEFINE D == {"voice"}
<1>1. voiceReqs \in Queues(Nat, D) /\ "voice" \in D
  BY DEF TypeOK, VoiceStreams
<1> HIDE DEF D
<1>2. voiceReqs' = voiceReqs => NoNewErrors
  BY DEF NoNewErrors
<1>3. ASSUME NEW id \in Nat, voiceReqs' = Stream(voiceReqs, id, "voice")
      PROVE  NoNewErrors
  <2>1. SameTypes(voiceReqs, Stream(voiceReqs, id, "voice"))
    BY <1>1, StreamLemma
  <2> QED
    BY <1>3, <2>1 DEF SameTypes, NoNewErrors
<1>4. ASSUME NEW id \in Nat, voiceReqs' = End(voiceReqs, id)
      PROVE  NoNewErrors
  <2>1. \A i \in 1..Len(voiceReqs) :
            End(voiceReqs, id)[i].type =
                IF voiceReqs[i].id = id THEN "completed" ELSE voiceReqs[i].type
    BY <1>1, EndLemma
  <2> QED
    BY <1>4, <2>1 DEF NoNewErrors
<1>5. ASSUME NEW id, NEW type, voiceReqs' = Erase(voiceReqs, id, type),
             type = "error" => ~Unsent(id)
      PROVE  NoNewErrors
  <2>1. \A i \in 1..Len(voiceReqs) :
            Erase(voiceReqs, id, type)[i].type =
                IF voiceReqs[i].id = id THEN type ELSE voiceReqs[i].type
    BY <1>1, EraseTypes
  <2> QED
    BY <1>5, <2>1 DEF NoNewErrors
<1>6. ASSUME voiceReqs' = Clear(voiceReqs) PROVE NoNewErrors
  <2> SUFFICES ASSUME NEW i \in 1..Len(voiceReqs)
               PROVE  voiceReqs'[i].type # "error"
    BY DEF NoNewErrors
  <2>1. /\ i \in DOMAIN voiceReqs
        /\ voiceReqs[i] \in Streams(Nat, D)
    BY <1>1, Indices DEF Queues
  <2>2. voiceReqs'[i] = [voiceReqs[i] EXCEPT !.type = "deleted", !.data = <<>>]
    BY <1>6, <2>1 DEF Clear
  <2> QED
    BY <2>1, <2>2 DEF Streams
<1> QED
  BY <1>2, <1>3, <1>4, <1>5, <1>6

\* The application, the cancelling, polling and receiving threads and
\* release() keep every request, but for the regions that make or drop some.
LEMMA OtherThreadsKeep ==
    ASSUME IInv, TypeOK', RequestsFollow, SingleSession,
           \/ ReleaseTestOp \/ ReleaseSetOpError \/ ReleaseResponses
           \/ ReleaseReturns \/ CancelStep \/ RecvStep \/ PollStep
           \/ SpuriousWakeup
           \/ \E id \in 1..nextId : PutVoice(id) \/ EndVoice(id)
    PROVE  RequestsFollow'
<1>0. TypeOK /\ ops \in Seq(Operations)
  BY OpsTyped DEF IInv
<1>e. voiceReqs' = voiceReqs =>
        SameTags(voiceReqs, voiceReqs') /\ NoNewErrors
  BY <1>0, VoiceTags, ErrorsErased
<1>t. textReqs' = textReqs => SameIds(textReqs, textReqs')
  BY <1>0, TextIds
<1>o. /\ ops' = ops => SameIds(ops, ops')
      /\ SetOpError => SameIds(ops, ops')
      /\ FinishOp => SameIds(ops, ops')
      /\ \A id : CancelOp(id) => SameIds(ops, ops')
      /\ \A status \in Statuses :
            ops' = CurrentIn(status) => SameIds(ops, ops')
  <2>1. ops' = ops => SameIds(ops, ops')
    BY DEF SameIds
  <2>2. SetOpError => SameIds(ops, ops')
    BY <1>0, ErrorEnds DEF OpsEnded
  <2>3. FinishOp => SameIds(ops, ops')
    BY <1>0, FinishedLemma DEF FinishOp, SameIds
  <2>4. \A id : CancelOp(id) => SameIds(ops, ops')
    BY <1>0, CancelEnds DEF OpsEnded
  <2>5. \A status \in Statuses :
            ops' = CurrentIn(status) => SameIds(ops, ops')
    BY <1>0, OpsInLemma DEF CurrentIn, SameIds
  <2> QED
    BY <2>1, <2>2, <2>3, <2>4, <2>5
<1>n. nextId \in Nat /\ \A id \in 1..nextId : id \in Nat
  BY <1>0, OpsTyped
<1> USE DEF opVars, appVars, sendVars
<1>1. CASE ReleaseTestOp \/ ReleaseSetOpError \/ ReleaseResponses
           \/ ReleaseReturns
  <2>1. /\ UNCHANGED <<voiceReqs, textReqs, nextId, req, initialized, recvPc,
                       eraseId>>
        /\ \/ sendPc' = sendPc
           \/ sendPc' = "top" /\ sendPc \in {"waitop", "lostop"}
        /\ ops' = ops \/ SetOpError \/ FinishOp
    BY <1>1 DEF ReleaseTestOp, ReleaseSetOpError, ReleaseResponses,
       ReleaseReturns, AfterNotifyOp
  <2> QED
    BY <1>e, <1>t, <1>o, <2>1, OthersKeep
<1>2. ASSUME NEW id \in 1..nextId, PutVoice(id) \/ EndVoice(id)
      PROVE  RequestsFollow'
  <2>1. /\ UNCHANGED <<textReqs, nextId, req, initialized, recvPc, eraseId,
                       ops>>
        /\ \/ sendPc' = sendPc
           \/ sendPc' = "top" /\ sendPc \in {"waitreq", "lostreq"}
        /\ \/ voiceReqs' = Stream(voiceReqs, id, "voice")
           \/ voiceReqs' = End(voiceReqs, id)
    BY <1>2 DEF PutVoice, EndVoice, AfterNotifyReq
  <2>2. SameTags(voiceReqs, voiceReqs') /\ NoNewErrors
    BY <1>0, <1>n, <2>1, VoiceTags, ErrorsErased
  <2> QED
    BY <1>t, <1>o, <2>1, <2>2, OthersKeep
<1>3. ASSUME NEW id \in 1..nextId, CancelQueued(id)
      PROVE  RequestsFollow'
  <2>1. /\ UNCHANGED <<nextId, req, initialized, recvPc, eraseId, ops>>
        /\ \/ sendPc' = sendPc
           \/ sendPc' = "top" /\ sendPc \in {"waitreq", "lostreq"}
        /\ \/ voiceReqs' = Erase(voiceReqs, id, "deleted")
           \/ voiceReqs' = voiceReqs
        /\ textReqs' = textReqs \/ textReqs' = TextCancelled(id)
    BY <1>3 DEF CancelQueued, AfterNotifyReq
  <2>2. SameTags(voiceReqs, voiceReqs') /\ NoNewErrors
    BY <1>0, <2>1, VoiceTags, ErrorsErased
  <2>3. SameIds(textReqs, textReqs')
    BY <1>0, <2>1, TextIds
  <2> QED
    BY <1>o, <2>1, <2>2, <2>3, OthersKeep
<1>4. CASE CancelAllQueued
  <2>1. /\ UNCHANGED <<nextId, req, initialized, recvPc, eraseId, ops>>
        /\ \/ sendPc' = sendPc
           \/ sendPc' = "top" /\ sendPc \in {"waitreq", "lostreq"}
        /\ voiceReqs' = Clear(voiceReqs) /\ textReqs' = TextCancelled(0)
    BY <1>4 DEF CancelAllQueued, AfterNotifyReq
  <2>2. SameTags(voiceReqs, voiceReqs') /\ NoNewErrors
    BY <1>0, <2>1, VoiceTags, ErrorsErased
  <2>3. SameIds(textReqs, textReqs')
    BY <1>0, <2>1, TextIds
  <2> QED
    BY <1>o, <2>1, <2>2, <2>3, OthersKeep
<1>5. ASSUME NEW id \in cancels, CancelOperations(id)
      PROVE  RequestsFollow'
  <2>1. /\ UNCHANGED <<voiceReqs, textReqs, nextId, req, initialized, recvPc,
                       eraseId>>
        /\ \/ sendPc' = sendPc
           \/ sendPc' = "top" /\ sendPc \in {"waitop", "lostop"}
        /\ CancelOp(id)
    BY <1>5 DEF CancelOperations, AfterNotifyOp
  <2> QED
    BY <1>e, <1>t, <1>o, <2>1, OthersKeep
<1>6. CASE PollStep \/ SpuriousWakeup
  <2>1. /\ UNCHANGED <<voiceReqs, textReqs, nextId, req, initialized, recvPc,
                       eraseId, ops>>
        /\ \/ sendPc' = sendPc
           \/ /\ sendPc' = "top"
              /\ sendPc \in {"waitreq", "waitop", "lostreq", "lostop"}
    BY <1>6 DEF PollStep, PollCall, PollReturnsFalse, PollAborted, PollResult,
       PollWaits, PollFrame, SpuriousWakeup
  <2> QED
    BY <1>e, <1>t, <1>o, <2>1, OthersKeep
<1>7. ASSUME NEW id \in Ids, NEW t \in RespTypes,
             RecvIntermediate(id, t) \/ RecvLast(id, t) \/ RecvUnknown(id, t)
      PROVE  RequestsFollow'
  <2>1. /\ UNCHANGED <<voiceReqs, textReqs, nextId, req, initialized>>
        /\ \/ sendPc' = sendPc
           \/ sendPc' = "top" /\ sendPc \in {"waitop", "lostop"}
        /\ recvPc' = "erase" => cur # 0 /\ eraseId' = ops[cur].id
        /\ ops' = CurrentIn("STREAMING") \/ ops' = CurrentIn("END")
    BY <1>7 DEF RecvIntermediate, RecvLast, RecvUnknown, RecvFrame,
       AfterNotifyOp
  <2>2. SameIds(ops, ops')
    BY <1>o, <2>1 DEF Statuses
  <2> QED
    BY <1>e, <1>t, <2>1, <2>2, OthersKeep
<1>8. ASSUME RecvAborts PROVE RequestsFollow'
  <2>1. /\ UNCHANGED <<voiceReqs, textReqs, nextId, req, initialized>>
        /\ \/ sendPc' = sendPc
           \/ sendPc' = "top" /\ sendPc \in {"waitop", "lostop"}
        /\ recvPc' = "erase" => cur # 0 /\ eraseId' = ops[cur].id
        /\ SetOpError
    BY <1>8 DEF RecvAborts, RecvFrame, AfterNotifyOp
  <2> QED
    BY <1>e, <1>t, <1>o, <2>1, OthersKeep
<1>9. ASSUME \/ \E id \in Ids : RecvStale(id)
             \/ RecvIgnored \/ RecvQuit
      PROVE  RequestsFollow'
  <2>1. /\ UNCHANGED <<voiceReqs, textReqs, nextId, req, initialized, sendPc,
                       ops>>
        /\ recvPc' # "erase"
    BY <1>9 DEF RecvStale, RecvIgnored, RecvQuit, RecvFrame, RefreshOpTime
  <2> QED
    BY <1>e, <1>t, <1>o, <2>1, OthersKeep
<1>10. CASE EraseReq
  <2>1. /\ UNCHANGED <<textReqs, nextId, req, initialized, ops>>
        /\ \/ sendPc' = sendPc
           \/ sendPc' = "top" /\ sendPc \in {"waitreq", "lostreq"}
        /\ voiceReqs' = Erase(voiceReqs, eraseId, "error")
        /\ recvPc = "erase" /\ recvPc' # "erase"
    BY <1>10 DEF EraseReq, RecvFrame, AfterNotifyReq
  <2>2. ~Unsent(eraseId)
    BY <2>1 DEF RequestsFollow, BegunHasOp
  <2>3. SameTags(voiceReqs, voiceReqs') /\ NoNewErrors
    BY <1>0, <2>1, <2>2, VoiceTags, ErrorsErased
  <2> QED
    BY <1>t, <1>o, <2>1, <2>3, OthersKeep
<1> QED
  BY <1>1, <1>2, <1>3, <1>4, <1>5, <1>6, <1>7, <1>8, <1>9, <1>10
  DEF CancelStep, RecvStep, RecvTimeout, RecvBroken

\* What send_reqs does with the request it holds, and while it holds none,
\* keeps every request.
LEMMA SenderThreadKeeps ==
    ASSUME IInv, TypeOK', RequestsFollow,
           \/ SendQuit \/ SendNoVoice \/ SendPeekOp \/ SendTextMustWait
           \/ ControlReadOp \/ ControlStart \/ ControlContinue
           \/ ControlCancel \/ ControlCancelUnsent \/ ControlDrop
           \/ RequestSent \/ RequestFailed \/ RequestSetTime
           \/ RequestSetError \/ WaitOpTest \/ WaitOpSleep
    PROVE  RequestsFollow'
<1>0. /\ TypeOK /\ ops \in Seq(Operations) /\ ReadOpIsOwn
      /\ Len(ops) \in Nat
  <2>1. TypeOK /\ ReadOpIsOwn
    BY DEF IInv
  <2> QED
    BY <2>1, OpsTyped
<1>e. voiceReqs' = voiceReqs =>
        SameTags(voiceReqs, voiceReqs') /\ NoNewErrors
  BY <1>0, VoiceTags, ErrorsErased
<1>n. \A id : ~Unsent(id) /\ ops' = ops => SentNext(id)
  BY DEF SentNext, Unsent
<1> USE DEF opVars, appVars, sendVars
<1>1. CASE \/ SendQuit \/ SendNoVoice \/ SendPeekOp \/ SendTextMustWait
           \/ RequestSetTime \/ WaitOpTest \/ WaitOpSleep \/ RequestSent
  <2>1. /\ UNCHANGED <<voiceReqs, textReqs, ops>> /\ SendFrame /\ ~InHand
        /\ ~InHand' /\ sendPc' \notin {"send", "failed"}
    BY <1>1 DEF SendQuit, SendNoVoice, SendPeekOp, SendTextMustWait,
       RequestSetTime, WaitOpTest, WaitOpSleep, RequestSent, InHand,
       RefreshOpTime
  <2> QED
    BY <1>0, <1>e, <2>1, SenderKeeps
<1>2. CASE RequestFailed
  <2>1. /\ UNCHANGED <<voiceReqs, textReqs, ops, req>> /\ SendFrame /\ ~InHand
        /\ ~InHand' /\ sendPc = "send"
    BY <1>2 DEF RequestFailed, InHand
  <2>2. SentNext(req'.id)
    BY <1>n, <2>1 DEF RequestsFollow, BegunHasOp
  <2> QED
    BY <1>0, <1>e, <2>1, <2>2, SenderKeeps
<1>3. CASE ControlReadOp
  <2>1. /\ UNCHANGED <<voiceReqs, textReqs, ops, req>> /\ SendFrame
        /\ InHand /\ InHand' /\ sendPc' = "change"
    BY <1>3 DEF ControlReadOp, InHand
  <2> QED
    BY <1>0, <1>e, <2>1, SenderKeeps
<1>4. CASE ControlContinue \/ ControlDrop
  <2>1. /\ UNCHANGED <<voiceReqs, textReqs, ops, req>> /\ SendFrame
        /\ InHand /\ ~InHand' /\ req.type \in {"VOICE_END", "VOICE_DATA"}
    BY <1>4 DEF ControlContinue, ControlDrop, InHand
  <2>2. SentNext(req.id)
    BY <1>n, <2>1 DEF RequestsFollow, BegunHasOp
  <2> QED
    BY <1>0, <1>e, <2>1, <2>2, SenderKeeps
<1>5. CASE ControlCancel
  <2> DEFINE w == {opRef}
  <2>1. /\ UNCHANGED <<voiceReqs, textReqs, req>> /\ SendFrame
        /\ InHand /\ ~InHand' /\ opRef # 0 /\ ops[opRef].id = req.id
    BY <1>0, <1>5 DEF ControlCancel, InHand, ReadOpIsOwn
  <2>2. ops' = OpsIn(w, "CANCELLED")
    BY <1>5 DEF ControlCancel
  <2> HIDE DEF w
  <2>3. /\ Len(ops') = Len(ops) /\ Len(ops) <= Len(ops')
        /\ \A i \in 1..Len(ops) : ops'[i].id = ops[i].id
    <3>1. "CANCELLED" \in Statuses
      BY DEF Statuses
    <3> QED
      BY <1>0, <2>2, <3>1, OpsInLemma
  <2>4. SentNext(req.id)
    <3>1. opRef \in 1..Len(ops) /\ 1..Len(ops) = DOMAIN ops'
      BY <1>0, <2>1, <2>3, Indices, IndicesNext
    <3> QED
      BY <2>1, <2>3, <3>1 DEF SentNext
  <2> QED
    BY <1>e, <2>1, <2>3, <2>4, SenderKeeps
<1>6. CASE ControlStart \/ ControlCancelUnsent
  <2>1. /\ UNCHANGED <<voiceReqs, textReqs, req>> /\ SendFrame
        /\ InHand /\ ~InHand'
        /\ NewOp(req.id, "START") \/ NewOp(req.id, "CANCELLED")
    BY <1>6 DEF ControlStart, ControlCancelUnsent, InHand
  <2>2. /\ Len(ops') = Len(ops) + 1
        /\ \A i \in 1..Len(ops) : ops'[i] = ops[i]
        /\ ops'[Len(ops) + 1].id = req.id
    BY <1>0, <2>1 DEF NewOp
  <2>3. SentNext(req.id)
    BY <1>0, <2>2, IndicesNext DEF SentNext
  <2> QED
    BY <1>0, <1>e, <2>1, <2>2, <2>3, SenderKeeps
<1>7. CASE RequestSetError
  <2>1. /\ UNCHANGED <<textReqs, req>> /\ SendFrame /\ SetOpError
        /\ ~InHand /\ ~InHand' /\ sendPc = "failed" /\ sendPc' = "top"
        /\ voiceReqs' = Erase(voiceReqs, req.id, "error")
    BY <1>7 DEF RequestSetError, InHand
  <2>2. ~Unsent(req.id)
    BY <2>1 DEF RequestsFollow, BegunHasOp
  <2>3. SameTags(voiceReqs, voiceReqs') /\ NoNewErrors
    BY <1>0, <2>1, <2>2, VoiceTags, ErrorsErased
  <2>4. /\ Len(ops) <= Len(ops')
        /\ \A i \in 1..Len(ops) : ops'[i].id = ops[i].id
    BY <1>0, <2>1, ErrorEnds DEF OpsEnded, SameIds
  <2> QED
    BY <2>1, <2>3, <2>4, SenderKeeps
<1> QED
  BY <1>1, <1>2, <1>3, <1>4, <1>5, <1>6, <1>7

\* prepare() starts with no request, and release() leaves none.
LEMMA SessionKeeps ==
    ASSUME IInv, IInv', RequestsFollow, SingleSession,
           Prepare \/ ReleaseRequests
    PROVE  RequestsFollow'
<1> USE DEF opVars, appVars, sendVars
<1>1. CASE Prepare
  <2>1. sessions = 0 /\ sessions' = 1
    BY <1>1, BoundsAssumption, OpsTyped DEF Prepare, SingleSession, IInv
  <2>2. voiceReqs' = <<>> /\ nextId' = 0
    BY <1>1, <2>1 DEF Prepare, IInv, OneSession
  <2>3. sendPc' = "top" /\ recvPc' = "recv"
    BY <1>1 DEF Prepare
  <2>4. DOMAIN voiceReqs' = {} /\ 1..nextId' = {}
    BY <2>2
  <2> QED
    BY <2>3, <2>4 DEF RequestsFollow, IdsKept, BegunHasOp, InHand
<1>2. CASE ReleaseRequests
  <2>1. /\ ~initialized' /\ voiceReqs' = <<>>
        /\ UNCHANGED <<ops, req, eraseId>>
        /\ sendPc' = sendPc \/ sendPc' = "top"
        /\ recvPc' = "erase" => recvPc = "erase"
    BY <1>2 DEF ReleaseRequests, AfterNotifyReq
  <2>2. DOMAIN voiceReqs' = {}
    BY <2>1
  <2>3. BegunHasOp
    BY DEF RequestsFollow
  <2>4. IdsKept'
    BY <2>1 DEF IdsKept
  <2>5. BegunHasOp'
    BY <2>1, <2>2, <2>3 DEF BegunHasOp, InHand, Unsent
  <2> QED
    BY <2>4, <2>5 DEF RequestsFollow
<1> QED
  BY <1>1, <1>2

\* A new request is queued under its own id, behind the others.
LEMMA NewRequestKept ==
    ASSUME IInv, TypeOK', RequestsFollow, StartVoice \/ PutText
    PROVE  RequestsFollow'
<1> USE DEF opVars, appVars, sendVars
<1>0. /\ TypeOK /\ IdsKnown /\ nextId \in Nat
  BY OpsTyped DEF IInv
<1>1. /\ UNCHANGED <<ops, req, recvPc, eraseId, initialized>>
      /\ nextId' = nextId + 1
      /\ \/ sendPc' = sendPc
         \/ sendPc' = "top" /\ sendPc \in {"waitreq", "lostreq"}
  BY DEF StartVoice, PutText, AfterNotifyReq
<1>2. /\ \A i \in DOMAIN voiceReqs :
            i \in DOMAIN voiceReqs' /\ voiceReqs'[i] = voiceReqs[i]
      /\ \A i \in DOMAIN voiceReqs' :
            \/ i \in DOMAIN voiceReqs /\ voiceReqs'[i] = voiceReqs[i]
            \/ voiceReqs'[i].polling = 0 /\ voiceReqs'[i].type = "uncompleted"
      /\ \A i \in DOMAIN textReqs :
            i \in DOMAIN textReqs' /\ textReqs'[i] = textReqs[i]
      /\ \/ Has(voiceReqs', nextId + 1)
         \/ \E i \in DOMAIN textReqs' : textReqs'[i].id = nextId + 1
  <2>1. CASE StartVoice
    <3> DEFINE D == {"voice"}
    <3> DEFINE n == Len(voiceReqs)
    <3>1. /\ voiceReqs \in Queues(Nat, D) /\ nextId + 1 \in Nat
          /\ voiceReqs' = Start(voiceReqs, nextId + 1)
          /\ UNCHANGED textReqs
      BY <1>0, <2>1 DEF StartVoice, TypeOK, VoiceStreams
    <3> HIDE DEF D
    <3>2. ~Has(voiceReqs, nextId + 1)
      BY <1>0 DEF Has, IdsKnown
    <3>3. /\ Len(voiceReqs') = n + 1
          /\ \A i \in 1..n : voiceReqs'[i] = voiceReqs[i]
          /\ voiceReqs'[n + 1].id = nextId + 1
          /\ voiceReqs'[n + 1].polling = 0
          /\ voiceReqs'[n + 1].type = "uncompleted"
      BY <3>1, <3>2, StartLemma
    <3>4. /\ DOMAIN voiceReqs = 1..n /\ n \in Nat
          /\ DOMAIN voiceReqs' = 1..(n + 1)
      BY <1>0, <3>3, Indices, IndicesNext
    <3> HIDE DEF n
    <3>5. Has(voiceReqs', nextId + 1)
      <4>1. n + 1 \in DOMAIN voiceReqs'
        BY <3>4
      <4> QED
        BY <3>3, <4>1 DEF Has
    <3> QED
      BY <3>1, <3>3, <3>4, <3>5
  <2>2. CASE PutText
    <3>1. /\ textReqs' = Append(textReqs, [id |-> nextId + 1, type |-> "TEXT"])
          /\ UNCHANGED voiceReqs /\ textReqs \in Seq(TextRequests)
      BY <1>0, <2>2 DEF PutText, TypeOK
    <3>2. /\ \A i \in DOMAIN textReqs :
                i \in DOMAIN textReqs' /\ textReqs'[i] = textReqs[i]
          /\ Len(textReqs) + 1 \in DOMAIN textReqs'
          /\ textReqs'[Len(textReqs) + 1].id = nextId + 1
      BY <3>1
    <3> QED
      BY <3>1, <3>2
  <2> QED
    BY <2>1, <2>2
<1>3. InHand' <=> InHand
  BY <1>1 DEF InHand
<1>4. \A id : Unsent(id)' <=> Unsent(id)
  BY <1>1 DEF Unsent
<1>5. IdsKept'
  <2> SUFFICES ASSUME initialized', NEW id \in 1..nextId'
               PROVE  \/ Has(voiceReqs', id) \/ TextHas(id)'
                      \/ (InHand' /\ req'.id = id) \/ ~Unsent(id)'
    BY DEF IdsKept
  <2>1. CASE id = nextId + 1
    BY <1>2, <2>1 DEF TextHas
  <2>2. CASE id \in 1..nextId
    <3>1. \/ Has(voiceReqs, id) \/ TextHas(id) \/ (InHand /\ req.id = id)
          \/ ~Unsent(id)
      BY <1>1, <2>2 DEF RequestsFollow, IdsKept
    <3> QED
      BY <1>1, <1>2, <1>3, <3>1 DEF Has, TextHas, Unsent
  <2> QED
    BY <1>0, <1>1, <2>1, <2>2
<1>6. BegunHasOp'
  <2>1. ASSUME NEW i \in DOMAIN voiceReqs',
               voiceReqs'[i].polling = 1 \/ voiceReqs'[i].type = "error"
        PROVE  \/ InHand' /\ Starts' /\ req'.id = voiceReqs'[i].id
               \/ ~Unsent(voiceReqs[i].id)'
    <3>1. i \in DOMAIN voiceReqs /\ voiceReqs'[i] = voiceReqs[i]
      BY <1>2, <2>1
    <3>2. \/ InHand /\ Starts /\ req.id = voiceReqs[i].id
          \/ ~Unsent(voiceReqs[i].id)
      BY <2>1, <3>1 DEF RequestsFollow, BegunHasOp
    <3> QED
      BY <1>1, <1>3, <3>1, <3>2 DEF Starts, Unsent
  <2>2. BegunHasOp
    BY DEF RequestsFollow
  <2>3. /\ recvPc' = "erase" => ~Unsent(eraseId)'
        /\ sendPc' \in {"send", "failed"} => ~Unsent(req.id)'
        /\ (InHand' /\ req'.type \in {"VOICE_END", "VOICE_DATA"}) =>
                ~Unsent(req.id)'
    BY <1>1, <1>3, <2>2 DEF BegunHasOp, Unsent
  <2> QED
    BY <2>1, <2>3 DEF BegunHasOp
<1> QED
  BY <1>5, <1>6 DEF RequestsFollow

\* A request that send_reqs takes is in its hands; it has its operation if it
\* is taken for a second time.
LEMMA TakenRequestKept ==
    ASSUME IInv, TypeOK', RequestsFollow, SendPopVoice \/ SendPopText
    PROVE  RequestsFollow'
<1> USE DEF opVars, appVars, sendVars
<1>0. TypeOK /\ BegunHasOp /\ IdsKept
  BY DEF IInv, RequestsFollow
<1>1. /\ UNCHANGED <<ops, nextId, recvPc, eraseId, initialized>>
      /\ ~InHand /\ sendPc' \in {"control", "crashed"}
      /\ sendPc' = "control" => InHand'
  BY DEF SendPopVoice, SendPopText, SendFrame, InHand
<1>4. \A id : Unsent(id)' <=> Unsent(id)
  BY <1>1 DEF Unsent
<1>2. CASE SendPopVoice
  <2> DEFINE D == {"voice"}
             p == PopType(voiceReqs)
             n == Len(voiceReqs)
  <2>1. /\ voiceReqs \in Queues(Nat, D) /\ voiceReqs' = Popped(voiceReqs)
        /\ p # "EMPTY" /\ UNCHANGED textReqs /\ sendPc' = "control"
        /\ req'.id = voiceReqs[1].id /\ req'.type = ReqTypeOf(p)
    BY <1>0, <1>2 DEF SendPopVoice, TypeOK, VoiceStreams
  <2> HIDE DEF D
  <2>2. /\ p \in {"START", "DATA", "END", "REMOVED", "ERROR"}
        /\ n \in Nat /\ n >= 1
        /\ DOMAIN voiceReqs = 1..n
        /\ p \in {"DATA", "END"} => voiceReqs[1].polling = 1
    BY <1>0, <2>1, PopTypeLemma, Indices
  <2>3. p = "ERROR" => voiceReqs[1].type = "error"
    BY <2>2 DEF PopType, Live
  <2>4. CASE p = "START"
    <3>1. /\ Len(voiceReqs') = n
          /\ voiceReqs'[1].id = voiceReqs[1].id
          /\ \A i \in 2..n : voiceReqs'[i] = voiceReqs[i]
      BY <2>1, <2>4, PoppedLemma
    <3>2. DOMAIN voiceReqs' = 1..n
      BY <3>1, IndicesNext
    <3>3. req'.type = "VOICE_START"
      BY <2>1, <2>4 DEF ReqTypeOf
    <3>4. IdsKept'
      <4> SUFFICES ASSUME initialized', NEW id \in 1..nextId'
                   PROVE  \/ Has(voiceReqs', id) \/ TextHas(id)'
                          \/ (InHand' /\ req'.id = id) \/ ~Unsent(id)'
        BY DEF IdsKept
      <4>1. \/ Has(voiceReqs, id) \/ TextHas(id) \/ ~Unsent(id)
        BY <1>0, <1>1 DEF IdsKept
      <4>2. Has(voiceReqs, id) => Has(voiceReqs', id)
        <5>1. \A i \in 1..n : voiceReqs'[i].id = voiceReqs[i].id
          BY <2>2, <3>1
        <5> QED
          BY <2>2, <3>2, <5>1 DEF Has
      <4> QED
        BY <1>4, <2>1, <4>1, <4>2 DEF TextHas
    <3>5. BegunHasOp'
      <4>1. ASSUME NEW i \in DOMAIN voiceReqs',
                   voiceReqs'[i].polling = 1 \/ voiceReqs'[i].type = "error"
            PROVE  \/ InHand' /\ Starts' /\ req'.id = voiceReqs'[i].id
                   \/ ~Unsent(voiceReqs[i].id)'
        <5>1. CASE i = 1
          BY <1>1, <2>1, <3>1, <3>3, <5>1 DEF Starts
        <5>2. CASE i \in 2..n
          <6>1. voiceReqs'[i] = voiceReqs[i] /\ i \in DOMAIN voiceReqs
            BY <2>2, <3>1, <5>2
          <6>2. ~Unsent(voiceReqs[i].id)
            BY <1>0, <1>1, <4>1, <6>1 DEF BegunHasOp
          <6> QED
            BY <1>1, <6>1, <6>2 DEF Unsent
        <5> QED
          BY <2>2, <3>2, <5>1, <5>2
      <4>2. /\ recvPc' = "erase" => ~Unsent(eraseId)'
            /\ sendPc' \notin {"send", "failed"}
        BY <1>0, <1>1, <2>1 DEF BegunHasOp, Unsent
      <4> QED
        BY <3>3, <4>1, <4>2 DEF BegunHasOp
    <3> QED
      BY <3>4, <3>5 DEF RequestsFollow
  <2>5. CASE p # "START"
    <3> DEFINE d == IF p = "DATA" THEN 0 ELSE 1
    <3>1. /\ Len(voiceReqs') = n - d
          /\ \A i \in 1..(n - d) :
                /\ i + d \in 1..n
                /\ voiceReqs'[i].id = voiceReqs[i + d].id
                /\ voiceReqs'[i].polling = voiceReqs[i + d].polling
                /\ voiceReqs'[i].type = voiceReqs[i + d].type
      <4>1. CASE p = "DATA"
        <5>1. /\ SameTags(voiceReqs, voiceReqs')
              /\ \A i \in 1..n : voiceReqs'[i].type = voiceReqs[i].type
          BY <2>1, <4>1, PoppedLemma
        <5> QED
          BY <2>2, <4>1, <5>1 DEF SameTags
      <4>2. CASE p # "DATA"
        <5>1. voiceReqs' = Tail(voiceReqs) /\ voiceReqs \in Seq(Streams(Nat, D))
          BY <2>1, <2>2, <2>5, <4>2, PoppedLemma DEF Queues
        <5> QED
          BY <2>2, <4>2, <5>1
      <4> QED
        BY <4>1, <4>2
    <3>2. DOMAIN voiceReqs' = 1..(n - d) /\ d \in {0, 1}
      BY <3>1, IndicesNext
    <3> HIDE DEF d
    <3>3. req'.type \in {"VOICE_DATA", "VOICE_END"} => ~Unsent(voiceReqs[1].id)
      <4> SUFFICES ASSUME req'.type \in {"VOICE_DATA", "VOICE_END"}
                   PROVE  ~Unsent(voiceReqs[1].id)
        OBVIOUS
      <4>1. p \in {"DATA", "END", "ERROR"}
        BY <2>1, <2>2, <2>5 DEF ReqTypeOf
      <4>2. 1 \in DOMAIN voiceReqs
        BY <2>2
      <4> QED
        BY <1>0, <1>1, <2>2, <2>3, <4>1, <4>2 DEF BegunHasOp
    <3>4. IdsKept'
      <4> SUFFICES ASSUME initialized', NEW id \in 1..nextId'
                   PROVE  \/ Has(voiceReqs', id) \/ TextHas(id)'
                          \/ (InHand' /\ req'.id = id) \/ ~Unsent(id)'
        BY DEF IdsKept
      <4>1. \/ Has(voiceReqs, id) \/ TextHas(id) \/ ~Unsent(id)
        BY <1>0, <1>1 DEF IdsKept
      <4>2. Has(voiceReqs, id) => Has(voiceReqs', id) \/ req'.id = id
        <5> SUFFICES ASSUME NEW j \in 1..n, voiceReqs[j].id = id, j # 1
                     PROVE  Has(voiceReqs', id)
          BY <2>1, <2>2 DEF Has
        <5>1. j - d \in 1..(n - d) /\ (j - d) + d = j
          BY <2>2, <3>2
        <5> QED
          BY <3>1, <3>2, <5>1 DEF Has
      <4> QED
        BY <1>1, <1>4, <2>1, <4>1, <4>2 DEF TextHas
    <3>5. BegunHasOp'
      <4>1. ASSUME NEW i \in DOMAIN voiceReqs',
                   voiceReqs'[i].polling = 1 \/ voiceReqs'[i].type = "error"
            PROVE  ~Unsent(voiceReqs[i].id)'
        <5>1. /\ i + d \in DOMAIN voiceReqs
              /\ voiceReqs'[i].id = voiceReqs[i + d].id
              /\ \/ voiceReqs[i + d].polling = 1
                 \/ voiceReqs[i + d].type = "error"
          BY <2>2, <3>1, <3>2, <4>1
        <5>2. ~Unsent(voiceReqs[i + d].id)
          BY <1>0, <1>1, <5>1 DEF BegunHasOp
        <5> QED
          BY <1>1, <5>1, <5>2 DEF Unsent
      <4>2. /\ recvPc' = "erase" => ~Unsent(eraseId)'
            /\ sendPc' \notin {"send", "failed"}
            /\ req'.type \in {"VOICE_END", "VOICE_DATA"} => ~Unsent(req.id)'
        BY <1>0, <1>1, <2>1, <3>3 DEF BegunHasOp, Unsent
      <4> QED
        BY <4>1, <4>2 DEF BegunHasOp
    <3> QED
      BY <3>4, <3>5 DEF RequestsFollow
  <2> QED
    BY <2>4, <2>5
<1>3. CASE SendPopText
  <2>1. /\ UNCHANGED voiceReqs /\ textReqs \in Seq(TextRequests)
        /\ \/ /\ textReqs # <<>> /\ req' = Head(textReqs)
              /\ textReqs' = Tail(textReqs) /\ sendPc' = "control"
           \/ textReqs' = textReqs /\ sendPc' = "crashed"
    BY <1>0, <1>3 DEF SendPopText, TypeOK
  <2>2. ASSUME NEW id
        PROVE  TextHas(id) => TextHas(id)' \/ (InHand' /\ req'.id = id)
    <3> SUFFICES ASSUME NEW j \in 1..Len(textReqs), textReqs[j].id = id
                 PROVE  TextHas(id)' \/ (InHand' /\ req'.id = id)
      BY <1>0, Indices DEF TextHas
    <3>1. CASE textReqs' = textReqs
      BY <1>0, <3>1, Indices DEF TextHas
    <3>2. CASE textReqs # <<>> /\ textReqs' = Tail(textReqs)
               /\ req' = Head(textReqs) /\ sendPc' = "control"
      <4>1. CASE j = 1
        BY <1>1, <2>1, <3>2, <4>1
      <4>2. CASE j # 1
        <5>1. j - 1 \in DOMAIN textReqs' /\ textReqs'[j - 1] = textReqs[j]
          BY <2>1, <3>2, <4>2
        <5> QED
          BY <5>1 DEF TextHas
      <4> QED
        BY <4>1, <4>2
    <3> QED
      BY <2>1, <3>1, <3>2
  <2>3. IdsKept'
    <3> SUFFICES ASSUME initialized', NEW id \in 1..nextId'
                 PROVE  \/ Has(voiceReqs', id) \/ TextHas(id)'
                        \/ (InHand' /\ req'.id = id) \/ ~Unsent(id)'
      BY DEF IdsKept
    <3>1. \/ Has(voiceReqs, id) \/ TextHas(id) \/ ~Unsent(id)
      BY <1>0, <1>1 DEF IdsKept
    <3> QED
      BY <1>4, <2>1, <2>2, <3>1
  <2>4. InHand' => req'.type \notin {"VOICE_END", "VOICE_DATA"}
    <3> SUFFICES ASSUME InHand'
                 PROVE  req'.type \notin {"VOICE_END", "VOICE_DATA"}
      OBVIOUS
    <3>1. textReqs # <<>> /\ req' = Head(textReqs)
      BY <2>1 DEF InHand
    <3>2. req' \in TextRequests
      BY <2>1, <3>1
    <3> QED
      BY <3>2 DEF TextRequests
  <2>5. BegunHasOp'
    <3>1. ASSUME NEW i \in DOMAIN voiceReqs',
                 voiceReqs'[i].polling = 1 \/ voiceReqs'[i].type = "error"
          PROVE  ~Unsent(voiceReqs[i].id)'
      BY <1>0, <1>1, <2>1, <3>1 DEF BegunHasOp, Unsent
    <3>2. /\ recvPc' = "erase" => ~Unsent(eraseId)'
          /\ sendPc' \notin {"send", "failed"}
      BY <1>0, <1>1, <2>1 DEF BegunHasOp, Unsent
    <3> QED
      BY <2>4, <3>1, <3>2 DEF BegunHasOp
  <2> QED
    BY <2>3, <2>5 DEF RequestsFollow
<1> QED
  BY <1>2, <1>3

\* Whatever a thread does, no request is lost on its way to an operation.
LEMMA RequestsStep ==
    ASSUME IInv, IInv', RequestsFollow, SingleSession, [Next]_vars
    PROVE  RequestsFollow'
<1>0. TypeOK'
  BY DEF IInv
<1>1. CASE LifecycleStep
  BY <1>0, <1>1, SessionKeeps, OtherThreadsKeep DEF LifecycleStep
<1>2. CASE AppStep
  BY <1>0, <1>2, NewRequestKept, OtherThreadsKeep DEF AppStep
<1>3. CASE CancelStep \/ RecvStep \/ PollStep \/ SpuriousWakeup
  BY <1>0, <1>3, OtherThreadsKeep
<1>4. CASE SendStep
  BY <1>0, <1>4, TakenRequestKept, SenderThreadKeeps DEF SendStep
<1>5. CASE UNCHANGED vars
  BY <1>5 DEF vars, opVars, appVars, sendVars, RequestsFollow, IdsKept,
     BegunHasOp, Has, TextHas, InHand, Unsent, Starts
<1> QED
  BY <1>1, <1>2, <1>3, <1>4, <1>5 DEF Next

-----------------------------------------------------------------------------
(* What the server is sent.                                                *)

\* Without a message the wire stays behind the operations.
LEMMA WireUntouched ==
    ASSUME WireFollows, SentKept, wire' = wire
    PROVE  \A id \in Ids : Unsent(id)' => wire'[id] = "none"
<1> SUFFICES ASSUME NEW id \in Ids, Unsent(id)' PROVE wire'[id] = "none"
  OBVIOUS
<1>1. Unsent(id)
  BY DEF SentKept, SentNext, Unsent
<1> QED
  BY <1>1 DEF WireFollows

\* The step of a thread other than send_reqs, which it may wake up.
LEMMA WireFrame ==
    ASSUME IInv, TypeOK', WireFollows, SameIds(ops, ops'),
           UNCHANGED <<wire, req, opRef>>, cur' \in {0, cur},
           \/ sendPc' = sendPc
           \/ /\ sendPc' = "top"
              /\ cur' = 0 \/ sendPc \in {"waitreq", "lostreq"}
    PROVE  WireFollows'
<1>0. TypeOK
  BY DEF IInv
<1>1. SentKept
  BY <1>0, GrowKeepsSent, Shape DEF SameIds
<1>2. \A id \in Ids : Unsent(id)' => wire'[id] = "none"
  BY <1>1, WireUntouched
<1>3. ASSUME cur' # 0, sendPc' \in {"top", "waitreq", "lostreq", "peek", "peeked",
                                    "control", "change"}
      PROVE  wire'[ops'[cur'].id] = "open"
  <2>1. cur' = cur /\ cur \in 1..Len(ops) /\ ops'[cur].id = ops[cur].id
    BY <1>0, <1>3, Shape DEF SameIds
  <2>2. sendPc \in {"top", "waitreq", "lostreq", "peek", "peeked", "control",
                    "change"}
    BY <1>3
  <2> QED
    BY <1>3, <2>1, <2>2 DEF WireFollows
<1> QED
  BY <1>2, <1>3 DEF WireFollows, Starts

\* The application, the cancelling, polling and receiving threads and
\* release() leave the wire to send_reqs.
LEMMA WireThreads ==
    ASSUME IInv, IInv', WireFollows, SingleSession,
           \/ LifecycleStep \/ AppStep \/ CancelStep \/ RecvStep \/ PollStep
           \/ SpuriousWakeup
    PROVE  WireFollows'
<1>0. TypeOK /\ TypeOK' /\ ops \in Seq(Operations)
  BY OpsTyped DEF IInv
<1> USE DEF opVars, appVars, sendVars
<1>1. CASE Prepare
  <2>1. sessions = 0
    BY <1>1, BoundsAssumption, OpsTyped DEF Prepare, SingleSession, IInv
  <2>2. cur' = 0
    BY <1>1, <2>1 DEF Prepare, IInv, OneSession
  <2>3. sendPc' = "top" /\ wire' = [id \in Ids |-> "none"]
    BY <1>1 DEF Prepare
  <2> QED
    BY <2>2, <2>3 DEF WireFollows
<1>2. \/ ReleaseRequests \/ ReleaseTestOp \/ ReleaseReturns \/ AppStep
      \/ (\E id \in 1..nextId : CancelQueued(id)) \/ CancelAllQueued
      \/ (\E id \in Ids : RecvStale(id)) \/ RecvIgnored \/ EraseReq
      \/ RecvQuit \/ PollStep \/ SpuriousWakeup
      => WireFollows'
  <2> SUFFICES ASSUME
          \/ ReleaseRequests \/ ReleaseTestOp \/ ReleaseReturns \/ AppStep
          \/ (\E id \in 1..nextId : CancelQueued(id)) \/ CancelAllQueued
          \/ (\E id \in Ids : RecvStale(id)) \/ RecvIgnored \/ EraseReq
          \/ RecvQuit \/ PollStep \/ SpuriousWakeup
               PROVE  WireFollows'
    OBVIOUS
  <2>1. /\ UNCHANGED <<wire, req, opRef, ops, cur>>
        /\ \/ sendPc' = sendPc
           \/ sendPc' = "top" /\ sendPc \in {"waitreq", "lostreq"}
    BY DEF ReleaseRequests, ReleaseTestOp, ReleaseReturns, AppStep, StartVoice,
       PutText, PutVoice, EndVoice, CancelQueued, CancelAllQueued, RecvStale,
       RecvIgnored, EraseReq, RecvQuit, RecvFrame, RefreshOpTime, PollStep,
       PollCall, PollReturnsFalse, PollAborted, PollResult, PollWaits,
       PollFrame, SpuriousWakeup, SingleSession, AfterNotifyReq
  <2> QED
    BY <1>0, <2>1, WireFrame DEF SameIds
<1>3. ASSUME SetOpError, UNCHANGED <<wire, req, opRef>>,
             sendPc' = IF cur # 0 THEN AfterNotifyOp ELSE sendPc
      PROVE  WireFollows'
  <2>1. SameIds(ops, ops') /\ cur' = 0
    BY <1>0, <1>3, ErrorEnds DEF OpsEnded
  <2>2. sendPc' = sendPc \/ sendPc' = "top"
    BY <1>3 DEF AfterNotifyOp
  <2> QED
    BY <1>0, <1>3, <2>1, <2>2, WireFrame
<1>4. CASE ReleaseSetOpError
  BY <1>3, <1>4 DEF ReleaseSetOpError
<1>5. ASSUME RecvAborts PROVE WireFollows'
  BY <1>3, <1>5 DEF RecvAborts, RecvFrame
<1>6. CASE ReleaseResponses
  <2>1. FinishOp /\ UNCHANGED <<wire, req, opRef, sendPc>>
    BY <1>6 DEF ReleaseResponses
  <2>2. SameIds(ops, ops') /\ cur' = 0
    BY <1>0, <2>1, FinishedLemma DEF FinishOp, NoCurrent, SameIds
  <2> QED
    BY <1>0, <2>1, <2>2, WireFrame
<1>7. ASSUME NEW id \in cancels, CancelOperations(id)
      PROVE  WireFollows'
  <2>1. /\ CancelOp(id) /\ UNCHANGED <<wire, req, opRef>>
        /\ sendPc' = IF CancelsCurrent(id) THEN AfterNotifyOp ELSE sendPc
    BY <1>7 DEF CancelOperations
  <2>2. /\ SameIds(ops, ops')
        /\ cur' = IF CancelsCurrent(id) THEN 0 ELSE cur
    BY <1>0, <2>1, CancelEnds DEF OpsEnded
  <2>3. sendPc' = sendPc \/ (sendPc' = "top" /\ cur' = 0)
    BY <2>1, <2>2 DEF AfterNotifyOp
  <2>4. cur' \in {0, cur}
    BY <2>2
  <2> QED
    BY <1>0, <2>1, <2>2, <2>3, <2>4, WireFrame
<1>8. ASSUME NEW id \in Ids, NEW t \in RespTypes,
             RecvIntermediate(id, t) \/ RecvLast(id, t) \/ RecvUnknown(id, t)
      PROVE  WireFollows'
  <2>1. /\ UNCHANGED <<wire, req, opRef>> /\ cur' \in {0, cur}
        /\ sendPc' = sendPc \/ (sendPc' = "top" /\ cur' = 0)
        /\ ops' = CurrentIn("STREAMING") \/ ops' = CurrentIn("END")
    BY <1>8 DEF RecvIntermediate, RecvLast, RecvUnknown, RecvFrame, NoCurrent,
       AfterNotifyOp
  <2>2. \A status \in Statuses :
            ops' = CurrentIn(status) => SameIds(ops, ops')
    BY <1>0, OpsInLemma DEF CurrentIn, SameIds
  <2>3. SameIds(ops, ops')
    BY <2>1, <2>2 DEF Statuses
  <2> QED
    BY <1>0, <2>1, <2>3, WireFrame
<1> QED
  BY <1>1, <1>2, <1>4, <1>5, <1>6, <1>7, <1>8
  DEF LifecycleStep, CancelStep, RecvStep, RecvTimeout, RecvBroken

\* Where send_reqs stands decides what the server must have been sent.
LEMMA WireSender ==
    ASSUME IInv, IInv', RequestsFollow, WireFollows, SendStep
    PROVE  WireFollows'
<1> USE DEF opVars, appVars, sendVars
<1>0. /\ TypeOK /\ TypeOK' /\ ops \in Seq(Operations) /\ Len(ops) \in Nat
      /\ SenderFollows /\ ReadOpIsOwn /\ NotBegun /\ IdsKnown /\ BegunHasOp
  <2>1. /\ TypeOK /\ TypeOK' /\ SenderFollows /\ ReadOpIsOwn /\ NotBegun
        /\ IdsKnown /\ BegunHasOp
    BY DEF IInv, RequestsFollow
  <2> QED
    BY <2>1, OpsTyped
<1>n. \A id \in 1..nextId : id \in Ids
  BY <1>0, OpsTyped, BoundsAssumption DEF Ids
<1>a. ASSUME UNCHANGED <<wire, ops, cur>>,
             sendPc' \notin {"send", "sent"},
             sendPc' = "change" => opRef' = cur /\ sendPc = "control"
                                   /\ req' = req,
             sendPc' \in {"top", "waitreq", "lostreq", "peek", "peeked", "control",
                          "change"} =>
                \/ cur = 0
                \/ wire[ops[cur].id] = "open"
      PROVE  WireFollows'
  <2>1. SentKept
    BY <1>0, <1>a, GrowKeepsSent
  <2>2. \A id \in Ids : Unsent(id)' => wire'[id] = "none"
    BY <1>a, <2>1, WireUntouched
  <2>3. (sendPc' = "change" /\ opRef' # 0) => wire'[req'.id] = "open"
    BY <1>0, <1>a DEF SenderFollows
  <2> QED
    BY <1>a, <2>2, <2>3 DEF WireFollows
<1>1. CASE \/ SendQuit \/ SendPopVoice \/ SendNoVoice \/ SendPeekOp
           \/ SendPopText \/ SendTextMustWait \/ ControlReadOp \/ ControlDrop
           \/ RequestFailed \/ WaitOpTest \/ WaitOpSleep
  <2>1. /\ UNCHANGED <<wire, ops, cur>> /\ sendPc' \notin {"send", "sent"}
        /\ sendPc' = "change" => opRef' = cur /\ sendPc = "control"
                                 /\ req' = req
        /\ sendPc' \in {"top", "waitreq", "lostreq", "peek", "peeked", "control",
                        "change"} =>
              \/ sendPc \in {"top", "peek", "peeked", "control", "change"}
              \/ sendPc = "finish" /\ ~(cur # 0 /\ ops[cur].id = req.id)
    BY <1>1 DEF SendQuit, SendPopVoice, SendNoVoice, SendPeekOp, SendPopText,
       SendTextMustWait, ControlReadOp, ControlDrop, RequestFailed, WaitOpTest,
       WaitOpSleep
  <2>2. sendPc \in {"top", "peek", "peeked", "control", "change"} =>
            cur = 0 \/ wire[ops[cur].id] = "open"
    BY DEF WireFollows
  <2>3. (sendPc = "finish" /\ ~(cur # 0 /\ ops[cur].id = req.id)) => cur = 0
    BY <1>0 DEF SenderFollows
  <2> QED
    BY <1>a, <2>1, <2>2, <2>3
<1>2. CASE RequestSetTime
  <2>1. /\ UNCHANGED <<wire, ops, cur, req>> /\ sendPc = "sent"
        /\ sendPc' = IF req.type \in {"TEXT", "VOICE_END"} THEN "finish"
                     ELSE "top"
    BY <1>2 DEF RequestSetTime, RefreshOpTime
  <2>2. sendPc' = "top" => cur = 0 \/ wire[ops[cur].id] = "open"
    <3> SUFFICES ASSUME sendPc' = "top", cur # 0
                 PROVE  wire[ops[cur].id] = "open"
      OBVIOUS
    <3>1. ops[cur].id = req.id /\ req.type # "CANCELLED"
      BY <1>0, <2>1 DEF SenderFollows
    <3>2. req.type \in {"VOICE_START", "VOICE_DATA"}
      <4>1. req.type \in ReqTypes
        BY <1>0 DEF TypeOK, Requests
      <4> QED
        BY <2>1, <3>1, <4>1 DEF ReqTypes
    <3> QED
      BY <2>1, <3>1, <3>2 DEF WireFollows
  <2> QED
    BY <1>a, <2>1, <2>2
<1>3. CASE RequestSetError
  <2>1. SetOpError /\ sendPc' = "top" /\ wire' = wire
    BY <1>3 DEF RequestSetError
  <2>2. SameIds(ops, ops') /\ cur' = 0
    BY <1>0, <2>1, ErrorEnds DEF OpsEnded
  <2>3. SentKept
    BY <1>0, <2>2, GrowKeepsSent DEF SameIds
  <2>4. \A id \in Ids : Unsent(id)' => wire'[id] = "none"
    BY <2>1, <2>3, WireUntouched
  <2> QED
    BY <2>1, <2>2, <2>4 DEF WireFollows
<1>4. CASE ControlStart \/ ControlCancelUnsent
  <2>1. /\ NewOp(req.id, "START") \/ NewOp(req.id, "CANCELLED")
        /\ UNCHANGED <<wire, req>> /\ InHand /\ sendPc = "change"
        /\ \/ Starts /\ sendPc' = "send"
           \/ sendPc' = "top" /\ NewOp(req.id, "CANCELLED")
    BY <1>4 DEF ControlStart, ControlCancelUnsent, InHand
  <2>2. /\ Len(ops') = Len(ops) + 1
        /\ \A i \in 1..Len(ops) : ops'[i] = ops[i]
    BY <1>0, <2>1 DEF NewOp
  <2>3. SentKept
    BY <1>0, <2>2, GrowKeepsSent
  <2>4. \A id \in Ids : Unsent(id)' => wire'[id] = "none"
    BY <2>1, <2>3, WireUntouched
  <2>5. CASE Starts /\ sendPc' = "send"
    <3>1. req.id \in Ids /\ Unsent(req.id)
      BY <1>0, <1>n, <2>1, <2>5 DEF NotBegun, IdsKnown
    <3>2. wire'[req'.id] = "none" /\ Starts'
      BY <2>1, <2>5, <3>1 DEF WireFollows, Starts
    <3> QED
      BY <2>4, <2>5, <3>2 DEF WireFollows
  <2>6. CASE sendPc' = "top" /\ NewOp(req.id, "CANCELLED")
    <3>1. cur' = cur
      BY <2>6 DEF NewOp
    <3>2. cur # 0 => wire[ops[cur].id] = "open" /\ ops'[cur] = ops[cur]
      BY <1>0, <2>1, <2>2, Shape DEF WireFollows
    <3> QED
      BY <2>1, <2>4, <2>6, <3>1, <3>2 DEF WireFollows
  <2> QED
    BY <2>1, <2>5, <2>6
<1>5. CASE ControlContinue \/ ControlCancel
  <2> DEFINE w == {opRef}
  <2>1. /\ UNCHANGED <<wire, req>> /\ sendPc = "change" /\ sendPc' = "send"
        /\ opRef # 0
    BY <1>5 DEF ControlContinue, ControlCancel
  <2>2. ops' = ops \/ ops' = OpsIn(w, "CANCELLED")
    BY <1>5 DEF ControlContinue, ControlCancel
  <2> HIDE DEF w
  <2>3. /\ Len(ops) <= Len(ops')
        /\ \A i \in 1..Len(ops) : ops'[i].id = ops[i].id
    <3>1. "CANCELLED" \in Statuses
      BY DEF Statuses
    <3> QED
      BY <1>0, <2>2, <3>1, OpsInLemma
  <2>4. SentKept
    BY <1>0, <2>3, GrowKeepsSent
  <2>5. \A id \in Ids : Unsent(id)' => wire'[id] = "none"
    BY <2>1, <2>4, WireUntouched
  <2>6. wire'[req'.id] = "open" /\ ~Starts'
    BY <1>0, <2>1 DEF WireFollows, ReadOpIsOwn, Starts
  <2> QED
    BY <2>1, <2>5, <2>6 DEF WireFollows
<1>6. CASE RequestSent
  <2>1. /\ UNCHANGED <<ops, req>> /\ sendPc = "send" /\ sendPc' = "sent"
        /\ wire' = [wire EXCEPT ![req.id] = WireAfter]
    BY <1>6 DEF RequestSent
  <2>2. ~Unsent(req.id)
    BY <1>0, <2>1 DEF BegunHasOp
  <2>3. req.id \in Ids
    BY <1>0, <1>n, <2>2 DEF Unsent, IdsKnown
  <2>4. wire \in [Ids -> {"none", "open", "ended"}]
    BY <1>0 DEF TypeOK
  <2>5. \A id \in Ids : Unsent(id)' => wire'[id] = "none"
    <3> SUFFICES ASSUME NEW id \in Ids, Unsent(id)' PROVE wire'[id] = "none"
      OBVIOUS
    <3>1. Unsent(id) /\ id # req.id
      BY <2>1, <2>2 DEF Unsent
    <3> QED
      BY <2>1, <2>4, <3>1 DEF WireFollows
  <2>6. req'.type \in {"VOICE_START", "VOICE_DATA"} => wire'[req'.id] = "open"
    <3> SUFFICES ASSUME req.type \in {"VOICE_START", "VOICE_DATA"}
                 PROVE  wire'[req.id] = "open"
      BY <2>1
    <3>1. wire'[req.id] = WireAfter
      BY <2>1, <2>3, <2>4
    <3>2. CASE req.type = "VOICE_START"
      BY <3>1, <3>2 DEF WireAfter
    <3>3. CASE req.type = "VOICE_DATA"
      <4>1. WireAfter = wire[req.id]
        BY <3>3 DEF WireAfter
      <4>2. wire[req.id] = "open"
        BY <2>1, <3>3 DEF WireFollows, Starts
      <4> QED
        BY <3>1, <4>1, <4>2
    <3> QED
      BY <3>2, <3>3
  <2> QED
    BY <2>1, <2>5, <2>6 DEF WireFollows
<1> QED
  BY <1>1, <1>2, <1>3, <1>4, <1>5, <1>6 DEF SendStep

\* Whatever a thread does, the server is sent each request in order.
LEMMA WireStep ==
    ASSUME IInv, IInv', RequestsFollow, WireFollows, SingleSession,
           [Next]_vars
    PROVE  WireFollows'
<1>1. CASE SendStep
  BY <1>1, WireSender
<1>2. CASE \/ LifecycleStep \/ AppStep \/ CancelStep \/ RecvStep \/ PollStep
           \/ SpuriousWakeup
  BY <1>2, WireThreads
<1>3. CASE UNCHANGED vars
  BY <1>3 DEF vars, opVars, sendVars, WireFollows, Unsent, Starts
<1> QED
  BY <1>1, <1>2, <1>3 DEF Next

-----------------------------------------------------------------------------
(* The theorems.                                                           *)

\* Before the first prepare() there is nothing to answer.
LEMMA AnswersInit ==
    ASSUME Init
    PROVE  AInv
<1>1. /\ voiceReqs = <<>> /\ textReqs = <<>> /\ responses = <<>> /\ ops = <<>>
      /\ removed = 0 /\ cur = 0 /\ sendPc = "quit" /\ recvPc = "quit"
      /\ pollPc = "out" /\ relPc = "down" /\ ~initialized
      /\ wire = [id \in Ids |-> "none"] /\ told = [id \in Ids |-> <<>>]
  BY DEF Init
<1>2. DOMAIN ops = {} /\ DOMAIN responses = {} /\ DOMAIN voiceReqs = {}
  BY <1>1
<1>3. StreamsFollow
  BY <1>1, <1>2 DEF StreamsFollow, RepeatsCancel, StreamsOwned,
     StreamsOrdered, BegunHasStream, CurrentPending, Lifecycle
<1>4. TalesFollow
  <2>1. \A id \in Ids : told[id] = <<>> /\ DOMAIN told[id] = {}
    BY <1>1
  <2> QED
    BY <1>2, <2>1 DEF TalesFollow, InOrder, OpsTold, StreamsTold
<1>5. RequestsFollow /\ PollSleepsOnlyForCurrent
  BY <1>1, <1>2 DEF RequestsFollow, IdsKept, BegunHasOp, InHand,
     PollSleepsOnlyForCurrent
<1>6. WireFollows
  BY <1>1 DEF WireFollows
<1> QED
  BY <1>3, <1>4, <1>5, <1>6 DEF AInv

\* In one session the answers, the tales, the requests and the wire stay in
\* step with the operations, whatever the threads do (speech_impl.cc:140-895).
THEOREM AnswersInvariant ==
    ASSUME SingleSession
    PROVE  Spec => [](IInv /\ AInv)
<1>1. Init => IInv /\ AInv
  BY InvariantInit, AnswersInit
<1>2. (IInv /\ AInv) /\ [Next]_vars => (IInv /\ AInv)'
  <2> SUFFICES ASSUME IInv, AInv, [Next]_vars PROVE (IInv /\ AInv)'
    OBVIOUS
  <2>1. IInv'
    BY InvariantStep
  <2>2. Answers /\ RequestsFollow /\ WireFollows
    BY DEF AInv, Answers
  <2>3. Answers' /\ RequestsFollow' /\ WireFollows'
    BY <2>1, <2>2, AnswersStep, RequestsStep, WireStep
  <2>4. AInv'
    BY <2>3 DEF AInv, Answers
  <2> QED
    BY <2>1, <2>4
<1> QED
  BY <1>1, <1>2, PTL DEF Spec

\* The assertions of poll() hold: what it takes off responses_ is a result of
\* the operation at the front of operations_ (speech_impl.cc:408, 421, 435).
THEOREM PollServesFrontOpHolds ==
    ASSUME SingleSession
    PROVE  Spec => []PollServesFrontOp
<1>1. IInv /\ AInv => PollServesFrontOp
  BY ServesFront DEF AInv
<1> QED
  BY <1>1, AnswersInvariant, PTL

\* poll() never sleeps over something to return: no notify of resp_cond_ is
\* missing, no finished operation lacks its result (speech_impl.cc:398-478).
THEOREM PollSleepsOnlyForCurrentHolds ==
    ASSUME SingleSession
    PROVE  Spec => []PollSleepsOnlyForCurrent
<1>1. IInv /\ AInv => PollSleepsOnlyForCurrent
  BY DEF AInv
<1> QED
  BY <1>1, AnswersInvariant, PTL

\* Of one id poll() returns START first, END only after it, and after the last
\* result only a repeated CANCELLED; of two ids it answers first the one whose
\* operation was made first (op_ctl.h:34, speech_impl.cc:400-473).
THEOREM AnswersInOrderHolds ==
    ASSUME SingleSession
    PROVE  Spec => []AnswersInOrder
<1>1. ASSUME IInv, AInv PROVE AnswersInOrder
  <2>0. TypeOK /\ TalesFollow /\ OpsTold
    BY <1>1 DEF IInv, AInv, TalesFollow
  <2>1. \A id \in Ids : \A k \in DOMAIN told[id] :
          /\ told[id][k] = "START" => k = 1
          /\ told[id][k] # "DATA"
          /\ told[id][k] = "END" => told[id][1] = "START"
          /\ \A j \in 1..(k - 1) :
                told[id][j] \in Terminal => told[id][k] = "CANCELLED"
    BY <2>0 DEF TalesFollow, InOrder
  <2>2. ASSUME NEW i \in DOMAIN ops, NEW j \in DOMAIN ops, i < j,
               \A k \in 1..(j - 1) : ops[k].id # ops[j].id,
               told[ops[j].id] # <<>>
        PROVE  Answered(ops[i].id)
    <3>1. Leads(j) /\ i \in 1..Len(ops) /\ j \in 1..Len(ops)
          /\ removed \in 0..Len(ops) /\ Len(ops) \in Nat
      BY <2>0, <2>2, Shape DEF Leads
    <3>2. ~(removed + 1 < j)
      BY <2>0, <2>2, <3>1 DEF OpsTold
    <3>3. i <= removed
      BY <2>2, <3>1, <3>2
    <3> QED
      BY <2>0, <2>2, <3>3 DEF OpsTold
  <2> QED
    BY <2>1, <2>2 DEF AnswersInOrder
<1> QED
  BY <1>1, AnswersInvariant, PTL

\* The server sees each request start once, then its voice, then at most one
\* end: do_request() sends nothing of a request that has not reached it, and
\* starts none twice (speech_impl.cc:496-724).
THEOREM WireInOrderHolds ==
    ASSUME SingleSession
    PROVE  Spec => []WireInOrder
<1>1. AInv => WireInOrder
  BY DEF AInv, WireFollows, WireInOrder
<1> QED
  BY <1>1, AnswersInvariant, PTL

\* No request that was given an id vanishes: until poll() has returned its last
\* result it is queued, in the hands of send_reqs or an operation to be polled
\* (speech_impl.cc:172-307, 496-596).
THEOREM RequestsKeptHolds ==
    ASSUME SingleSession
    PROVE  Spec => []RequestsKept
<1>1. ASSUME IInv, AInv PROVE RequestsKept
  <2> SUFFICES ASSUME initialized, NEW id \in 1..nextId
               PROVE  \/ Answered(id)
                      \/ Has(voiceReqs, id) \/ TextHas(id)
                      \/ sendPc \in {"control", "change"} /\ req.id = id
                      \/ \E i \in DOMAIN ops : i > removed /\ ops[i].id = id
    BY DEF RequestsKept
  <2>1. \/ Has(voiceReqs, id) \/ TextHas(id) \/ (InHand /\ req.id = id)
        \/ ~Unsent(id)
    BY <1>1 DEF AInv, RequestsFollow, IdsKept
  <2>2. CASE ~Unsent(id)
    <3>1. PICK k \in DOMAIN ops : ops[k].id = id
      BY <2>2 DEF Unsent
    <3>2. TypeOK /\ OpsTold
      BY <1>1 DEF IInv, AInv, TalesFollow
    <3>3. k <= removed \/ k > removed
      BY <3>2, Shape
    <3> QED
      BY <3>1, <3>2, <3>3 DEF OpsTold
  <2> QED
    BY <2>1, <2>2 DEF InHand
<1> QED
  BY <1>1, AnswersInvariant, PTL
=============================================================================

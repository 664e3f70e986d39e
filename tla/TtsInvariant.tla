---------------------------- MODULE TtsInvariant ----------------------------
(***************************************************************************)
(* The inductive invariant behind the safety properties of Tts: a request  *)
(* moves from requests_ to operations_ in the order of the ids, the stream *)
(* of an operation follows its status, and what poll() has said of an id   *)
(* follows both.                                                           *)
(***************************************************************************)
EXTENDS Tts

\* One session, and op_cond_ wakes its waiter only when notified.
SingleSession == MaxSessions <= 1 /\ "op" \notin Spurious

\* Requests and operations are in the order of their ids, the operations
\* first, and every id was given out.
IdsOrdered ==
    /\ \A i \in DOMAIN requests : requests[i].id \in 1..nextId
    /\ \A i \in DOMAIN ops : ops[i].id \in 1..nextId
    /\ \A i, j \in DOMAIN requests : i < j => requests[i].id < requests[j].id
    /\ \A i, j \in DOMAIN ops : i < j => ops[i].id < ops[j].id
    /\ \A i \in DOMAIN ops, j \in DOMAIN requests :
            ops[i].id < requests[j].id

\* No id is lost: until release() it is queued or has an operation.
IdsKept ==
    initialized =>
        \A id \in 1..nextId : Queued(id) \/ \E i \in DOMAIN ops : ops[i].id = id

\* An operation in progress is the request's that send_reqs deals with, and
\* poll() has not reported it.
SenderFollows ==
    /\ cur # 0 =>
        /\ sendPc \in {"send", "sent", "failed", "finish", "waitop"}
        /\ ops[cur].id = reqId
        /\ removed < cur
    /\ sendPc = "waitop" => cur # 0

\* A stream belongs to an operation still to be polled, the streams are in the
\* order of the operations, and what is completed is over.
StreamsFollow ==
    /\ \A i \in DOMAIN responses : Live(responses[i])
    /\ \A i, j \in DOMAIN responses : i < j => responses[i].id < responses[j].id
    /\ \A i \in DOMAIN responses :
        \E k \in DOMAIN ops :
            /\ removed < k /\ ops[k].id = responses[i].id
            /\ responses[i].type = "completed" => ops[k].status \in Terminal

\* Until release() drops the responses an operation that has begun to be
\* answered has a stream, a completed one when the answer is over.
BegunHasStream ==
    relPc \in {"up", "joinsend"} =>
        \A k \in DOMAIN ops :
            (removed < k /\ ops[k].status \in {"STREAMING", "END"}) =>
                \E i \in DOMAIN responses :
                    /\ responses[i].id = ops[k].id
                    /\ ops[k].status = "END" => responses[i].type = "completed"

\* What an id may have been told.
Tales ==
    {<<>>, <<"START">>} \union {<<"START", t>> : t \in Terminal}
        \union {<<t>> : t \in {"CANCELLED", "ERROR"}}

\* Nothing is told of an id that was not given out, or is still queued.
TalesKnown ==
    \A id \in Ids : told[id] \in Tales /\ (id > nextId => told[id] = <<>>)

QueuedUntold == \A i \in DOMAIN requests : told[requests[i].id] = <<>>

\* An operation that poll() has removed is answered, one that was not has at
\* most begun to be, and one without a response has no stream either.
OpsTold ==
    \A k \in DOMAIN ops :
        /\ k <= removed => Answered(ops[k].id)
        /\ k > removed => told[ops[k].id] \in {<<>>, <<"START">>}
        /\ ops[k].status = "START" =>
                told[ops[k].id] = <<>> /\ ~Has(responses, ops[k].id)

\* A stream was announced exactly if it is polled.
StreamsTold ==
    \A i \in DOMAIN responses :
        told[responses[i].id] = IF responses[i].polling = 1 THEN <<"START">>
                                ELSE <<>>

TalesFollow == TalesKnown /\ QueuedUntold /\ OpsTold /\ StreamsTold

\* The lifecycle: one session, and before it nothing at all.
OneSession ==
    /\ sessions <= 1
    /\ initialized <=> relPc = "up"
    /\ relPc # "down" => sessions = 1
    /\ relPc \in {"down", "joinrecv"} => sendPc = "quit" /\ responses = <<>>
    /\ sessions = 0 =>
        /\ requests = <<>> /\ ops = <<>> /\ nextId = 0 /\ appPc = "idle"
        /\ \A id \in Ids : told[id] = <<>>

IInv ==
    /\ TypeOK /\ OnlyCurrentIsLive /\ NoLostWakeup /\ IdsOrdered /\ IdsKept
    /\ SenderFollows /\ StreamsFollow /\ BegunHasStream /\ TalesFollow
    /\ OneSession
=============================================================================

----------------------- MODULE SpeechAnswersInvariant -----------------------
(***************************************************************************)
(* The inductive invariant, on top of that of SpeechInvariant, behind what *)
(* the application and the server see of a request: its stream follows its *)
(* operation, what poll() has said of it follows both, it is never lost on *)
(* its way to an operation, and the server is sent its parts in order.     *)
(***************************************************************************)
EXTENDS SpeechInvariant

\* The operation is the first of its id: a later one only repeats that the
\* request is cancelled.
Leads(k) == \A j \in 1..(k - 1) : ops[j].id # ops[k].id

\* Only a CANCELLED operation may come after another of its id.
RepeatsCancel ==
    \A k \in DOMAIN ops : ops[k].status # "CANCELLED" => Leads(k)

\* A stream belongs to the leading operation of its id, which is still to be
\* polled and over if the stream is.
StreamsOwned ==
    \A i \in DOMAIN responses :
        \E k \in DOMAIN ops :
            /\ removed < k /\ Leads(k) /\ ops[k].id = responses[i].id
            /\ responses[i].type # "uncompleted" => ops[k].status \in Terminal

\* The streams are in the order of the operations they belong to.
StreamsOrdered ==
    \A i, j \in DOMAIN responses, k, l \in DOMAIN ops :
        (/\ i < j /\ Leads(k) /\ Leads(l)
         /\ ops[k].id = responses[i].id /\ ops[l].id = responses[j].id)
            => k < l

\* Until release() drops the responses an operation that has begun to be
\* answered has a stream, an ended one when the answer is over.
BegunHasStream ==
    relPc \notin {"down", "joinrecv"} =>
        \A k \in DOMAIN ops :
            (removed < k /\ ops[k].status \in {"STREAMING", "END"}) =>
                \E i \in DOMAIN responses :
                    /\ responses[i].id = ops[k].id
                    /\ ops[k].status = "END" =>
                            responses[i].type # "uncompleted"

\* The current operation was not polled.
CurrentPending == cur # 0 => removed < cur

\* A closed session has no current operation and no stream.
Lifecycle ==
    /\ initialized => relPc = "up"
    /\ relPc \in {"down", "joinrecv"} => cur = 0 /\ responses = <<>>
    /\ sessions = 0 => removed = 0 /\ (\A id \in Ids : told[id] = <<>>)

\* What poll() has to report follows the operations.
StreamsFollow ==
    /\ RepeatsCancel /\ StreamsOwned /\ StreamsOrdered /\ BegunHasStream
    /\ CurrentPending /\ Lifecycle

\* The results of one id are in order.
InOrder(tale) ==
    \A k \in DOMAIN tale :
        /\ tale[k] = "START" => k = 1
        /\ tale[k] # "DATA"
        /\ tale[k] = "END" => tale[1] = "START"
        /\ \A j \in 1..(k - 1) : tale[j] \in Terminal => tale[k] = "CANCELLED"

\* An operation that poll() has removed is answered; of one that it has not,
\* only the front one can have begun to be.
OpsTold ==
    \A k \in DOMAIN ops :
        /\ k <= removed => Answered(ops[k].id)
        /\ (removed < k /\ Leads(k)) => told[ops[k].id] \in {<<>>, <<"START">>}
        /\ (removed + 1 < k /\ Leads(k)) => told[ops[k].id] = <<>>
        /\ ops[k].status = "START" =>
                told[ops[k].id] = <<>> /\ ~Has(responses, ops[k].id)

\* A stream was announced exactly if it is polled.
StreamsTold ==
    \A i \in DOMAIN responses :
        told[responses[i].id] = IF responses[i].polling = 1 THEN <<"START">>
                                ELSE <<>>

\* What poll() has said follows the operations and the streams.
TalesFollow ==
    /\ \A id \in Ids : InOrder(told[id]) /\ (Unsent(id) => told[id] = <<>>)
    /\ OpsTold /\ StreamsTold

\* Until release() every id is queued, in the hands of send_reqs, or has an
\* operation.
IdsKept ==
    initialized =>
        \A id \in 1..nextId :
            \/ Has(voiceReqs, id) \/ TextHas(id) \/ (InHand /\ req.id = id)
            \/ ~Unsent(id)

\* A request that send_reqs drops had its operation before: so has a voice
\* request that was begun or failed, but for the one just begun.
BegunHasOp ==
    /\ \A i \in DOMAIN voiceReqs :
            voiceReqs[i].polling = 1 \/ voiceReqs[i].type = "error" =>
                \/ InHand /\ Starts /\ req.id = voiceReqs[i].id
                \/ ~Unsent(voiceReqs[i].id)
    /\ recvPc = "erase" => ~Unsent(eraseId)
    /\ sendPc \in {"send", "failed"} => ~Unsent(req.id)
    /\ (InHand /\ req.type \in {"VOICE_END", "VOICE_DATA"}) => ~Unsent(req.id)

\* No request is lost on its way to an operation.
RequestsFollow == IdsKept /\ BegunHasOp

\* The server has seen nothing of a request without an operation, and has an
\* open request wherever send_reqs goes on with one.
WireFollows ==
    /\ \A id \in Ids : Unsent(id) => wire[id] = "none"
    /\ (sendPc = "send" /\ Starts) => wire[req.id] = "none"
    /\ (sendPc = "send" /\ ~Starts) => wire[req.id] = "open"
    /\ (sendPc = "sent" /\ req.type \in {"VOICE_START", "VOICE_DATA"}) =>
            wire[req.id] = "open"
    /\ (sendPc = "change" /\ opRef # 0) => wire[req.id] = "open"
    /\ (cur # 0 /\ sendPc \in {"top", "waitreq", "lostreq", "peek", "peeked",
                               "control", "change"}) =>
            wire[ops[cur].id] = "open"

\* The invariant: inductive together with IInv.
AInv ==
    /\ StreamsFollow /\ TalesFollow /\ RequestsFollow /\ WireFollows
    /\ PollSleepsOnlyForCurrent
=============================================================================

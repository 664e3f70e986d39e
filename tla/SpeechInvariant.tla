-------------------------- MODULE SpeechInvariant --------------------------
(***************************************************************************)
(* The inductive invariant behind OnlyCurrentIsLive and ControlFindsOwnOp: *)
(* what ties the current operation to the request send_reqs holds and to   *)
(* the stream at the front of voice_reqs_.                                 *)
(***************************************************************************)
EXTENDS Speech

\* One session, and op_cond_ wakes its waiter only when notified.
SingleSession == MaxSessions <= 1 /\ "op" \notin Spurious

\* send_reqs holds a request that it popped and has not acted on.
InHand == sendPc \in {"control", "change"}

\* No operation was made for the request.
Unsent(id) == \A i \in DOMAIN ops : ops[i].id # id

\* Ids are those that were given out.
IdsKnown ==
    /\ \A i \in DOMAIN voiceReqs : voiceReqs[i].id \in 1..nextId
    /\ \A i \in DOMAIN textReqs : textReqs[i].id \in 1..nextId
    /\ \A i \in DOMAIN ops : ops[i].id \in 1..nextId
    /\ InHand => req.id \in 1..nextId

\* A request is in one place only.
IdsApart ==
    /\ DistinctIds(voiceReqs)
    /\ \A i \in DOMAIN textReqs, j \in DOMAIN textReqs :
            textReqs[i].id = textReqs[j].id => i = j
    /\ \A i \in DOMAIN voiceReqs, j \in DOMAIN textReqs :
            voiceReqs[i].id # textReqs[j].id
    /\ InHand => \A j \in DOMAIN textReqs : textReqs[j].id # req.id
    /\ InHand => \A i \in DOMAIN voiceReqs :
                    voiceReqs[i].id = req.id => voiceReqs[i].polling = 1

\* A request that was not begun has no operation.
NotBegun ==
    /\ \A i \in DOMAIN voiceReqs :
            voiceReqs[i].polling = 0 => Unsent(voiceReqs[i].id)
    /\ \A i \in DOMAIN textReqs : Unsent(textReqs[i].id)
    /\ (InHand /\ Starts) => Unsent(req.id)

\* The current operation is the last one and the only one of its request.
CurrentIsNewest ==
    cur # 0 => \A i \in 1..(cur - 1) : ops[i].id # ops[cur].id

\* The stream at the front of voice_reqs_ is the current operation's, begun.
FrontIsCurrent ==
    initialized =>
        /\ voiceReqs # <<>>
        /\ voiceReqs[1].id = ops[cur].id
        /\ voiceReqs[1].polling = 1

\* The voice request just begun is at the front of voice_reqs_.
StartedIsFront ==
    (InHand /\ req.type = "VOICE_START" /\ initialized) =>
        /\ voiceReqs # <<>>
        /\ voiceReqs[1].id = req.id
        /\ voiceReqs[1].polling = 1

\* What send_reqs relies on while an operation is in progress.
SenderFollows ==
    cur # 0 =>
        /\ sendPc \in {"top", "waitreq", "lostreq", "peek", "peeked"} =>
                FrontIsCurrent
        /\ sendPc = "peeked" => opRef # 0
        /\ sendPc \in {"control", "change", "send", "sent", "failed", "finish",
                       "block", "waitop", "lostop"} => ops[cur].id = req.id
        /\ /\ sendPc \in {"control", "change", "send", "sent", "failed"}
           /\ req.type \in {"VOICE_START", "VOICE_DATA"}
           => FrontIsCurrent
        /\ InHand => ~Starts
        /\ sendPc = "change" => opRef = cur
        /\ sendPc \in {"send", "sent", "failed"} => req.type # "CANCELLED"

\* The operation read before the lock was released.
ReadOpIsOwn ==
    (sendPc = "change" /\ opRef # 0) => ~Starts /\ ops[opRef].id = req.id

\* Until release() fails the operation, send_reqs sleeps for its own.
SleepsUntilError ==
    relPc \in {"up", "seterror", "writeerror"} => SleepsForOwnOp

\* The lifecycle: one session, and before it nothing at all.
OneSession ==
    /\ sessions <= 1
    /\ relPc # "down" => sessions = 1
    /\ sessions = 0 =>
        /\ voiceReqs = <<>> /\ textReqs = <<>> /\ ops = <<>> /\ cur = 0
        /\ appPc = "idle" /\ cancels = {} /\ recvPc = "quit"
        /\ pollPc = "out" /\ ~initialized
    /\ relPc \in {"down", "joinrecv"} => sendPc = "quit"
    /\ MaxReleases = 0 => relPc \in {"down", "up"}

IInv ==
    /\ TypeOK /\ OnlyCurrentIsLive /\ IdsKnown /\ IdsApart /\ NotBegun
    /\ CurrentIsNewest /\ StartedIsFront /\ SenderFollows /\ ReadOpIsOwn
    /\ SleepsUntilError /\ OneSession
=============================================================================

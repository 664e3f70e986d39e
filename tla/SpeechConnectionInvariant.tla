---------------------- MODULE SpeechConnectionInvariant ----------------------
(***************************************************************************)
(* The inductive invariant behind the safety properties of SpeechConnection*)
(* : what the places of the work thread and of its callbacks say of the    *)
(* socket, of ws_ and of stage_, which losses were reported, and what the  *)
(* response list and send() make of that.                                  *)
(***************************************************************************)
EXTENDS SpeechConnection

\* Callbacks run in hub_.run(), on the work thread; a crash ends every thread.
ThreadsFollow ==
    /\ hubPc # "poll" => workPc = "hub"
    /\ crashed => /\ workPc = "quit" /\ hubPc = "poll" /\ keepPc = "quit"
                  /\ sendPc = "idle" /\ recvPc = "quit" /\ relPc = "down"
    /\ relPc = "new" => stage = "INIT"
    /\ relPc \in {"new", "clear", "down"} => workPc = "quit"

\* The socket and ws_, by the place of the work thread.  A loss is noticed by
\* the library first, by ws_ later.
SocketFollows ==
    /\ (sock # "none" \/ hubPc # "poll") => conns # 0
    /\ (workPc # "hub" /\ ~crashed) =>
            ws = 0 /\ sock \in {"none", "connecting"}
    /\ workPc \in {"pause", "retry"} => sock = "none"
    /\ (ws # 0 /\ ~crashed) =>
            sock = "open" \/ (sock = "none" /\ hubPc = "lost")
    /\ hubPc \in {"lost", "cleared", "losing", "failed", "failing"} =>
            sock = "none"
    /\ hubPc \in {"cleared", "losing", "failed", "failing"} => ws = 0
    /\ sock = "connecting" => ws = 0 /\ hubPc = "poll"
    /\ hubPc = "connected" => ws = 0 /\ sock \in {"open", "closing"}

\* The stage, by the socket and the callback under way.
StageFollows ==
    /\ (sock = "connecting" \/ hubPc \in {"connected", "failed", "failing"}) =>
            stage \in {"CONNECTING", "CLOSED"}
    /\ (hubPc = "connected" /\ stage = "CONNECTING") => sock = "open"
    /\ hubPc = "login" => stage \in {"AUTHORIZING", "DISCONN", "CLOSED"}
    /\ (stage = "AUTHORIZING" /\ ~crashed) =>
            ws # 0 \/ hubPc \in {"cleared", "losing"}
    /\ (stage = "READY" /\ ~overtaken /\ ~crashed) =>
            /\ login = "accepted"
            /\ ws # 0 \/ hubPc \in {"cleared", "losing"}

\* An ERROR was pushed for every loss before the stage says so, and of a
\* connection it was pushed for no socket is left.
ReportsFollow ==
    /\ hubPc \in {"losing", "failed", "failing"} => conns \in reported
    /\ conns \in reported => ws = 0 /\ sock \notin {"open", "connecting"}

Control == ThreadsFollow /\ SocketFollows /\ StageFollows /\ ReportsFollow

\* The responses are in the order of the connections, an ERROR is reported and
\* CLOSED comes only after the list was cleared.
ResponsesFollow ==
    /\ \A i \in DOMAIN responses :
            /\ responses[i].conn <= conns
            /\ responses[i].type = "ERROR" => responses[i].conn \in reported
            /\ responses[i].type = "CLOSED" => relPc = "down" /\ ~crashed
    /\ relPc = "clear" => responses = <<>>
    /\ (relPc = "down" /\ ~crashed) => Len(responses) <= 1

\* A message in the hands of the work thread is the first of its connection
\* after the ERROR.
DataFollows ==
    hubPc = "data" =>
        \A i, j \in DOMAIN responses :
            (i < j /\ responses[i].type = "ERROR" /\ responses[j].type = "DATA")
                => responses[i].conn # conns

\* The connection that send() was told is available is so still, or was paused
\* or closed, or its loss was reported.
SenderFollows ==
    (sendPc = "frame" /\ ~overtaken) =>
        \/ sendConn \in reported
        \/ /\ sendConn = conns /\ login = "accepted"
           /\ stage \in {"READY"} \cup Stopped

IInv ==
    /\ TypeOK /\ Control
    /\ ResponsesFollow /\ ResponsesInOrder /\ DataFollows /\ SenderFollows
=============================================================================

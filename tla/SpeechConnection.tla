-------------------------- MODULE SpeechConnection --------------------------
(***************************************************************************)
(* The websocket connection: SpeechConnection (src/common/speech_connection*)
(* .cc and .h), its work thread with the callbacks of the websocket        *)
(* library, its keepalive thread, and the threads of the SDK that send and *)
(* receive.                                                                *)
(*                                                                         *)
(* A region under stage_mutex_ or resp_mutex_ is one action.  The callbacks*)
(* of a loss, of a failed connect and of a message read stage_ without the *)
(* mutex: each read and each later write is an action of its own.          *)
(*                                                                         *)
(* The library is external: hub_.run() delivers the events of one socket   *)
(* and returns when none is left; ws_->close() and the group's close() call*)
(* onDisconnection in the calling thread, which is what the comment at     *)
(* speech_connection.cc:436 relies on.  Times are not modelled, only       *)
(* whether the reconnect time has come: every other timeout may elapse     *)
(* whenever it is waited for.                                              *)
(***************************************************************************)
EXTENDS Naturals, Sequences

CONSTANTS
    MaxConns,       \* bound: calls of connect()
    MaxResponses    \* bound: responses waiting when the server sends one more

ASSUME ConnectionBoundsAssumption ==
    MaxConns \in Nat /\ MaxResponses \in Nat

Stages == {"INIT", "DISCONN", "CONNECTING", "AUTHORIZING", "READY", "PAUSED",
           "CLOSED"}

Stopped == {"PAUSED", "CLOSED"}

\* A response, with the number of the connection it came from.
Responses == [type : {"DATA", "ERROR", "CLOSED"}, conn : Nat]

VARIABLES
    stage,          \* stage_
    ws,             \* ws_: the number of the connection, 0 for NULL
    due,            \* whether reconn_timepoint_ has come
    responses,      \* responses_
    sock,           \* the socket of the library
    conns,          \* calls of connect() so far: the number of the socket
    login,          \* what the server has of the socket's authorization
    workPc,         \* work_thread_, run()
    hubPc,          \* where it is in a callback of hub_.run()
    keepPc,         \* keepalive_thread_, keepalive_run()
    sendPc,         \* the thread that calls send()
    sendConn,       \* the connection it was told is available
    recvPc,         \* the thread that calls recv()
    relPc,          \* the thread that calls initialize() and release()
    reported,       \* connections an ERROR was pushed for
    overtaken,      \* an accepted login met a stage that had moved on
    crashed         \* a NULL ws_ was dereferenced

vars == <<stage, ws, due, responses, sock, conns, login, workPc, hubPc, keepPc,
          sendPc, sendConn, recvPc, relPc, reported, overtaken, crashed>>

net == <<sock, conns, login>>
history == <<reported, overtaken, crashed>>

\* Steps that move one thread and change nothing else.
WorkMoves ==
    UNCHANGED <<stage, ws, due, responses, net, hubPc, keepPc, sendPc,
                sendConn, recvPc, relPc, history>>
HubMoves ==
    UNCHANGED <<stage, ws, due, responses, net, workPc, keepPc, sendPc,
                sendConn, recvPc, relPc, history>>
KeepMoves ==
    UNCHANGED <<stage, ws, due, responses, net, workPc, hubPc, sendPc,
                sendConn, recvPc, relPc, history>>
SendMoves ==
    UNCHANGED <<stage, ws, due, responses, net, workPc, hubPc, keepPc,
                sendConn, recvPc, relPc, history>>
RecvMoves ==
    UNCHANGED <<stage, ws, due, responses, net, workPc, hubPc, keepPc,
                sendPc, sendConn, relPc, history>>

\* stage_mutex_ is held between two actions only by the keepalive thread when
\* it loops without waiting; after a crash nobody takes it any more.
StageFree == keepPc # "spin" /\ ~crashed

AfterNotifyWork == IF workPc \in {"pause", "retry"} THEN "loop" ELSE workPc
AfterNotifyKeep == IF keepPc \in {"sleep", "timed"} THEN "loop" ELSE keepPc
AfterNotifySend == IF sendPc = "wait" THEN "check" ELSE sendPc
AfterNotifyRecv == IF recvPc \in {"wait", "timed"} THEN "woken" ELSE recvPc

NotifyStage ==
    /\ workPc' = AfterNotifyWork
    /\ keepPc' = AfterNotifyKeep
    /\ sendPc' = AfterNotifySend

Push(type) ==
    /\ responses' = Append(responses, [type |-> type, conn |-> conns])
    /\ recvPc' = AfterNotifyRecv

PushError == Push("ERROR") /\ reported' = reported \cup {conns}

\* Variant: onDisconnection() takes the socket for a stopped one.
CloseWsKeepsStage(d) ==
    /\ sock' = IF sock = "open" THEN "closing" ELSE sock
    /\ ws' = 0 /\ due' = d
    /\ UNCHANGED <<stage, responses, recvPc, reported, workPc, keepPc, sendPc>>

\* ws_->close() under stage_mutex_, the onDisconnection() it calls included.
\* The caller has set the reconnect time to `d'.
CloseWs(d) ==
    /\ sock' = IF sock = "open" THEN "closing" ELSE sock
    /\ ws' = 0
    /\ IF stage \in Stopped
       THEN /\ due' = d
            /\ UNCHANGED <<stage, responses, recvPc, reported, workPc, keepPc,
                           sendPc>>
       ELSE /\ due' = (stage = "READY")
            /\ stage' = "DISCONN"
            /\ PushError
            /\ NotifyStage

\* close() of the group once the stage is PAUSED or CLOSED: onDisconnection()
\* of an open socket only clears ws_; a connect under way goes on.
CloseGroup ==
    IF sock = "open"
    THEN sock' = "closing" /\ ws' = 0
    ELSE UNCHANGED <<sock, ws>>

-----------------------------------------------------------------------------
(* initialize() and release().                                             *)

Init ==
    /\ stage = "INIT" /\ ws = 0 /\ due = TRUE
    /\ responses = <<>>
    /\ sock = "none" /\ conns = 0 /\ login = "none"
    /\ workPc = "quit" /\ hubPc = "poll" /\ keepPc = "quit"
    /\ sendPc = "idle" /\ sendConn = 0
    /\ recvPc = "quit"
    /\ relPc = "new"
    /\ reported = {} /\ overtaken = FALSE /\ crashed = FALSE

\* One session: a socket that release() leaves in the hub, which the next one
\* would meet, is not followed further.
Initialize ==
    /\ relPc = "new"
    /\ relPc' = "up"
    /\ stage' = "PAUSED"
    /\ workPc' = "loop" /\ keepPc' = "loop"
    /\ recvPc' = "recv"
    /\ UNCHANGED <<ws, due, responses, net, hubPc, sendPc, sendConn, history>>

\* Variant: the receiver is told before the threads are joined.
ReleaseTellsFirst ==
    /\ relPc = "up" /\ StageFree
    /\ relPc' = "join"
    /\ stage' = "CLOSED"
    /\ NotifyStage
    /\ CloseGroup
    /\ Push("CLOSED")
    /\ UNCHANGED <<due, conns, login, hubPc, sendConn, history>>

\* Variant: nobody is notified.
ReleaseWithoutNotify ==
    /\ relPc = "up" /\ StageFree
    /\ relPc' = "join"
    /\ stage' = "CLOSED"
    /\ CloseGroup
    /\ UNCHANGED <<due, responses, conns, login, workPc, hubPc, keepPc, sendPc,
                   sendConn, recvPc, history>>

\* release(), under stage_mutex_.
ReleaseCloses ==
    /\ relPc = "up" /\ StageFree
    /\ relPc' = "join"
    /\ stage' = "CLOSED"
    /\ NotifyStage
    /\ CloseGroup
    /\ UNCHANGED <<due, responses, conns, login, hubPc, sendConn, recvPc,
                   history>>

\* Both threads joined; then, under resp_mutex_, clear() and notify_all().
ReleaseClears ==
    /\ relPc = "join" /\ workPc = "quit" /\ keepPc = "quit"
    /\ relPc' = "clear"
    /\ responses' = <<>>
    /\ recvPc' = AfterNotifyRecv
    /\ UNCHANGED <<stage, ws, due, net, workPc, hubPc, keepPc, sendPc, sendConn,
                   history>>

\* Variant: clear() and notify_all() come last.
ReleaseClearsLast ==
    /\ relPc = "clear"
    /\ relPc' = "down"
    /\ responses' = <<>>
    /\ recvPc' = AfterNotifyRecv
    /\ UNCHANGED <<stage, ws, due, net, workPc, hubPc, keepPc, sendPc, sendConn,
                   history>>

\* push_status_resp(CLOSED), the end of release().
ReleaseTellsReceiver ==
    /\ relPc = "clear"
    /\ relPc' = "down"
    /\ Push("CLOSED")
    /\ UNCHANGED <<stage, ws, due, net, workPc, hubPc, keepPc, sendPc, sendConn,
                   history>>

\* reconn(): of a socket that is not READY, onDisconnection() replaces the
\* reconnect time that reconn() has set.  Nobody is notified without one.
Reconn ==
    /\ StageFree
    /\ IF ws # 0
       THEN CloseWs(TRUE)
       ELSE /\ due' = TRUE
            /\ UNCHANGED <<stage, ws, responses, sock, workPc, keepPc, sendPc,
                           recvPc, reported>>
    /\ UNCHANGED <<conns, login, hubPc, sendConn, relPc, overtaken,
                   crashed>>

-----------------------------------------------------------------------------
(* run(): one turn of its loop, under stage_mutex_.                        *)

WorkQuits ==
    /\ workPc = "loop" /\ StageFree /\ stage = "CLOSED"
    /\ workPc' = "quit"
    /\ WorkMoves

\* Waits for the reconnect time, or in PAUSED for a notify.
WorkSleeps ==
    /\ workPc = "loop" /\ StageFree
    /\ \/ stage = "DISCONN" /\ ~due /\ workPc' = "retry"
       \/ stage = "PAUSED" /\ workPc' = "pause"
    /\ WorkMoves

Connects ==
    /\ workPc = "loop" /\ StageFree /\ stage = "DISCONN" /\ due
    /\ conns < MaxConns
    /\ conns' = conns + 1
    /\ login' = "none"

\* connect(), which the library carries on with in hub_.run().
WorkConnects ==
    /\ Connects
    /\ stage' = "CONNECTING"
    /\ sock' = "connecting"
    /\ UNCHANGED <<ws, due, responses, workPc, hubPc, keepPc, sendPc, sendConn,
                   recvPc, relPc, history>>

\* connect() that fails at once: onError() with stage_mutex_ held.
WorkConnectFails ==
    /\ Connects
    /\ stage' = "DISCONN" /\ due' = FALSE
    /\ responses' = Append(responses, [type |-> "ERROR", conn |-> conns + 1])
    /\ recvPc' = AfterNotifyRecv
    /\ reported' = reported \cup {conns + 1}
    /\ NotifyStage
    /\ UNCHANGED <<ws, sock, hubPc, sendConn, relPc, overtaken,
                   crashed>>

\* The default branch: unlocks and calls hub_.run().
WorkRunsHub ==
    /\ workPc = "loop" /\ StageFree
    /\ stage \in {"INIT", "CONNECTING", "AUTHORIZING", "READY"}
    /\ workPc' = "hub"
    /\ WorkMoves

\* hub_.run() returns when no socket is left.
HubReturns ==
    /\ workPc = "hub" /\ hubPc = "poll" /\ sock = "none"
    /\ workPc' = "loop"
    /\ WorkMoves

\* wait_for() ends when the reconnect time comes.
WorkRetries ==
    /\ workPc = "retry" /\ StageFree
    /\ workPc' = "loop" /\ due' = TRUE
    /\ UNCHANGED <<stage, ws, responses, net, hubPc, keepPc, sendPc, sendConn,
                   recvPc, relPc, history>>

-----------------------------------------------------------------------------
(* hub_.run(): events of the socket and the callbacks they lead to.        *)

Polling == workPc = "hub" /\ hubPc = "poll"

\* The library has connected and is about to call onConnection().
SocketOpens ==
    /\ Polling /\ sock = "connecting"
    /\ sock' = "open" /\ hubPc' = "connected"
    /\ UNCHANGED <<stage, ws, due, responses, conns, login, workPc, keepPc,
                   sendPc, sendConn, recvPc, relPc, history>>

\* auth() sends the login, or fails without its parameters.
Auth == login' \in {"none", "sent"}

\* Variant: the stage is not tested.
OnConnectionAnyStage ==
    /\ hubPc = "connected" /\ StageFree
    /\ hubPc' = "poll"
    /\ stage' = "AUTHORIZING"
    /\ ws' = conns
    /\ Auth
    /\ UNCHANGED <<due, responses, sock, conns, workPc, keepPc, sendPc,
                   sendConn, recvPc, relPc, history>>

\* onConnection(): a stopped connection ignores the socket and leaves it open.
\* What auth() returns is dropped: the stage is AUTHORIZING whether or not a
\* login was sent.
OnConnection ==
    /\ hubPc = "connected" /\ StageFree
    /\ hubPc' = "poll"
    /\ IF stage \in Stopped
       THEN UNCHANGED <<stage, ws, login>>
       ELSE /\ stage' = "AUTHORIZING"
            /\ ws' = conns
            /\ Auth
    /\ UNCHANGED <<due, responses, sock, conns, workPc, keepPc, sendPc,
                   sendConn, recvPc, relPc, history>>

\* onError() of a connect that failed in hub_.run(), stage_mutex_ not held
\* although speech_connection.cc:441 says so: the response and the time ...
ConnectFails ==
    /\ Polling /\ sock = "connecting"
    /\ sock' = "none" /\ hubPc' = "failed"
    /\ PushError
    /\ due' = FALSE
    /\ UNCHANGED <<stage, ws, conns, login, workPc, keepPc, sendPc, sendConn,
                   relPc, overtaken, crashed>>

\* ... the test of the stage ...
OnErrorTests ==
    /\ hubPc = "failed"
    /\ hubPc' = IF stage # "CLOSED" THEN "failing" ELSE "poll"
    /\ HubMoves

\* ... and the write.
OnErrorSets ==
    /\ hubPc = "failing"
    /\ hubPc' = "poll"
    /\ stage' = "DISCONN"
    /\ NotifyStage
    /\ UNCHANGED <<ws, due, responses, net, sendConn, recvPc, relPc, history>>

\* The server or the network ends the connection.
SocketLost ==
    /\ Polling /\ sock = "open"
    /\ sock' = "none" /\ hubPc' = "lost"
    /\ UNCHANGED <<stage, ws, due, responses, conns, login, workPc, keepPc,
                   sendPc, sendConn, recvPc, relPc, history>>

\* Variant: ws_ is left as it is.
OnDisconnectionKeepsWs ==
    /\ hubPc = "lost"
    /\ hubPc' = "cleared"
    /\ HubMoves

\* onDisconnection() called by the library, stage_mutex_ not held.
OnDisconnectionClears ==
    /\ hubPc = "lost"
    /\ hubPc' = "cleared"
    /\ ws' = 0
    /\ UNCHANGED <<stage, due, responses, net, workPc, keepPc, sendPc, sendConn,
                   recvPc, relPc, history>>

\* Variant: the receiver is not told.
OnDisconnectionTellsNobody ==
    /\ hubPc = "cleared"
    /\ hubPc' = IF stage \in Stopped THEN "poll" ELSE "losing"
    /\ HubMoves

OnDisconnectionTests ==
    /\ hubPc = "cleared"
    /\ IF stage \in Stopped
       THEN hubPc' = "poll" /\ UNCHANGED <<responses, recvPc, reported>>
       ELSE hubPc' = "losing" /\ PushError
    /\ UNCHANGED <<stage, ws, due, net, workPc, keepPc, sendPc, sendConn,
                   relPc, overtaken, crashed>>

OnDisconnectionSets ==
    /\ hubPc = "losing"
    /\ hubPc' = "poll"
    /\ due' = (stage = "READY")
    /\ stage' = "DISCONN"
    /\ NotifyStage
    /\ UNCHANGED <<ws, responses, net, sendConn, recvPc, relPc, history>>

\* The socket that was closed on this side is gone.
SocketGone ==
    /\ Polling /\ sock = "closing"
    /\ sock' = "none"
    /\ UNCHANGED <<stage, ws, due, responses, conns, login, workPc, hubPc,
                   keepPc, sendPc, sendConn, recvPc, relPc, history>>

\* onMessage() reads the stage without the mutex and drops the message in any
\* stage but these.  The server speaks once it has been sent a login.
OnMessage ==
    /\ Polling /\ sock = "open" /\ login # "none"
    /\ \/ stage = "AUTHORIZING" /\ hubPc' = "login"
       \/ /\ stage = "READY" /\ Len(responses) < MaxResponses
          /\ hubPc' = "data"
    /\ HubMoves

\* push_resp_data().
OnData ==
    /\ hubPc = "data"
    /\ hubPc' = "poll"
    /\ Push("DATA")
    /\ UNCHANGED <<stage, ws, due, net, workPc, keepPc, sendPc, sendConn, relPc,
                   history>>

\* The answer to the login is good: READY, whatever the stage is by now.
OnLoginAccepted ==
    /\ hubPc = "login" /\ StageFree
    /\ hubPc' = "poll"
    /\ stage' = "READY"
    /\ login' = "accepted"
    /\ overtaken' = (overtaken \/ stage # "AUTHORIZING")
    /\ NotifyStage
    /\ UNCHANGED <<ws, due, responses, sock, conns, sendConn, recvPc, relPc,
                   reported, crashed>>

\* It is not: the socket is closed, if there is one.
OnLoginRejected ==
    /\ hubPc = "login" /\ StageFree
    /\ hubPc' = "poll"
    /\ IF ws # 0
       THEN CloseWs(FALSE)
       ELSE /\ due' = FALSE
            /\ UNCHANGED <<stage, ws, responses, sock, workPc, keepPc, sendPc,
                           recvPc, reported>>
    /\ UNCHANGED <<conns, login, sendConn, relPc, overtaken, crashed>>

-----------------------------------------------------------------------------
(* keepalive_run(): one turn of its loop, under stage_mutex_.              *)

KeepQuits ==
    /\ keepPc = "loop" /\ stage = "CLOSED"
    /\ keepPc' = "quit"
    /\ KeepMoves

\* Waits for the next ping or silence in READY, otherwise for a notify.
KeepSleeps ==
    /\ keepPc = "loop" /\ stage # "CLOSED"
    /\ keepPc' = IF stage = "READY" THEN "timed" ELSE "sleep"
    /\ KeepMoves

KeepWakes ==
    /\ keepPc = "timed"
    /\ keepPc' = "loop"
    /\ KeepMoves

\* The server has been silent for no_resp_timeout.  Without a socket the thread
\* takes the next turn as it is, still holding the mutex.
KeepReconnects ==
    /\ keepPc = "loop" /\ stage = "READY"
    /\ IF ws # 0
       THEN CloseWs(TRUE)
       ELSE /\ due' = TRUE
            /\ keepPc' = "spin"
            /\ UNCHANGED <<stage, ws, responses, sock, workPc, sendPc, recvPc,
                           reported>>
    /\ UNCHANGED <<conns, login, hubPc, sendConn, relPc, overtaken,
                   crashed>>

\* ... until a callback that needs no mutex changes the stage or has noted
\* that the server spoke.
KeepStopsSpinning ==
    /\ keepPc = "spin" /\ (stage # "READY" \/ hubPc = "data")
    /\ keepPc' = "loop"
    /\ KeepMoves

\* Nothing was sent for conn_duration: PAUSED.
KeepPauses ==
    /\ keepPc = "loop" /\ stage = "READY"
    /\ stage' = "PAUSED"
    /\ NotifyStage
    /\ CloseGroup
    /\ UNCHANGED <<due, responses, conns, login, hubPc, sendConn, recvPc, relPc,
                   history>>

-----------------------------------------------------------------------------
(* send().                                                                 *)

\* Variant: the work thread is not notified.
SendCallWithoutNotify ==
    /\ sendPc = "idle" /\ relPc # "new" /\ StageFree
    /\ sendPc' = "check"
    /\ IF stage = "PAUSED"
       THEN stage' = "DISCONN" /\ due' = TRUE
       ELSE UNCHANGED <<stage, due>>
    /\ UNCHANGED <<ws, responses, net, workPc, hubPc, keepPc, sendConn, recvPc,
                   relPc, history>>

\* Wakes a paused connection up and waits for READY: the first part of
\* ensure_connection_available().
SendCall ==
    /\ sendPc = "idle" /\ relPc # "new" /\ StageFree
    /\ sendPc' = "check"
    /\ IF stage = "PAUSED"
       THEN /\ stage' = "DISCONN" /\ due' = TRUE
            /\ workPc' = AfterNotifyWork /\ keepPc' = AfterNotifyKeep
       ELSE UNCHANGED <<stage, due, workPc, keepPc>>
    /\ UNCHANGED <<ws, responses, net, hubPc, sendConn, recvPc, relPc, history>>

SendSeesReady ==
    /\ sendPc = "check" /\ StageFree /\ stage = "READY"
    /\ sendPc' = "frame" /\ sendConn' = conns
    /\ UNCHANGED <<stage, ws, due, responses, net, workPc, hubPc, keepPc,
                   recvPc, relPc, history>>

SendWaits ==
    /\ sendPc = "check" /\ StageFree /\ stage # "READY"
    /\ sendPc' = "wait"
    /\ SendMoves

\* CONNECTION_NOT_AVAILABLE.
SendTimesOut ==
    /\ sendPc = "wait" /\ StageFree
    /\ sendPc' = "idle"
    /\ SendMoves

\* ws_send(), with no mutex: SUCCESS, whether or not there is a socket to
\* write the request to.
SendFrame ==
    /\ sendPc = "frame"
    /\ sendPc' = "idle"
    /\ SendMoves

-----------------------------------------------------------------------------
(* recv(): takes a response, or waits once.                                *)

\* A CLOSED makes it return NOT_READY, and its caller quits.
RecvTakes ==
    /\ recvPc \in {"recv", "woken"} /\ responses # <<>>
    /\ responses' = Tail(responses)
    /\ recvPc' = IF Head(responses).type = "CLOSED" THEN "quit" ELSE "recv"
    /\ UNCHANGED <<stage, ws, due, net, workPc, hubPc, keepPc, sendPc, sendConn,
                   relPc, history>>

\* With no timeout, or for as long as the caller's operation has left.
RecvWaits ==
    /\ recvPc = "recv" /\ responses = <<>>
    /\ recvPc' \in {"wait", "timed"}
    /\ RecvMoves

\* TIMEOUT: nothing came in time, or the notify was that of release().
RecvReturnsNothing ==
    /\ recvPc = "timed" \/ (recvPc = "woken" /\ responses = <<>>)
    /\ recvPc' = "recv"
    /\ RecvMoves

-----------------------------------------------------------------------------
\* ws_ is tested and then used: onDisconnection() of the library, which takes
\* no mutex, may clear it in between.  reconn() may be that user at any time.
\* No thread survives.
Crash ==
    /\ hubPc = "lost" /\ ws # 0
    /\ crashed' = TRUE
    /\ workPc' = "quit" /\ hubPc' = "poll" /\ keepPc' = "quit"
    /\ sendPc' = "idle" /\ recvPc' = "quit" /\ relPc' = "down"
    /\ UNCHANGED <<stage, ws, due, responses, net, sendConn, reported,
                   overtaken>>

WorkStep ==
    \/ WorkQuits \/ WorkSleeps \/ WorkConnects \/ WorkConnectFails
    \/ WorkRunsHub \/ HubReturns \/ WorkRetries

Callback ==
    \/ OnConnection \/ OnErrorTests \/ OnErrorSets \/ OnDisconnectionClears
    \/ OnDisconnectionTests \/ OnDisconnectionSets \/ OnData
    \/ OnLoginAccepted \/ OnLoginRejected

\* What the library brings to an end by itself, and what only the server does.
SocketStep == SocketOpens \/ ConnectFails \/ SocketGone
ServerStep == SocketLost \/ OnMessage

KeepStep ==
    \/ KeepQuits \/ KeepSleeps \/ KeepWakes \/ KeepReconnects
    \/ KeepStopsSpinning \/ KeepPauses

SendStep ==
    SendCall \/ SendSeesReady \/ SendWaits \/ SendTimesOut \/ SendFrame

RecvStep == RecvTakes \/ RecvWaits \/ RecvReturnsNothing

LifecycleStep ==
    Initialize \/ ReleaseCloses \/ ReleaseClears \/ ReleaseTellsReceiver

Next ==
    \/ LifecycleStep \/ Reconn \/ WorkStep \/ SocketStep \/ ServerStep
    \/ Callback \/ KeepStep \/ SendStep \/ RecvStep \/ Crash

Spec == Init /\ [][Next]_vars

\* Threads that can run do run; a connect succeeds or fails, a socket closed
\* on this side goes away.  Nothing is expected of the server.
Fairness ==
    /\ WF_vars(WorkStep)
    /\ WF_vars(Callback)
    /\ WF_vars(SocketStep)
    /\ WF_vars(KeepStep)
    /\ WF_vars(RecvStep)
    /\ WF_vars(ReleaseClears \/ ReleaseTellsReceiver)

FairSpec == Spec /\ Fairness

-----------------------------------------------------------------------------
(* Properties.                                                             *)

\* The type invariant.
TypeOK ==
    /\ stage \in Stages /\ due \in BOOLEAN
    /\ responses \in Seq(Responses)
    /\ sock \in {"none", "connecting", "open", "closing"}
    /\ conns \in 0..MaxConns /\ ws \in {0, conns} /\ sendConn \in 0..conns
    /\ login \in {"none", "sent", "accepted"}
    /\ workPc \in {"quit", "loop", "pause", "retry", "hub"}
    /\ hubPc \in {"poll", "connected", "failed", "failing", "lost", "cleared",
                  "losing", "login", "data"}
    /\ keepPc \in {"quit", "loop", "sleep", "timed", "spin"}
    /\ sendPc \in {"idle", "check", "wait", "frame"}
    /\ recvPc \in {"quit", "recv", "wait", "timed", "woken"}
    /\ relPc \in {"new", "down", "up", "join", "clear"}
    /\ reported \subseteq 1..conns
    /\ overtaken \in BOOLEAN /\ crashed \in BOOLEAN

\* The stage says what ws_ is.  READY means an open, authorized socket behind
\* ws_, or a loss of it that the work thread is on its way to report; the one
\* exception is an accepted login that reconn() or release() overtook
\* (speech_connection.cc:380-413).  onError() only ever finds no socket, in the
\* stage CONNECTING or CLOSED, as speech_connection.cc:440 says; were there one,
\* it would lock the mutex its caller holds.
StageMatchesSocket ==
    /\ (stage = "READY" /\ ~overtaken /\ ~crashed) =>
        /\ login = "accepted"
        /\ \/ ws = conns /\ sock = "open"
           \/ hubPc \in {"lost", "cleared", "losing"}
    /\ hubPc \in {"failed", "failing"} =>
            ws = 0 /\ stage \in {"CONNECTING", "CLOSED"}
    /\ (workPc = "loop" /\ stage = "DISCONN") => ws = 0 /\ sock = "none"

\* What recv() finds is in the order of the connections, with at most one
\* message of a connection after the ERROR of its loss, the one in the hands of
\* the work thread, and nothing after CLOSED (speech_connection.cc:97-102).
ResponsesInOrder ==
    \A i, j \in DOMAIN responses : i < j =>
        /\ responses[i].type # "CLOSED"
        /\ responses[i].conn <= responses[j].conn
        /\ (responses[i].type = "ERROR" /\ responses[j].type = "DATA") =>
                \A k \in DOMAIN responses :
                    (k > j /\ responses[k].type = "DATA") =>
                        responses[k].conn > responses[i].conn

\* PAUSED ends with a send() or a release(), CLOSED not at all
\* (speech_connection.h:27-30), but for the callbacks that had read the stage
\* before: a loss, a failed connect, a login.
StopsHold ==
    [][ /\ (stage = "PAUSED" /\ stage' # "PAUSED") =>
                \/ relPc = "up" /\ relPc' = "join"
                \/ sendPc = "idle" /\ sendPc' = "check"
                \/ hubPc = "losing"
        /\ (stage = "CLOSED" /\ stage' # "CLOSED") =>
                hubPc \in {"losing", "failing", "login"}
      ]_vars

\* What SUCCESS of send() means.  The request was written to an authorized
\* socket, unless a whole reconnect came between the wait for READY and the
\* write.  Or it was dropped, and the receiver is told of the loss: an ERROR of
\* that connection was pushed, or is about to be, or the connection has been
\* paused or closed (speech_connection.h:80-86).
SuccessMeans ==
    [][ (sendPc = "frame" /\ sendPc' = "idle" /\ ~crashed' /\ ~overtaken) =>
            IF ws # 0
            THEN login = "accepted" \/ sendConn # conns
            ELSE \/ sendConn \in reported \/ hubPc = "cleared"
                 \/ stage \in Stopped ]_vars

\* release() returns, unless a callback overwrites CLOSED, or a connect under
\* way is completed after it: that socket is left open and hub_.run() goes on
\* until the server closes it (speech_connection.cc:76-94, 364).
ReleaseEnds ==
    (relPc = "join") ~>
        (relPc = "down" \/ stage # "CLOSED" \/ (sock = "open" /\ ws = 0))

\* A lost or refused connection is tried again.
Reconnects ==
    (stage = "DISCONN") ~> (stage # "DISCONN" \/ conns = MaxConns \/ crashed)

\* Once release() has returned, recv() returns NOT_READY, from wherever it was
\* (speech_connection.cc:97-102).
ReceiverToldClosed == (relPc = "clear") ~> (recvPc = "quit")
=============================================================================

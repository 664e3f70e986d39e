------------------------ MODULE SpeechConnectionProofs ------------------------
(***************************************************************************)
(* The safety of SpeechConnection for any number of connections and        *)
(* responses: its types, StageMatchesSocket, ResponsesInOrder and the      *)
(* action properties StopsHold and SuccessMeans.                           *)
(***************************************************************************)
EXTENDS SpeechConnectionInvariant, TLAPS

-----------------------------------------------------------------------------
(* Types.                                                                  *)

\* What push_resp_data() and push_status_resp() leave.
LEMMA PushTypes ==
    ASSUME TypeOK, NEW type \in {"DATA", "ERROR", "CLOSED"}
    PROVE  /\ (Push(type) \/ PushError) =>
                /\ responses' \in Seq(Responses)
                /\ recvPc' \in {"quit", "recv", "wait", "timed", "woken"}
           /\ (PushError /\ conns # 0) => reported' \subseteq 1..conns
<1>1. /\ conns \in Nat /\ responses \in Seq(Responses)
      /\ reported \subseteq 1..conns
  BY ConnectionBoundsAssumption DEF TypeOK
<1>2. \A t \in {"DATA", "ERROR", "CLOSED"} :
        [type |-> t, conn |-> conns] \in Responses
  BY <1>1 DEF Responses
<1>3. \A t \in {"DATA", "ERROR", "CLOSED"} :
        Push(t) => /\ responses' \in Seq(Responses)
                   /\ recvPc' \in {"quit", "recv", "wait", "timed", "woken"}
  BY <1>1, <1>2 DEF Push, AfterNotifyRecv, TypeOK
<1>4. conns # 0 => reported \cup {conns} \subseteq 1..conns
  BY <1>1
<1> QED
  BY <1>3, <1>4 DEF PushError

\* Where a notify of stage_changed_ leaves the threads.
LEMMA NotifyTypes ==
    ASSUME TypeOK, NotifyStage
    PROVE  /\ workPc' \in {"quit", "loop", "pause", "retry", "hub"}
           /\ keepPc' \in {"quit", "loop", "sleep", "timed", "spin"}
           /\ sendPc' \in {"idle", "check", "wait", "frame"}
  BY DEF TypeOK, NotifyStage, AfterNotifyWork, AfterNotifyKeep, AfterNotifySend

\* What closing ws_ leaves.
LEMMA CloseWsTypes ==
    ASSUME TypeOK, conns # 0, NEW d \in BOOLEAN, CloseWs(d)
    PROVE  /\ sock' \in {"none", "connecting", "open", "closing"} /\ ws' = 0
           /\ due' \in BOOLEAN
           /\ stage' \in Stages /\ responses' \in Seq(Responses)
           /\ recvPc' \in {"quit", "recv", "wait", "timed", "woken"}
           /\ reported' \subseteq 1..conns
           /\ workPc' \in {"quit", "loop", "pause", "retry", "hub"}
           /\ keepPc' \in {"quit", "loop", "sleep", "timed", "spin"}
           /\ sendPc' \in {"idle", "check", "wait", "frame"}
<1>1. sock' \in {"none", "connecting", "open", "closing"} /\ ws' = 0
  BY DEF CloseWs, TypeOK
<1>2. CASE stage \in Stopped
  BY <1>1, <1>2 DEF CloseWs, TypeOK
<1>3. CASE stage \notin Stopped
  <2>1. PushError /\ NotifyStage /\ stage' \in Stages /\ due' \in BOOLEAN
    BY <1>3 DEF CloseWs, Stages
  <2> QED
    BY <1>1, <2>1, PushTypes, NotifyTypes
<1> QED
  BY <1>2, <1>3

\* Every step keeps the types.
LEMMA TypeStep ==
    ASSUME TypeOK, ThreadsFollow, SocketFollows, [Next]_vars
    PROVE  TypeOK'
<1> USE DEF Stages, Stopped
<1>0. /\ conns \in Nat /\ MaxConns \in Nat /\ conns <= MaxConns
      /\ responses \in Seq(Responses)
  BY ConnectionBoundsAssumption DEF TypeOK
<1>1. CASE Initialize
  BY <1>1 DEF Initialize, TypeOK, net, history
<1>2. CASE ReleaseCloses
  BY <1>2 DEF ReleaseCloses, TypeOK, NotifyStage, AfterNotifyWork,
     AfterNotifyKeep, AfterNotifySend, CloseGroup, net, history
<1>3. CASE ReleaseClears
  <2>1. responses' \in Seq(Responses)
    BY <1>3 DEF ReleaseClears
  <2> QED
    BY <1>3, <2>1 DEF ReleaseClears, TypeOK, AfterNotifyRecv, net, history
<1>4. CASE ReleaseTellsReceiver
  BY <1>4, PushTypes DEF ReleaseTellsReceiver, TypeOK, net, history
<1>5. CASE Reconn
  <2>1. CASE ws # 0
    <3>1. conns # 0 /\ CloseWs(TRUE)
      BY <1>5, <2>1 DEF Reconn, TypeOK
    <3>2. UNCHANGED <<conns, login, hubPc, sendConn, relPc, overtaken,
                      crashed>>
      BY <1>5 DEF Reconn
    <3> QED
      BY <3>1, <3>2, CloseWsTypes, ZenonT(60) DEF TypeOK
  <2>2. CASE ws = 0
    <3>1. /\ due' = TRUE
          /\ UNCHANGED <<stage, ws, responses, net, workPc, hubPc, keepPc,
                         sendPc, sendConn, recvPc, relPc, history>>
      BY <1>5, <2>2 DEF Reconn, net, history
    <3> QED
      BY <3>1 DEF TypeOK, net, history
  <2> QED
    BY <2>1, <2>2
<1>6. CASE WorkQuits \/ WorkSleeps \/ WorkRunsHub \/ HubReturns
  BY <1>6 DEF WorkQuits, WorkSleeps, WorkRunsHub, HubReturns, WorkMoves,
     TypeOK,
     net, history
<1>7. CASE WorkConnects
  <2>1. ws = 0 /\ conns + 1 \in 0..MaxConns
    BY <1>0, <1>7 DEF WorkConnects, Connects, SocketFollows, StageFree
  <2>2. reported \subseteq 1..(conns + 1) /\ sendConn \in 0..(conns + 1)
    BY <1>0 DEF TypeOK
  <2> QED
    BY <1>7, <2>1, <2>2 DEF WorkConnects, Connects, TypeOK, net, history
<1>8. CASE WorkConnectFails
  <2>1. ws = 0 /\ conns + 1 \in 0..MaxConns
    BY <1>0, <1>8 DEF WorkConnectFails, Connects, SocketFollows, StageFree
  <2>2. /\ reported \cup {conns + 1} \subseteq 1..(conns + 1)
        /\ sendConn \in 0..(conns + 1)
    BY <1>0 DEF TypeOK
  <2>3. [type |-> "ERROR", conn |-> conns + 1] \in Responses
    BY <1>0 DEF Responses
  <2>4. responses' \in Seq(Responses)
    BY <1>0, <1>8, <2>3 DEF WorkConnectFails
  <2> QED
    BY <1>8, <2>1, <2>2, <2>4 DEF WorkConnectFails, Connects, TypeOK,
       NotifyStage,
       AfterNotifyWork, AfterNotifyKeep, AfterNotifySend, AfterNotifyRecv
<1>9. CASE WorkRetries
  BY <1>9 DEF WorkRetries, TypeOK, net, history
<1>10. CASE SocketOpens \/ SocketGone \/ SocketLost
  BY <1>10 DEF SocketOpens, SocketGone, SocketLost, TypeOK, net, history
<1>11. CASE ConnectFails
  <2>1. conns # 0
    BY <1>11 DEF ConnectFails, SocketFollows
  <2>2. /\ PushError /\ sock' = "none" /\ hubPc' = "failed" /\ due' = FALSE
        /\ UNCHANGED <<stage, ws, conns, login, workPc, keepPc, sendPc,
                       sendConn, relPc, overtaken, crashed>>
    BY <1>11 DEF ConnectFails
  <2>3. /\ responses' \in Seq(Responses) /\ reported' \subseteq 1..conns
        /\ recvPc' \in {"quit", "recv", "wait", "timed", "woken"}
    BY <2>1, <2>2, PushTypes
  <2>4. /\ sock' \in {"none", "connecting", "open", "closing"}
        /\ hubPc' \in {"poll", "connected", "failed", "failing", "lost",
                       "cleared", "losing", "login", "data"}
        /\ due' \in BOOLEAN
        /\ UNCHANGED <<stage, ws, conns, login, workPc, keepPc, sendPc,
                       sendConn, relPc, overtaken, crashed>>
    BY <2>2
  <2> HIDE DEF Stages
  <2> QED
    BY <2>3, <2>4 DEF TypeOK
<1>12. CASE OnConnection
  BY <1>12 DEF OnConnection, Auth, TypeOK, history
<1>13. CASE OnErrorTests \/ OnMessage
  BY <1>13 DEF OnErrorTests, OnMessage, HubMoves, TypeOK, net, history
<1>14. CASE OnErrorSets \/ OnDisconnectionSets
  BY <1>14 DEF OnErrorSets, OnDisconnectionSets, NotifyStage, AfterNotifyWork,
     AfterNotifyKeep, AfterNotifySend, TypeOK, net, history
<1>15. CASE OnDisconnectionClears
  BY <1>15 DEF OnDisconnectionClears, TypeOK, net, history
<1>16. CASE OnDisconnectionTests
  <2>1. conns # 0
    BY <1>16 DEF OnDisconnectionTests, SocketFollows
  <2>2. /\ hubPc' \in {"poll", "losing"}
        /\ PushError \/ UNCHANGED <<responses, recvPc, reported>>
        /\ UNCHANGED <<stage, ws, due, sock, conns, login, workPc, keepPc,
                       sendPc, sendConn, relPc, overtaken, crashed>>
    BY <1>16 DEF OnDisconnectionTests, net
  <2>3. /\ responses' \in Seq(Responses) /\ reported' \subseteq 1..conns
        /\ recvPc' \in {"quit", "recv", "wait", "timed", "woken"}
    <3>1. CASE PushError
      BY <2>1, <3>1, PushTypes
    <3>2. CASE UNCHANGED <<responses, recvPc, reported>>
      BY <3>2 DEF TypeOK
    <3> QED
      BY <2>2, <3>1, <3>2
  <2> QED
    BY <2>2, <2>3 DEF TypeOK
<1>17. CASE OnData
  BY <1>17, PushTypes DEF OnData, TypeOK, net, history
<1>18. CASE OnLoginAccepted
  BY <1>18 DEF OnLoginAccepted, NotifyStage, AfterNotifyWork, AfterNotifyKeep,
     AfterNotifySend, TypeOK
<1>19. CASE OnLoginRejected
  <2>1. CASE ws # 0
    <3>1. conns # 0 /\ CloseWs(FALSE)
      BY <1>19, <2>1 DEF OnLoginRejected, TypeOK
    <3> QED
      BY <1>19, <3>1, CloseWsTypes DEF OnLoginRejected, TypeOK
  <2>2. CASE ws = 0
    BY <1>19, <2>2 DEF OnLoginRejected, TypeOK
  <2> QED
    BY <2>1, <2>2
<1>20. CASE KeepQuits \/ KeepSleeps \/ KeepWakes \/ KeepStopsSpinning
  BY <1>20 DEF KeepQuits, KeepSleeps, KeepWakes, KeepStopsSpinning, KeepMoves,
     TypeOK, net, history
<1>21. CASE KeepReconnects
  <2>1. CASE ws # 0
    <3>1. conns # 0 /\ CloseWs(TRUE)
      BY <1>21, <2>1 DEF KeepReconnects, TypeOK
    <3> QED
      BY <1>21, <3>1, CloseWsTypes, ZenonT(60) DEF KeepReconnects, TypeOK
  <2>2. CASE ws = 0
    BY <1>21, <2>2 DEF KeepReconnects, TypeOK
  <2> QED
    BY <2>1, <2>2
<1>22. CASE KeepPauses
  <2>1. /\ sock' \in {"none", "connecting", "open", "closing"}
        /\ ws' \in {0, conns}
    BY <1>22 DEF KeepPauses, CloseGroup, TypeOK
  <2>2. /\ stage' = "PAUSED" /\ NotifyStage
        /\ UNCHANGED <<due, responses, conns, login, hubPc, sendConn, recvPc,
                       relPc, reported, overtaken, crashed>>
    BY <1>22 DEF KeepPauses, history
  <2>3. /\ workPc' \in {"quit", "loop", "pause", "retry", "hub"}
        /\ keepPc' \in {"quit", "loop", "sleep", "timed", "spin"}
        /\ sendPc' \in {"idle", "check", "wait", "frame"}
    BY <2>2, NotifyTypes
  <2> QED
    BY <2>1, <2>2, <2>3 DEF TypeOK
<1>23. CASE SendCall
  <2>1. /\ sendPc' = "check"
        /\ stage' \in Stages /\ due' \in BOOLEAN
        /\ workPc' \in {"quit", "loop", "pause", "retry", "hub"}
        /\ keepPc' \in {"quit", "loop", "sleep", "timed", "spin"}
    BY <1>23 DEF SendCall, AfterNotifyWork, AfterNotifyKeep, TypeOK
  <2>2. UNCHANGED <<ws, responses, sock, conns, login, hubPc, sendConn, recvPc,
                    relPc, reported, overtaken, crashed>>
    BY <1>23 DEF SendCall, net, history
  <2> QED
    BY <2>1, <2>2 DEF TypeOK
<1>24. CASE SendSeesReady
  BY <1>0, <1>24 DEF SendSeesReady, TypeOK, net, history
<1>25. CASE SendWaits \/ SendTimesOut \/ SendFrame
  BY <1>25 DEF SendWaits, SendTimesOut, SendFrame, SendMoves, TypeOK, net,
     history
<1>26. CASE RecvTakes
  <2>1. responses' \in Seq(Responses)
    BY <1>0, <1>26 DEF RecvTakes
  <2> QED
    BY <1>26, <2>1 DEF RecvTakes, TypeOK, net, history
<1>27. CASE RecvWaits \/ RecvReturnsNothing
  BY <1>27 DEF RecvWaits, RecvReturnsNothing, RecvMoves, TypeOK, net, history
<1>28. CASE Crash
  BY <1>28 DEF Crash, TypeOK, net
<1>29. CASE UNCHANGED vars
  BY <1>29 DEF vars, TypeOK, net, history
<1> QED
  BY <1>1, <1>2, <1>3, <1>4, <1>5, <1>6, <1>7, <1>8, <1>9, <1>10, <1>11,
     <1>12, <1>13, <1>14, <1>15, <1>16, <1>17, <1>18, <1>19, <1>20, <1>21,
     <1>22, <1>23, <1>24, <1>25, <1>26, <1>27, <1>28, <1>29 DEF Next,
     LifecycleStep, WorkStep, SocketStep, ServerStep, Callback, KeepStep,
     SendStep, RecvStep

-----------------------------------------------------------------------------
(* The threads, the socket, the stage and the reports.                     *)

\* Every step keeps what the places of the threads say.
LEMMA ControlStep ==
    ASSUME TypeOK, Control, [Next]_vars
    PROVE  Control'
<1> USE DEF TypeOK, Control, ThreadsFollow, SocketFollows, StageFollows,
     ReportsFollow, net, history, StageFree, Stopped
<1>1. CASE Initialize
  BY <1>1 DEF Initialize
<1>2. CASE ReleaseCloses
  BY <1>2 DEF ReleaseCloses, NotifyStage, AfterNotifyWork, AfterNotifyKeep,
     AfterNotifySend, CloseGroup
<1>3. CASE ReleaseClears
  BY <1>3 DEF ReleaseClears
<1>4. CASE ReleaseTellsReceiver
  BY <1>4 DEF ReleaseTellsReceiver
<1>5. CASE Reconn
  BY <1>5 DEF Reconn, CloseWs, PushError, Push, NotifyStage, AfterNotifyWork,
     AfterNotifyKeep, AfterNotifySend, AfterNotifyRecv
<1>6. CASE WorkQuits
  BY <1>6 DEF WorkQuits, WorkMoves
<1>7. CASE WorkSleeps
  BY <1>7 DEF WorkSleeps, WorkMoves
<1>8. CASE WorkConnects
  BY <1>8 DEF WorkConnects, Connects
<1>9. CASE WorkConnectFails
  BY <1>9 DEF WorkConnectFails, Connects, NotifyStage, AfterNotifyWork,
     AfterNotifyKeep, AfterNotifySend, AfterNotifyRecv
<1>10. CASE WorkRunsHub
  BY <1>10 DEF WorkRunsHub, WorkMoves
<1>11. CASE HubReturns
  BY <1>11 DEF HubReturns, WorkMoves
<1>12. CASE WorkRetries
  BY <1>12 DEF WorkRetries
<1>13. CASE SocketOpens
  BY <1>13 DEF SocketOpens, Polling
<1>14. CASE ConnectFails
  BY <1>14 DEF ConnectFails, Polling, PushError, Push
<1>15. CASE SocketGone
  BY <1>15 DEF SocketGone, Polling
<1>16. CASE SocketLost
  BY <1>16 DEF SocketLost, Polling
<1>17. CASE OnMessage
  BY <1>17 DEF OnMessage, Polling, HubMoves
<1>18. CASE OnConnection
  BY <1>18 DEF OnConnection
<1>19. CASE OnErrorTests
  BY <1>19 DEF OnErrorTests, HubMoves
<1>20. CASE OnErrorSets
  BY <1>20 DEF OnErrorSets, NotifyStage, AfterNotifyWork, AfterNotifyKeep,
     AfterNotifySend
<1>21. CASE OnDisconnectionClears
  BY <1>21 DEF OnDisconnectionClears
<1>22. CASE OnDisconnectionTests
  BY <1>22 DEF OnDisconnectionTests, PushError, Push
<1>23. CASE OnDisconnectionSets
  BY <1>23 DEF OnDisconnectionSets, NotifyStage, AfterNotifyWork,
     AfterNotifyKeep, AfterNotifySend
<1>24. CASE OnData
  BY <1>24 DEF OnData, Push
<1>25. CASE OnLoginAccepted
  BY <1>25 DEF OnLoginAccepted, NotifyStage, AfterNotifyWork, AfterNotifyKeep,
     AfterNotifySend
<1>26. CASE OnLoginRejected
  BY <1>26 DEF OnLoginRejected, CloseWs, PushError, Push, NotifyStage,
     AfterNotifyWork, AfterNotifyKeep, AfterNotifySend
<1>27. CASE KeepQuits
  BY <1>27 DEF KeepQuits, KeepMoves
<1>28. CASE KeepSleeps
  BY <1>28 DEF KeepSleeps, KeepMoves
<1>29. CASE KeepWakes
  BY <1>29 DEF KeepWakes, KeepMoves
<1>30. CASE KeepReconnects
  BY <1>30 DEF KeepReconnects, CloseWs, PushError, Push, NotifyStage,
     AfterNotifyWork, AfterNotifyKeep, AfterNotifySend
<1>31. CASE KeepStopsSpinning
  BY <1>31 DEF KeepStopsSpinning, KeepMoves
<1>32. CASE KeepPauses
  BY <1>32 DEF KeepPauses, NotifyStage, AfterNotifyWork, AfterNotifyKeep,
     AfterNotifySend, CloseGroup
<1>33. CASE SendCall
  BY <1>33 DEF SendCall, AfterNotifyWork, AfterNotifyKeep
<1>34. CASE SendSeesReady
  BY <1>34 DEF SendSeesReady
<1>35. CASE SendWaits
  BY <1>35 DEF SendWaits, SendMoves
<1>36. CASE SendTimesOut
  BY <1>36 DEF SendTimesOut, SendMoves
<1>37. CASE SendFrame
  BY <1>37 DEF SendFrame, SendMoves
<1>38. CASE RecvTakes
  BY <1>38 DEF RecvTakes
<1>39. CASE RecvWaits
  BY <1>39 DEF RecvWaits, RecvMoves
<1>40. CASE RecvReturnsNothing
  BY <1>40 DEF RecvReturnsNothing, RecvMoves
<1>41. CASE Crash
  BY <1>41 DEF Crash
<1>42. CASE UNCHANGED vars
  BY <1>42 DEF vars
<1> QED
  BY <1>1, <1>2, <1>3, <1>4, <1>5, <1>6, <1>7, <1>8, <1>9, <1>10, <1>11, <1>12,
     <1>13, <1>14, <1>15, <1>16, <1>17, <1>18, <1>19, <1>20, <1>21, <1>22,
     <1>23, <1>24, <1>25, <1>26, <1>27, <1>28, <1>29, <1>30, <1>31, <1>32,
     <1>33, <1>34, <1>35, <1>36, <1>37, <1>38, <1>39, <1>40, <1>41, <1>42
     DEF Next,
     LifecycleStep, WorkStep, SocketStep, ServerStep, Callback, KeepStep,
     SendStep, RecvStep

-----------------------------------------------------------------------------
(* The responses.  A step leaves them alone, clears them, takes the first, *)
(* or pushes one of the three kinds.                                       *)

Onward ==
    /\ reported \subseteq reported' /\ conns <= conns'
    /\ (relPc = "down" /\ ~crashed) => relPc' = "down" /\ ~crashed'
    /\ hubPc' = "data" => conns' = conns

Keeps ==
    /\ responses' = responses
    /\ relPc' = "clear" => relPc = "clear"
    /\ (relPc' = "down" /\ ~crashed') => relPc = "down" /\ ~crashed
    /\ hubPc' = "data" => hubPc = "data" \/ conns \notin reported

Clears == responses' = <<>>

Takes ==
    /\ responses # <<>> /\ responses' = Tail(responses)
    /\ UNCHANGED <<relPc, crashed, hubPc>>

Pushes(type) ==
    responses' = Append(responses, [type |-> type, conn |-> conns'])

Running == relPc \notin {"clear", "down"} /\ relPc' = relPc

TellsError ==
    /\ Pushes("ERROR") /\ Running
    /\ conns' \in reported'
    /\ hubPc' = "data" => hubPc = "data"

TellsData ==
    /\ Pushes("DATA") /\ Running
    /\ hubPc = "data" /\ hubPc' = "poll" /\ conns' = conns

TellsClosed ==
    /\ Pushes("CLOSED")
    /\ relPc = "clear" /\ relPc' = "down" /\ ~crashed' /\ hubPc' = "poll"

ListStep ==
    /\ Onward
    /\ Keeps \/ Clears \/ Takes \/ TellsError \/ TellsData \/ TellsClosed

\* Every step does one of these to the response list.
LEMMA ResponseSteps ==
    ASSUME TypeOK, Control, [Next]_vars
    PROVE  ListStep
<1> USE DEF TypeOK, Control, ThreadsFollow, SocketFollows, StageFollows,
     ReportsFollow, net, history, StageFree, Stopped, ListStep, Onward, Keeps,
     Clears, Takes, Pushes, Running, TellsError, TellsData, TellsClosed
<1>1. CASE Initialize
  BY <1>1 DEF Initialize
<1>2. CASE ReleaseCloses
  BY <1>2 DEF ReleaseCloses, NotifyStage, AfterNotifyWork, AfterNotifyKeep,
     AfterNotifySend, CloseGroup
<1>3. CASE ReleaseClears
  BY <1>3 DEF ReleaseClears
<1>4. CASE ReleaseTellsReceiver
  BY <1>4 DEF ReleaseTellsReceiver, Push
<1>5. CASE Reconn
  BY <1>5 DEF Reconn, CloseWs, PushError, Push, NotifyStage, AfterNotifyWork,
     AfterNotifyKeep, AfterNotifySend, AfterNotifyRecv
<1>6. CASE WorkQuits
  BY <1>6 DEF WorkQuits, WorkMoves
<1>7. CASE WorkSleeps
  BY <1>7 DEF WorkSleeps, WorkMoves
<1>8. CASE WorkConnects
  BY <1>8 DEF WorkConnects, Connects
<1>9. CASE WorkConnectFails
  BY <1>9 DEF WorkConnectFails, Connects, NotifyStage, AfterNotifyWork,
     AfterNotifyKeep, AfterNotifySend, AfterNotifyRecv
<1>10. CASE WorkRunsHub
  BY <1>10 DEF WorkRunsHub, WorkMoves
<1>11. CASE HubReturns
  BY <1>11 DEF HubReturns, WorkMoves
<1>12. CASE WorkRetries
  BY <1>12 DEF WorkRetries
<1>13. CASE SocketOpens
  BY <1>13 DEF SocketOpens, Polling
<1>14. CASE ConnectFails
  BY <1>14 DEF ConnectFails, Polling, PushError, Push
<1>15. CASE SocketGone
  BY <1>15 DEF SocketGone, Polling
<1>16. CASE SocketLost
  BY <1>16 DEF SocketLost, Polling
<1>17. CASE OnMessage
  BY <1>17 DEF OnMessage, Polling, HubMoves
<1>18. CASE OnConnection
  BY <1>18 DEF OnConnection
<1>19. CASE OnErrorTests
  BY <1>19 DEF OnErrorTests, HubMoves
<1>20. CASE OnErrorSets
  BY <1>20 DEF OnErrorSets, NotifyStage, AfterNotifyWork, AfterNotifyKeep,
     AfterNotifySend
<1>21. CASE OnDisconnectionClears
  BY <1>21 DEF OnDisconnectionClears
<1>22. CASE OnDisconnectionTests
  BY <1>22 DEF OnDisconnectionTests, PushError, Push
<1>23. CASE OnDisconnectionSets
  BY <1>23 DEF OnDisconnectionSets, NotifyStage, AfterNotifyWork,
     AfterNotifyKeep, AfterNotifySend
<1>24. CASE OnData
  BY <1>24 DEF OnData, Push
<1>25. CASE OnLoginAccepted
  BY <1>25 DEF OnLoginAccepted, NotifyStage, AfterNotifyWork, AfterNotifyKeep,
     AfterNotifySend
<1>26. CASE OnLoginRejected
  BY <1>26 DEF OnLoginRejected, CloseWs, PushError, Push, NotifyStage,
     AfterNotifyWork, AfterNotifyKeep, AfterNotifySend
<1>27. CASE KeepQuits
  BY <1>27 DEF KeepQuits, KeepMoves
<1>28. CASE KeepSleeps
  BY <1>28 DEF KeepSleeps, KeepMoves
<1>29. CASE KeepWakes
  BY <1>29 DEF KeepWakes, KeepMoves
<1>30. CASE KeepReconnects
  BY <1>30 DEF KeepReconnects, CloseWs, PushError, Push, NotifyStage,
     AfterNotifyWork, AfterNotifyKeep, AfterNotifySend
<1>31. CASE KeepStopsSpinning
  BY <1>31 DEF KeepStopsSpinning, KeepMoves
<1>32. CASE KeepPauses
  BY <1>32 DEF KeepPauses, NotifyStage, AfterNotifyWork, AfterNotifyKeep,
     AfterNotifySend, CloseGroup
<1>33. CASE SendCall
  BY <1>33 DEF SendCall, AfterNotifyWork, AfterNotifyKeep
<1>34. CASE SendSeesReady
  BY <1>34 DEF SendSeesReady
<1>35. CASE SendWaits
  BY <1>35 DEF SendWaits, SendMoves
<1>36. CASE SendTimesOut
  BY <1>36 DEF SendTimesOut, SendMoves
<1>37. CASE SendFrame
  BY <1>37 DEF SendFrame, SendMoves
<1>38. CASE RecvTakes
  BY <1>38 DEF RecvTakes
<1>39. CASE RecvWaits
  BY <1>39 DEF RecvWaits, RecvMoves
<1>40. CASE RecvReturnsNothing
  BY <1>40 DEF RecvReturnsNothing, RecvMoves
<1>41. CASE Crash
  BY <1>41 DEF Crash
<1>42. CASE UNCHANGED vars
  BY <1>42 DEF vars
<1> QED
  BY <1>1, <1>2, <1>3, <1>4, <1>5, <1>6, <1>7, <1>8, <1>9, <1>10, <1>11, <1>12,
     <1>13, <1>14, <1>15, <1>16, <1>17, <1>18, <1>19, <1>20, <1>21, <1>22,
     <1>23, <1>24, <1>25, <1>26, <1>27, <1>28, <1>29, <1>30, <1>31, <1>32,
     <1>33, <1>34, <1>35, <1>36, <1>37, <1>38, <1>39, <1>40, <1>41, <1>42
     DEF Next,
     LifecycleStep, WorkStep, SocketStep, ServerStep, Callback, KeepStep,
     SendStep, RecvStep

-----------------------------------------------------------------------------
(* send().                                                                 *)

\* What send() was told stays true in the way SenderFollows says.
LEMMA SenderStep ==
    ASSUME TypeOK, Control, SenderFollows, [Next]_vars
    PROVE  SenderFollows'
<1> USE DEF TypeOK, Control, ThreadsFollow, SocketFollows, StageFollows,
     ReportsFollow, SenderFollows, net, history, StageFree, Stopped
<1>1. CASE Initialize
  BY <1>1 DEF Initialize
<1>2. CASE ReleaseCloses
  BY <1>2 DEF ReleaseCloses, NotifyStage, AfterNotifyWork, AfterNotifyKeep,
     AfterNotifySend, CloseGroup
<1>3. CASE ReleaseClears
  BY <1>3 DEF ReleaseClears
<1>4. CASE ReleaseTellsReceiver
  BY <1>4 DEF ReleaseTellsReceiver, Push
<1>5. CASE Reconn
  BY <1>5 DEF Reconn, CloseWs, PushError, Push, NotifyStage, AfterNotifyWork,
     AfterNotifyKeep, AfterNotifySend, AfterNotifyRecv
<1>6. CASE WorkQuits
  BY <1>6 DEF WorkQuits, WorkMoves
<1>7. CASE WorkSleeps
  BY <1>7 DEF WorkSleeps, WorkMoves
<1>8. CASE WorkConnects
  BY <1>8 DEF WorkConnects, Connects
<1>9. CASE WorkConnectFails
  BY <1>9 DEF WorkConnectFails, Connects, NotifyStage, AfterNotifyWork,
     AfterNotifyKeep, AfterNotifySend, AfterNotifyRecv
<1>10. CASE WorkRunsHub
  BY <1>10 DEF WorkRunsHub, WorkMoves
<1>11. CASE HubReturns
  BY <1>11 DEF HubReturns, WorkMoves
<1>12. CASE WorkRetries
  BY <1>12 DEF WorkRetries
<1>13. CASE SocketOpens
  BY <1>13 DEF SocketOpens, Polling
<1>14. CASE ConnectFails
  BY <1>14 DEF ConnectFails, Polling, PushError, Push
<1>15. CASE SocketGone
  BY <1>15 DEF SocketGone, Polling
<1>16. CASE SocketLost
  BY <1>16 DEF SocketLost, Polling
<1>17. CASE OnMessage
  BY <1>17 DEF OnMessage, Polling, HubMoves
<1>18. CASE OnConnection
  BY <1>18 DEF OnConnection
<1>19. CASE OnErrorTests
  BY <1>19 DEF OnErrorTests, HubMoves
<1>20. CASE OnErrorSets
  BY <1>20 DEF OnErrorSets, NotifyStage, AfterNotifyWork, AfterNotifyKeep,
     AfterNotifySend
<1>21. CASE OnDisconnectionClears
  BY <1>21 DEF OnDisconnectionClears
<1>22. CASE OnDisconnectionTests
  BY <1>22 DEF OnDisconnectionTests, PushError, Push
<1>23. CASE OnDisconnectionSets
  BY <1>23 DEF OnDisconnectionSets, NotifyStage, AfterNotifyWork,
     AfterNotifyKeep, AfterNotifySend
<1>24. CASE OnData
  BY <1>24 DEF OnData, Push
<1>25. CASE OnLoginAccepted
  BY <1>25 DEF OnLoginAccepted, NotifyStage, AfterNotifyWork, AfterNotifyKeep,
     AfterNotifySend
<1>26. CASE OnLoginRejected
  BY <1>26 DEF OnLoginRejected, CloseWs, PushError, Push, NotifyStage,
     AfterNotifyWork, AfterNotifyKeep, AfterNotifySend
<1>27. CASE KeepQuits
  BY <1>27 DEF KeepQuits, KeepMoves
<1>28. CASE KeepSleeps
  BY <1>28 DEF KeepSleeps, KeepMoves
<1>29. CASE KeepWakes
  BY <1>29 DEF KeepWakes, KeepMoves
<1>30. CASE KeepReconnects
  BY <1>30 DEF KeepReconnects, CloseWs, PushError, Push, NotifyStage,
     AfterNotifyWork, AfterNotifyKeep, AfterNotifySend
<1>31. CASE KeepStopsSpinning
  BY <1>31 DEF KeepStopsSpinning, KeepMoves
<1>32. CASE KeepPauses
  BY <1>32 DEF KeepPauses, NotifyStage, AfterNotifyWork, AfterNotifyKeep,
     AfterNotifySend, CloseGroup
<1>33. CASE SendCall
  BY <1>33 DEF SendCall, AfterNotifyWork, AfterNotifyKeep
<1>34. CASE SendSeesReady
  BY <1>34 DEF SendSeesReady
<1>35. CASE SendWaits
  BY <1>35 DEF SendWaits, SendMoves
<1>36. CASE SendTimesOut
  BY <1>36 DEF SendTimesOut, SendMoves
<1>37. CASE SendFrame
  BY <1>37 DEF SendFrame, SendMoves
<1>38. CASE RecvTakes
  BY <1>38 DEF RecvTakes
<1>39. CASE RecvWaits
  BY <1>39 DEF RecvWaits, RecvMoves
<1>40. CASE RecvReturnsNothing
  BY <1>40 DEF RecvReturnsNothing, RecvMoves
<1>41. CASE Crash
  BY <1>41 DEF Crash
<1>42. CASE UNCHANGED vars
  BY <1>42 DEF vars
<1> QED
  BY <1>1, <1>2, <1>3, <1>4, <1>5, <1>6, <1>7, <1>8, <1>9, <1>10, <1>11, <1>12,
     <1>13, <1>14, <1>15, <1>16, <1>17, <1>18, <1>19, <1>20, <1>21, <1>22,
     <1>23, <1>24, <1>25, <1>26, <1>27, <1>28, <1>29, <1>30, <1>31, <1>32,
     <1>33, <1>34, <1>35, <1>36, <1>37, <1>38, <1>39, <1>40, <1>41, <1>42
     DEF Next,
     LifecycleStep, WorkStep, SocketStep, ServerStep, Callback, KeepStep,
     SendStep, RecvStep

-----------------------------------------------------------------------------
(* The order of the responses.                                             *)

ListInv == ResponsesFollow /\ ResponsesInOrder /\ DataFollows

\* Where the elements of the list are after a push.
LEMMA Pushed ==
    ASSUME TypeOK, NEW type, Pushes(type)
    PROVE  /\ DOMAIN responses = 1..Len(responses) /\ Len(responses) \in Nat
           /\ DOMAIN responses' = 1..(Len(responses) + 1)
           /\ Len(responses') = Len(responses) + 1
           /\ \A i \in DOMAIN responses : responses'[i] = responses[i]
           /\ responses'[Len(responses) + 1].type = type
           /\ responses'[Len(responses) + 1].conn = conns'
<1>1. responses \in Seq(Responses)
  BY DEF TypeOK
<1>2. DOMAIN responses = 1..Len(responses) /\ Len(responses) \in Nat
  BY <1>1
<1>3. PICK r : r = [type |-> type, conn |-> conns']
  OBVIOUS
<1>4. responses' = Append(responses, r)
  BY <1>3 DEF Pushes
<1>5. /\ DOMAIN responses' = 1..(Len(responses) + 1)
      /\ Len(responses') = Len(responses) + 1
      /\ \A i \in 1..Len(responses) : responses'[i] = responses[i]
      /\ responses'[Len(responses) + 1] = r
  BY <1>1, <1>4
<1> QED
  BY <1>2, <1>3, <1>5

\* A push keeps the order: nothing follows CLOSED, and a message is pushed only
\* while it may be.
LEMMA PushedInOrder ==
    ASSUME TypeOK, TypeOK', ListInv, Onward, NEW type \in {"ERROR", "DATA"},
           Pushes(type), type = "DATA" => hubPc = "data",
           \A n \in DOMAIN responses : responses[n].type # "CLOSED"
    PROVE  ResponsesInOrder'
<1>0. /\ conns \in Nat /\ conns' \in Nat
      /\ DOMAIN responses = 1..Len(responses) /\ Len(responses) \in Nat
      /\ \A n \in DOMAIN responses : responses[n].conn \in Nat
  <2>1. responses \in Seq(Responses) /\ conns \in Nat /\ conns' \in Nat
    BY ConnectionBoundsAssumption DEF TypeOK
  <2>2. /\ DOMAIN responses = 1..Len(responses) /\ Len(responses) \in Nat
        /\ \A n \in DOMAIN responses : responses[n] \in Responses
    BY <2>1
  <2> QED
    BY <2>1, <2>2 DEF Responses
<1> SUFFICES ASSUME NEW i \in DOMAIN responses', NEW j \in DOMAIN responses',
                    i < j
             PROVE  /\ responses'[i].type # "CLOSED"
                    /\ responses'[i].conn <= responses'[j].conn
                    /\ (responses'[i].type = "ERROR"
                            /\ responses'[j].type = "DATA") =>
                        \A k \in DOMAIN responses' :
                            (k > j /\ responses'[k].type = "DATA") =>
                                responses'[k].conn > responses'[i].conn
  BY DEF ResponsesInOrder
<1>1. i \in DOMAIN responses /\ responses'[i] = responses[i]
  BY <1>0, Pushed
<1>2. responses[i].conn <= conns /\ responses[i].conn <= conns'
  BY <1>0, <1>1 DEF ListInv, ResponsesFollow, Onward
<1>3. CASE j = Len(responses) + 1
  BY <1>0, <1>1, <1>2, <1>3, Pushed
<1>4. CASE j \in DOMAIN responses
  <2>1. responses'[j] = responses[j]
    BY <1>4, Pushed
  <2>2. ASSUME NEW k \in DOMAIN responses', k > j,
               responses'[k].type = "DATA",
               responses[i].type = "ERROR", responses[j].type = "DATA"
        PROVE  responses'[k].conn > responses[i].conn
    <3>1. CASE k \in DOMAIN responses
      BY <1>1, <1>4, <2>2, <3>1, Pushed DEF ListInv, ResponsesInOrder
    <3>2. CASE k = Len(responses) + 1
      <4>1. type = "DATA" /\ responses'[k].conn = conns'
        BY <2>2, <3>2, Pushed
      <4> QED
        BY <1>0, <1>1, <1>2, <1>4, <2>2, <4>1
           DEF ListInv, DataFollows, Onward
    <3> QED
      BY <3>1, <3>2, Pushed
  <2> QED
    BY <1>1, <1>4, <2>1, <2>2 DEF ListInv, ResponsesInOrder
<1> QED
  BY <1>3, <1>4, Pushed

\* The order of what is in the list outlives every step.
LEMMA ResponsesKept ==
    ASSUME TypeOK, TypeOK', ListInv, ListStep
    PROVE  ListInv'
<1>1. /\ responses \in Seq(Responses) /\ conns \in Nat /\ conns' \in Nat
      /\ DOMAIN responses = 1..Len(responses) /\ Len(responses) \in Nat
      /\ \A i \in DOMAIN responses : responses[i].conn \in Nat
      /\ crashed \in BOOLEAN /\ crashed' \in BOOLEAN
  <2>1. /\ responses \in Seq(Responses) /\ conns \in Nat /\ conns' \in Nat
        /\ crashed \in BOOLEAN /\ crashed' \in BOOLEAN
    BY ConnectionBoundsAssumption DEF TypeOK
  <2>2. /\ DOMAIN responses = 1..Len(responses) /\ Len(responses) \in Nat
        /\ \A i \in DOMAIN responses : responses[i] \in Responses
    BY <2>1
  <2> QED
    BY <2>1, <2>2 DEF Responses
<1>2. Onward
  BY DEF ListStep
<1>3. CASE Keeps
  <2>1. ResponsesFollow'
    BY <1>1, <1>2, <1>3 DEF ListInv, ResponsesFollow, Keeps, Onward
  <2>2. ResponsesInOrder'
    BY <1>3 DEF ListInv, ResponsesInOrder, Keeps
  <2>3. DataFollows'
    BY <1>2, <1>3 DEF ListInv, ResponsesFollow, DataFollows, Keeps, Onward
  <2> QED
    BY <2>1, <2>2, <2>3 DEF ListInv
<1>4. CASE Clears
  <2>1. responses' = <<>> /\ DOMAIN responses' = {} /\ Len(responses') = 0
    BY <1>4 DEF Clears
  <2> QED
    BY <2>1 DEF ListInv, ResponsesFollow, ResponsesInOrder, DataFollows
<1>5. CASE Takes
  <2>1. /\ Len(responses) > 0 /\ DOMAIN responses' = 1..(Len(responses) - 1)
        /\ Len(responses') = Len(responses) - 1
        /\ \A i \in DOMAIN responses' :
                i + 1 \in DOMAIN responses /\ responses'[i] = responses[i + 1]
    BY <1>1, <1>5 DEF Takes
  <2>2. ResponsesFollow'
    <3>1. relPc # "clear"
      BY <1>5 DEF Takes, ListInv, ResponsesFollow
    <3> QED
      BY <1>1, <1>2, <1>5, <2>1, <3>1
         DEF ListInv, ResponsesFollow, Takes, Onward
  <2>3. ResponsesInOrder'
    <3>1. \A i, j \in DOMAIN responses' : i < j => i + 1 < j + 1
      BY <2>1
    <3> QED
      BY <2>1, <3>1 DEF ListInv, ResponsesInOrder
  <2>4. DataFollows'
    <3>1. \A i, j \in DOMAIN responses' : i < j => i + 1 < j + 1
      BY <2>1
    <3> QED
      BY <1>2, <1>5, <2>1, <3>1 DEF ListInv, DataFollows, Takes, Onward
  <2> QED
    BY <2>2, <2>3, <2>4 DEF ListInv
<1>6. CASE TellsError
  <2>1. \A i \in DOMAIN responses : responses[i].type # "CLOSED"
    BY <1>6 DEF TellsError, Running, ListInv, ResponsesFollow
  <2>2. ResponsesFollow'
    BY <1>1, <1>2, <1>6, <2>1, Pushed
       DEF ListInv, ResponsesFollow, TellsError, Running, Onward
  <2>3. ResponsesInOrder'
    BY <1>2, <1>6, <2>1, PushedInOrder DEF TellsError
  <2>4. DataFollows'
    BY <1>1, <1>2, <1>6, Pushed DEF ListInv, DataFollows, TellsError, Onward
  <2> QED
    BY <2>2, <2>3, <2>4 DEF ListInv
<1>7. CASE TellsData
  <2>1. \A i \in DOMAIN responses : responses[i].type # "CLOSED"
    BY <1>7 DEF TellsData, Running, ListInv, ResponsesFollow
  <2>2. ResponsesFollow'
    BY <1>1, <1>2, <1>7, <2>1, Pushed
       DEF ListInv, ResponsesFollow, TellsData, Running, Onward
  <2>3. ResponsesInOrder'
    BY <1>2, <1>7, <2>1, PushedInOrder DEF TellsData
  <2>4. DataFollows'
    BY <1>7 DEF DataFollows, TellsData
  <2> QED
    BY <2>2, <2>3, <2>4 DEF ListInv
<1>8. CASE TellsClosed
  <2>1. responses = <<>> /\ DOMAIN responses = {} /\ Len(responses) = 0
    BY <1>8 DEF TellsClosed, ListInv, ResponsesFollow
  <2>2. /\ DOMAIN responses' = 1..1 /\ Len(responses') = 1
        /\ responses'[1].type = "CLOSED" /\ responses'[1].conn = conns'
    BY <1>8, <2>1, Pushed DEF TellsClosed
  <2> QED
    BY <1>1, <1>8, <2>2
       DEF ListInv, ResponsesFollow, ResponsesInOrder, DataFollows, TellsClosed
<1> QED
  BY <1>3, <1>4, <1>5, <1>6, <1>7, <1>8 DEF ListStep

-----------------------------------------------------------------------------
(* The invariant and the properties that follow from it.                   *)

\* IInv holds initially.
LEMMA InvariantInit == Init => IInv
<1> SUFFICES ASSUME Init PROVE IInv
  OBVIOUS
<1>1. responses = <<>> /\ responses \in Seq(Responses) /\ DOMAIN responses = {}
      /\ Len(responses) = 0
  <2>1. responses = <<>>
    BY DEF Init
  <2>2. DOMAIN responses = {} /\ Len(responses) = 0
    BY <2>1
  <2>3. responses \in Seq(Responses)
    BY <2>1
  <2> QED
    BY <2>1, <2>2, <2>3
<1>2. TypeOK
  <2>1. 0 \in 0..MaxConns /\ 0 \in 0..0 /\ {} \subseteq 1..0
    BY ConnectionBoundsAssumption
  <2>2. /\ stage \in Stages /\ due \in BOOLEAN /\ reported \subseteq 1..conns
        /\ conns \in 0..MaxConns /\ sendConn \in 0..conns
    BY <2>1 DEF Init, Stages
  <2> QED
    BY <1>1, <2>1, <2>2 DEF Init, TypeOK
<1>3. Control
  BY DEF Init, Control, ThreadsFollow, SocketFollows, StageFollows,
     ReportsFollow
<1>4. ResponsesFollow /\ ResponsesInOrder /\ DataFollows /\ SenderFollows
  BY <1>1 DEF Init, ResponsesFollow, ResponsesInOrder, DataFollows,
     SenderFollows
<1> QED
  BY <1>2, <1>3, <1>4 DEF IInv

\* Every step keeps IInv.
LEMMA InvariantStep == IInv /\ [Next]_vars => IInv'
<1> SUFFICES ASSUME IInv, [Next]_vars PROVE IInv'
  OBVIOUS
<1>1. TypeOK /\ Control /\ SenderFollows /\ ListInv
  BY DEF IInv, ListInv
<1>2. TypeOK'
  BY <1>1, TypeStep DEF Control
<1>3. Control'
  BY <1>1, ControlStep
<1>4. SenderFollows'
  BY <1>1, SenderStep
<1>5. ListInv'
  BY <1>1, <1>2, ResponseSteps, ResponsesKept
<1> QED
  BY <1>2, <1>3, <1>4, <1>5 DEF IInv, ListInv

\* The inductive invariant holds in every reachable state.
THEOREM InvariantHolds == Spec => []IInv
  BY InvariantInit, InvariantStep, PTL DEF Spec

\* Every variable has its type, whatever the number of connections.
THEOREM TypeCorrect == Spec => []TypeOK
<1>1. IInv => TypeOK
  BY DEF IInv
<1> QED
  BY <1>1, InvariantHolds, PTL

\* StageMatchesSocket: READY means an authorized socket behind ws_ or a loss on
\* its way, onError() finds no socket, and a connect is tried only without one.
THEOREM StageMatchesSocketHolds == Spec => []StageMatchesSocket
<1>1. IInv => StageMatchesSocket
  BY DEF IInv, TypeOK, Control, ThreadsFollow, SocketFollows, StageFollows,
     StageMatchesSocket
<1> QED
  BY <1>1, InvariantHolds, PTL

\* ResponsesInOrder: recv() finds the responses in the order of the connections
\* with nothing after CLOSED.
THEOREM ResponsesInOrderHolds == Spec => []ResponsesInOrder
<1>1. IInv => ResponsesInOrder
  BY DEF IInv
<1> QED
  BY <1>1, InvariantHolds, PTL

\* StopsHold: PAUSED and CLOSED are left only by send(), release() and the
\* callbacks that had read the stage before.
THEOREM StopsHoldAlways == Spec => StopsHold
<1> DEFINE Stops == /\ (stage = "PAUSED" /\ stage' # "PAUSED") =>
                          \/ relPc = "up" /\ relPc' = "join"
                          \/ sendPc = "idle" /\ sendPc' = "check"
                          \/ hubPc = "losing"
                    /\ (stage = "CLOSED" /\ stage' # "CLOSED") =>
                          hubPc \in {"losing", "failing", "login"}
<1>1. IInv /\ [Next]_vars => [Stops]_vars
  <2> SUFFICES ASSUME IInv, [Next]_vars PROVE [Stops]_vars
    OBVIOUS
  <2> USE DEF IInv, Control, ThreadsFollow, StageFollows, Stopped, net, history
  <2>1. CASE LifecycleStep
    BY <2>1 DEF LifecycleStep, Initialize, ReleaseCloses, ReleaseClears,
       ReleaseTellsReceiver, StageFree, NotifyStage, AfterNotifyWork,
       AfterNotifyKeep, AfterNotifySend, CloseGroup
  <2>2. CASE Reconn
    BY <2>2 DEF Reconn, StageFree, CloseWs, NotifyStage, AfterNotifyWork,
       AfterNotifyKeep, AfterNotifySend, AfterNotifyRecv
  <2>3. CASE WorkStep
    BY <2>3 DEF WorkStep, WorkQuits, WorkSleeps, WorkConnects,
       WorkConnectFails, WorkRunsHub, HubReturns, WorkRetries, StageFree,
       WorkMoves, Connects, NotifyStage, AfterNotifyWork, AfterNotifyKeep,
       AfterNotifySend, AfterNotifyRecv
  <2>4. CASE SocketStep \/ ServerStep
    BY <2>4 DEF SocketStep, ServerStep, SocketOpens, ConnectFails, SocketGone,
       SocketLost, OnMessage, Polling, HubMoves
  <2>5. CASE Callback
    BY <2>5 DEF Callback, OnConnection, OnErrorTests, OnErrorSets,
       OnDisconnectionClears, OnDisconnectionTests, OnDisconnectionSets,
       OnData, OnLoginAccepted, OnLoginRejected, StageFree, HubMoves,
       NotifyStage, AfterNotifyWork, AfterNotifyKeep, AfterNotifySend, CloseWs
  <2>6. CASE KeepStep
    BY <2>6 DEF KeepStep, KeepQuits, KeepSleeps, KeepWakes, KeepReconnects,
       KeepStopsSpinning, KeepPauses, KeepMoves, CloseWs, NotifyStage,
       AfterNotifyWork, AfterNotifyKeep, AfterNotifySend, CloseGroup
  <2>7. CASE SendStep
    BY <2>7 DEF SendStep, SendCall, SendSeesReady, SendWaits, SendTimesOut,
       SendFrame, AfterNotifyWork, AfterNotifyKeep, SendMoves
  <2>8. CASE RecvStep
    BY <2>8 DEF RecvStep, RecvTakes, RecvWaits, RecvReturnsNothing, RecvMoves
  <2>9. CASE Crash
    BY <2>9 DEF Crash
  <2>10. CASE UNCHANGED vars
    BY <2>10
  <2> QED
    BY <2>1, <2>2, <2>3, <2>4, <2>5, <2>6, <2>7, <2>8, <2>9, <2>10 DEF Next
<1> QED
  BY <1>1, InvariantHolds, PTL DEF Spec, StopsHold

\* SuccessMeans: send() returns SUCCESS for a request that was written to an
\* authorized socket, or of whose loss the receiver is told.
THEOREM SuccessMeansHolds == Spec => SuccessMeans
<1> DEFINE Means == (sendPc = "frame" /\ sendPc' = "idle" /\ ~crashed'
                        /\ ~overtaken) =>
                      IF ws # 0
                      THEN login = "accepted" \/ sendConn # conns
                      ELSE \/ sendConn \in reported \/ hubPc = "cleared"
                           \/ stage \in Stopped
<1>1. IInv /\ [Next]_vars => [Means]_vars
  <2> SUFFICES ASSUME IInv, [Next]_vars PROVE [Means]_vars
    OBVIOUS
  <2> USE DEF IInv, TypeOK, Control, ThreadsFollow, SocketFollows,
       StageFollows, ReportsFollow, SenderFollows, Stopped, net, history
  <2>1. CASE LifecycleStep
    BY <2>1 DEF LifecycleStep, Initialize, ReleaseCloses, ReleaseClears,
       ReleaseTellsReceiver, StageFree, NotifyStage, AfterNotifyWork,
       AfterNotifyKeep, AfterNotifySend, CloseGroup, Push
  <2>2. CASE Reconn
    BY <2>2 DEF Reconn, StageFree, CloseWs, PushError, Push, NotifyStage,
       AfterNotifyWork, AfterNotifyKeep, AfterNotifySend, AfterNotifyRecv
  <2>3. CASE WorkStep
    BY <2>3 DEF WorkStep, WorkQuits, WorkSleeps, WorkConnects,
       WorkConnectFails, WorkRunsHub, HubReturns, WorkRetries, StageFree,
       WorkMoves, Connects, NotifyStage, AfterNotifyWork, AfterNotifyKeep,
       AfterNotifySend, AfterNotifyRecv
  <2>4. CASE SocketStep \/ ServerStep
    BY <2>4 DEF SocketStep, ServerStep, SocketOpens, ConnectFails, SocketGone,
       SocketLost, OnMessage, Polling, PushError, Push, HubMoves
  <2>5. CASE Callback
    BY <2>5 DEF Callback, OnConnection, OnErrorTests, OnErrorSets,
       OnDisconnectionClears, OnDisconnectionTests, OnDisconnectionSets,
       OnData, OnLoginAccepted, OnLoginRejected, StageFree, HubMoves,
       NotifyStage, AfterNotifyWork, AfterNotifyKeep, AfterNotifySend,
       PushError, Push, CloseWs
  <2>6. CASE KeepStep
    BY <2>6 DEF KeepStep, KeepQuits, KeepSleeps, KeepWakes, KeepReconnects,
       KeepStopsSpinning, KeepPauses, KeepMoves, CloseWs, PushError, Push,
       NotifyStage, AfterNotifyWork, AfterNotifyKeep, AfterNotifySend,
       CloseGroup
  <2>7. CASE SendStep
    BY <2>7 DEF SendStep, SendCall, SendSeesReady, SendWaits, SendTimesOut,
       SendFrame, AfterNotifyWork, AfterNotifyKeep, SendMoves
  <2>8. CASE RecvStep
    BY <2>8 DEF RecvStep, RecvTakes, RecvWaits, RecvReturnsNothing, RecvMoves
  <2>9. CASE Crash
    BY <2>9 DEF Crash
  <2>10. CASE UNCHANGED vars
    BY <2>10
  <2> QED
    BY <2>1, <2>2, <2>3, <2>4, <2>5, <2>6, <2>7, <2>8, <2>9, <2>10 DEF Next
<1> QED
  BY <1>1, InvariantHolds, PTL DEF Spec, SuccessMeans
=============================================================================

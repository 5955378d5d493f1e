--------------------------- MODULE RtosPushProofs ---------------------------
(***************************************************************************)
(* Proofs about the device of RtosPush: the sockets of its requests and of *)
(* its push service, the shared buffer of its requests, the keep-alive,    *)
(* the receive buffer of the push service, and the feed it implements.     *)
(***************************************************************************)
EXTENDS MCRtosPush, SimpleJsonProofs

-----------------------------------------------------------------------------
(* What a step does to the sockets and to the requests: nothing; a socket  *)
(* for the push service, or the end of one; the loss of power; or a step   *)
(* of one request.                                                         *)
Quiet == UNCHANGED <<reqVars, socketHandle>>

Attach ==
  /\ socketHandle = NoSocket \/ "twice" \in faults
  /\ \E h \in Handles : socketSslConnect(h) /\ socketHandle' = h
  /\ UNCHANGED <<dataBuffer, requests, faults>>

Detach ==
  /\ socketClose(socketHandle) /\ socketHandle' = NoSocket
  /\ UNCHANGED <<dataBuffer, requests, faults>>

Sends(r) ==
  /\ \E t \in Tasks, c \in Requests \cup {Nobody} : parseSendRequest(t, r, c)
  /\ UNCHANGED socketHandle

GoesOn(r) == (RequestStep(r) \/ ServerCloses(r)) /\ UNCHANGED socketHandle

(* Every step is one of these.                                             *)
LEMMA StepKinds ==
  ASSUME [Next]_vars
  PROVE  Quiet \/ Attach \/ Detach \/ PowerLoss
         \/ \E r \in Requests : Sends(r) \/ GoesOn(r)
<1>1. CASE UNCHANGED vars
  BY <1>1 DEF vars, client, Quiet
<1>2. CASE PushServer
  BY <1>2 DEF PushServer, Publish, Transmit, PeerClose, PeerFail, Quiet, client
<1>3. CASE Application
  <2>1. ASSUME NEW set \in BOOLEAN, parseSetPushCallback(set) PROVE Quiet
    BY <2>1 DEF parseSetPushCallback, Quiet
  <2>2. ASSUME StartConnected PROVE Attach
    BY <2>2 DEF StartConnected, MayStart, Attach
  <2>3. ASSUME StartFailed PROVE Quiet
    BY <2>3 DEF StartFailed, Quiet, client
  <2>4. ASSUME parseStopPushService PROVE Detach
    BY <2>4 DEF parseStopPushService, Disconnect, Detach
  <2>5. QED
    BY <1>3, <2>1, <2>2, <2>3, <2>4 DEF Application, parseStartPushService
<1>4. CASE Process
  BY <1>4 DEF Process, Quiet, client
<1>5. CASE Receive
  <2>1. ASSUME NEW n \in 1 .. Len(wire), RecvBytes(n) PROVE Quiet
    BY <2>1 DEF RecvBytes, Quiet
  <2>2. ASSUME NEW n \in 1 .. Len(wire), RecvAgain(n) PROVE Quiet
    BY <2>2 DEF RecvAgain, Quiet, client
  <2>3. ASSUME RecvNothing \/ RecvError PROVE Quiet
    BY <2>3 DEF RecvNothing, RecvError, Quiet, client
  <2>4. QED
    BY <1>5, <2>1, <2>2, <2>3 DEF Receive
<1>6. CASE saveClientState \/ Notify \/ Consume
  BY <1>6 DEF saveClientState, DeleteFile, WriteFile, Notify, Consume, Quiet, client
<1>7. CASE sendPing
  <2>1. ASSUME NEW now \in Clocks, NotPingTime(now) PROVE Quiet
    BY <2>1 DEF NotPingTime, Quiet, client
  <2>2. ASSUME NEW now \in Clocks, Pinged(now) PROVE Quiet
    BY <2>2 DEF Pinged, Quiet
  <2>3. ASSUME NEW now \in Clocks, PingFailed(now) PROVE Quiet
    BY <2>3 DEF PingFailed, Quiet
  <2>4. ASSUME StopAfterPing PROVE Detach
    BY <2>4 DEF StopAfterPing, Disconnect, Detach
  <2>5. QED
    BY <1>7, <2>1, <2>2, <2>3, <2>4 DEF sendPing
<1>8. CASE PowerLoss
  BY <1>8
<1>9. ASSUME NEW r \in Requests, SendRequest(r) PROVE Sends(r)
  BY <1>9 DEF SendRequest, Sends, client
<1>10. ASSUME NEW r \in Requests, RequestGoesOn(r) PROVE GoesOn(r)
  BY <1>10 DEF RequestGoesOn, GoesOn, client
<1>11. QED
  BY <1>1, <1>2, <1>3, <1>4, <1>5, <1>6, <1>7, <1>8, <1>9, <1>10 DEF Next

-----------------------------------------------------------------------------
(* timeDiffInSec counts the seconds of a minute and at most 1 for the      *)
(* minutes and 1 for the hours, so that it never says more than 61.        *)
LEMMA DifferenceAtMost61 ==
  ASSUME NEW now \in TimeOfDay, NEW last \in TimeOfDay
  PROVE  timeDiffInSec(now, last) \in 0 .. 61
BY DEF timeDiffInSec, TimeOfDay

-----------------------------------------------------------------------------
(* Sockets.  The invariant is inductive with the types of the requests.    *)
SocketInv ==
  /\ RequestTypeOK
  /\ socketHandle \in Handles \cup {NoSocket}
  /\ SocketsOwned

LEMMA SocketInit == Init => SocketInv
BY DEF Init, RequestInit, SocketInv, RequestTypeOK, SocketsOwned, RequestsOwnSockets,
       InUse, NoSocket, Content, Empty

(* A request that ends gives up its socket, closed or not.                 *)
LEMMA FinishKeeps ==
  ASSUME SocketInv, NEW r \in Requests, NEW status \in {"ok", "error"},
         Finish(r, status), UNCHANGED <<socketHandle, faults>>,
         dataBuffer' \in Content,
         \/ UNCHANGED driver
         \/ r \in InUse /\ socketClose(handle[r])
  PROVE  SocketInv'
<1>1. /\ stage' \in [Requests -> {"new", "connect", "build", "write", "clear", "read",
                                "callback", "done"}]
      /\ by' \in [Requests -> Tasks \cup {Nobody}]
      /\ caller' \in [Requests -> Requests \cup {Nobody}]
      /\ handle' \in [Requests -> Handles \cup {NoSocket}]
      /\ result' \in [Requests -> {"ok", "error"}]
  BY DEF Finish, Goto, SocketInv, RequestTypeOK
<1>2. InUse' = InUse \ {r} /\ \A q \in InUse' : handle'[q] = handle[q]
  BY DEF Finish, Goto, SocketInv, RequestTypeOK, InUse
<1>3. CASE UNCHANGED driver
  <2>1. RequestTypeOK'
    BY <1>1, <1>3 DEF SocketInv, RequestTypeOK, driver
  <2>2. SocketsOwned'
    BY <1>2, <1>3 DEF SocketInv, SocketsOwned, RequestsOwnSockets, driver
  <2>3. QED  BY <2>1, <2>2 DEF SocketInv
<1>4. CASE r \in InUse /\ socketClose(handle[r])
  <2>1. RequestTypeOK'
    BY <1>1, <1>4 DEF SocketInv, RequestTypeOK, socketClose, Content, Empty
  <2>2. SocketsOwned'
    BY <1>2, <1>4 DEF SocketInv, SocketsOwned, RequestsOwnSockets, socketClose
  <2>3. QED  BY <2>1, <2>2 DEF SocketInv
<1>5. QED  BY <1>3, <1>4

(* A request that moves between stages with the socket it has.             *)
LEMMA MoveKeeps ==
  ASSUME SocketInv, NEW r \in Requests,
         NEW next \in {"connect", "write", "clear", "read", "done"}, Goto(r, next),
         r \in InUse \/ next \in {"connect", "done"},
         UNCHANGED <<open, closed, handle, socketHandle, faults>>,
         asked' \in [Handles -> Content], dataBuffer' \in Content,
         by' \in [Requests -> Tasks \cup {Nobody}],
         caller' \in [Requests -> Requests \cup {Nobody}],
         result' \in [Requests -> {"ok", "error"}]
  PROVE  SocketInv'
<1>1. RequestTypeOK'
  BY DEF Goto, SocketInv, RequestTypeOK
<1>2. InUse' \subseteq InUse
  BY DEF Goto, SocketInv, RequestTypeOK, InUse
<1>3. QED
  BY <1>1, <1>2 DEF SocketInv, SocketsOwned, RequestsOwnSockets

LEMMA SocketStep == SocketInv /\ [Next]_vars => SocketInv'
<1> SUFFICES ASSUME SocketInv, [Next]_vars PROVE SocketInv'
  OBVIOUS
<1> USE RequestAssumption
<1>1. CASE Quiet
  BY <1>1 DEF Quiet, reqVars, driver, requests, SocketInv, RequestTypeOK, SocketsOwned,
              RequestsOwnSockets, InUse
<1>2. CASE Attach
  <2>1. PICK h \in Handles : socketSslConnect(h) /\ socketHandle' = h
    BY <1>2 DEF Attach
  <2>2. RequestTypeOK' /\ socketHandle' \in Handles \cup {NoSocket}
    BY <1>2, <2>1 DEF Attach, SocketInv, RequestTypeOK, socketSslConnect, requests, Content, Empty
  <2>3. SocketsOwned'
    BY <1>2, <2>1 DEF Attach, SocketInv, SocketsOwned, RequestsOwnSockets, InUse,
                      socketSslConnect, requests
  <2>4. QED  BY <2>2, <2>3 DEF SocketInv
<1>3. CASE Detach
  <2>1. RequestTypeOK' /\ socketHandle' \in Handles \cup {NoSocket}
    BY <1>3 DEF Detach, SocketInv, RequestTypeOK, socketClose, requests, Content, Empty
  <2>2. \A r \in InUse : handle[r] # socketHandle
    BY DEF SocketInv, SocketsOwned, RequestsOwnSockets, RequestTypeOK, NoSocket
  <2>3. SocketsOwned'
    BY <1>3, <2>2 DEF Detach, SocketInv, SocketsOwned, RequestsOwnSockets, InUse,
                      socketClose, requests
  <2>4. QED  BY <2>1, <2>3 DEF SocketInv
<1>4. CASE PowerLoss
  <2>1. RequestTypeOK' /\ socketHandle' = NoSocket
    BY <1>4 DEF PowerLoss, Disconnect, SocketInv, RequestTypeOK, Content, Empty
  <2>2. InUse' = {}
    BY <1>4 DEF PowerLoss, SocketInv, RequestTypeOK, InUse, Active
  <2>3. QED
    BY <2>1, <2>2 DEF SocketInv, SocketsOwned, RequestsOwnSockets
<1>5. ASSUME NEW r \in Requests, Sends(r) PROVE SocketInv'
  <2>1. PICK t \in Tasks, c \in Requests \cup {Nobody} : parseSendRequest(t, r, c)
    BY <1>5 DEF Sends
  <2>2. QED
    BY <1>5, <2>1, MoveKeeps DEF Sends, parseSendRequest, driver, SocketInv, RequestTypeOK
<1>6. ASSUME NEW r \in Requests, GoesOn(r) PROVE SocketInv'
  <2>0. UNCHANGED <<socketHandle, faults>>
    BY <1>6 DEF GoesOn, RequestStep, Connected, ConnectFails, buildRequestHeaders, Written,
                WriteFails, ClearBuffer, ReadResponse, CallbackReturns, ServerCloses
  <2>1. ASSUME NEW h \in Handles, Connected(r, h) PROVE SocketInv'
    <3>1. RequestTypeOK'
      BY <2>1 DEF Connected, Goto, socketSslConnect, SocketInv, RequestTypeOK, Content, Empty
    <3>2. /\ InUse' = InUse \cup {r} /\ r \notin InUse
          /\ handle'[r] = h /\ \A q \in InUse : handle'[q] = handle[q]
      BY <2>1 DEF Connected, Goto, SocketInv, RequestTypeOK, InUse
    <3>3. SocketsOwned'
      BY <2>0, <2>1, <3>2 DEF Connected, socketSslConnect, SocketInv, SocketsOwned,
                              RequestsOwnSockets
    <3>4. QED  BY <2>0, <3>1, <3>3 DEF SocketInv
  <2>2. CASE ConnectFails(r)
    BY <2>0, <2>2, FinishKeeps DEF ConnectFails, SocketInv, RequestTypeOK
  <2>3. CASE buildRequestHeaders(r)
    <3>1. dataBuffer' \in Content
      BY <2>3 DEF buildRequestHeaders, Request, Content
    <3>2. CASE Finish(r, "error")
      BY <2>0, <2>3, <3>1, <3>2, FinishKeeps DEF buildRequestHeaders
    <3>3. CASE Goto(r, "write") /\ UNCHANGED <<by, caller, handle, result>>
      BY <2>0, <2>3, <3>1, <3>3, MoveKeeps
         DEF buildRequestHeaders, driver, SocketInv, RequestTypeOK, InUse
    <3>4. QED  BY <2>3, <3>2, <3>3 DEF buildRequestHeaders
  <2>4. CASE Written(r)
    BY <2>0, <2>4, MoveKeeps DEF Written, SocketInv, RequestTypeOK, InUse
  <2>5. CASE WriteFails(r)
    BY <2>0, <2>5, FinishKeeps DEF WriteFails, SocketInv, RequestTypeOK
  <2>6. CASE ClearBuffer(r)
    BY <2>0, <2>6, MoveKeeps
       DEF ClearBuffer, driver, SocketInv, RequestTypeOK, InUse, Content, Empty
  <2>7. CASE ReadResponse(r)
    <3>1. r \in InUse /\ handle[r] \in Handles
      BY <2>7 DEF ReadResponse, InUse, SocketInv, SocketsOwned, RequestsOwnSockets, RequestTypeOK
    <3>2. asked[handle[r]] \in Content
      BY <3>1 DEF SocketInv, RequestTypeOK
    <3>3. Response(asked[handle[r]]) \in Content /\ Empty \in Content
      BY <3>2 DEF Response, Content, Empty
    <3>4. QED
      BY <2>0, <2>7, <3>1, <3>3, FinishKeeps DEF ReadResponse
  <2>8. CASE CallbackReturns(r)
    BY <2>0, <2>8, MoveKeeps DEF CallbackReturns, driver, SocketInv, RequestTypeOK
  <2>9. CASE ServerCloses(r)
    <3>1. handle[r] \in open
      BY <2>9 DEF ServerCloses, SocketInv, SocketsOwned, RequestsOwnSockets, InUse
    <3>2. RequestTypeOK'
      BY <2>9, <3>1 DEF ServerCloses, SocketInv, RequestTypeOK, requests
    <3>3. SocketsOwned'
      BY <2>0, <2>9 DEF ServerCloses, SocketInv, SocketsOwned, RequestsOwnSockets, InUse, requests
    <3>4. QED  BY <2>0, <3>2, <3>3 DEF SocketInv
  <2>10. QED
    BY <1>6, <2>1, <2>2, <2>3, <2>4, <2>5, <2>6, <2>7, <2>8, <2>9 DEF GoesOn, RequestStep
<1>7. QED
  BY <1>1, <1>2, <1>3, <1>4, <1>5, <1>6, StepKinds

(* No two users of a socket, and no user of a socket that is not open: in  *)
(* every environment, for every number of tasks, requests and sockets, and *)
(* whatever the push callback does.                                        *)
THEOREM SocketsNeverShared == Spec => []SocketsOwned
<1>1. Init => SocketInv
  BY SocketInit
<1>2. SocketInv /\ [Next]_vars => SocketInv'
  BY SocketStep
<1>3. SocketInv => SocketsOwned
  BY DEF SocketInv
<1>4. QED
  BY <1>1, <1>2, <1>3, PTL DEF Spec

-----------------------------------------------------------------------------
(* No socket is lost.                                                      *)
LEMMA LostInit == Init => NoSocketLost
BY DEF Init, RequestInit, NoSocketLost

LEMMA LostStep == SocketInv /\ NoSocketLost /\ [Next]_vars => NoSocketLost'
<1> SUFFICES ASSUME SocketInv, NoSocketLost, [Next]_vars, faults' \cap {"unsent", "twice"} = {},
                    NEW g \in open'
             PROVE  g = socketHandle' \/ \E q \in InUse' : g = handle'[q]
  BY DEF NoSocketLost
<1> DEFINE Goal == g = socketHandle' \/ \E q \in InUse' : g = handle'[q]
<1>0. faults \cap {"unsent", "twice"} = {} =>
        \A k \in open : k = socketHandle \/ \E q \in InUse : k = handle[q]
  BY DEF NoSocketLost
<1>1. CASE Quiet
  BY <1>0, <1>1 DEF Quiet, reqVars, driver, requests, InUse
<1>2. CASE Attach
  <2>1. PICK h \in Handles : socketSslConnect(h) /\ socketHandle' = h
    BY <1>2 DEF Attach
  <2>2. faults' = faults /\ socketHandle = NoSocket /\ NoSocket \notin open
    BY <1>2, RequestAssumption DEF Attach, SocketInv, RequestTypeOK, NoSocket
  <2>3. QED
    BY <1>0, <1>2, <2>1, <2>2 DEF Attach, socketSslConnect, requests, InUse
<1>3. CASE Detach
  BY <1>0, <1>3 DEF Detach, socketClose, requests, InUse
<1>4. CASE PowerLoss
  BY <1>4 DEF PowerLoss
<1>5. ASSUME NEW r \in Requests, Sends(r) PROVE Goal
  <2>1. /\ stage[r] = "new" /\ Goto(r, "connect") /\ UNCHANGED <<open, handle, socketHandle, faults>>
    BY <1>5 DEF Sends, parseSendRequest, driver
  <2>2. InUse' = InUse
    BY <2>1 DEF Goto, InUse, SocketInv, RequestTypeOK
  <2>3. QED  BY <1>0, <2>1, <2>2
<1>6. ASSUME NEW r \in Requests, GoesOn(r) PROVE Goal
  <2>0. UNCHANGED <<socketHandle, faults>>
    BY <1>6 DEF GoesOn, RequestStep, Connected, ConnectFails, buildRequestHeaders, Written,
                WriteFails, ClearBuffer, ReadResponse, CallbackReturns, ServerCloses
  <2>1. ASSUME NEW h \in Handles, Connected(r, h) PROVE Goal
    <3>1. /\ InUse' = InUse \cup {r} /\ r \notin InUse
          /\ handle'[r] = h /\ \A q \in InUse : handle'[q] = handle[q]
      BY <2>1 DEF Connected, Goto, SocketInv, RequestTypeOK, InUse
    <3>2. QED
      BY <1>0, <2>0, <2>1, <3>1 DEF Connected, socketSslConnect
  <2>2. ASSUME NEW status, Finish(r, status), UNCHANGED driver, r \notin InUse PROVE Goal
    <3>1. InUse' = InUse /\ \A q \in InUse : handle'[q] = handle[q]
      BY <2>2 DEF Finish, Goto, SocketInv, RequestTypeOK, InUse
    <3>2. QED  BY <1>0, <2>0, <2>2, <3>1 DEF driver
  <2>3. ASSUME NEW status, Finish(r, status), socketClose(handle[r]) PROVE Goal
    <3>1. InUse' = InUse \ {r} /\ \A q \in InUse' : handle'[q] = handle[q]
      BY <2>3 DEF Finish, Goto, SocketInv, RequestTypeOK, InUse
    <3>2. QED  BY <1>0, <2>0, <2>3, <3>1 DEF socketClose
  <2>4. ASSUME NEW next \in {"write", "clear", "read", "done"}, Goto(r, next),
               r \in InUse <=> next # "done", UNCHANGED <<open, handle>>
        PROVE  Goal
    <3>1. InUse' = InUse
      BY <2>4 DEF Goto, SocketInv, RequestTypeOK, InUse
    <3>2. QED  BY <1>0, <2>0, <2>4, <3>1
  <2>5. CASE ConnectFails(r)
    BY <2>2, <2>5 DEF ConnectFails, InUse
  <2>6. CASE buildRequestHeaders(r)
    BY <2>0, <2>4, <2>6 DEF buildRequestHeaders, InUse, driver
  <2>7. CASE Written(r)
    BY <2>4, <2>7 DEF Written, InUse
  <2>8. CASE WriteFails(r)
    BY <2>0, <2>8 DEF WriteFails
  <2>9. CASE ClearBuffer(r)
    BY <2>4, <2>9 DEF ClearBuffer, InUse, driver
  <2>10. CASE ReadResponse(r)
    BY <2>3, <2>10 DEF ReadResponse
  <2>11. CASE CallbackReturns(r)
    BY <2>4, <2>11 DEF CallbackReturns, InUse, driver
  <2>12. CASE ServerCloses(r)
    BY <1>0, <2>0, <2>12 DEF ServerCloses, requests, InUse
  <2>13. QED
    BY <1>6, <2>1, <2>5, <2>6, <2>7, <2>8, <2>9, <2>10, <2>11, <2>12 DEF GoesOn, RequestStep
<1>7. QED
  BY <1>1, <1>2, <1>3, <1>4, <1>5, <1>6, StepKinds

(* As long as requests are sent and the service is not started twice, the  *)
(* device never runs out of sockets because of sockets nobody uses.        *)
THEOREM SocketsNeverLost == Spec => []NoSocketLost
<1>1. Init => SocketInv /\ NoSocketLost
  BY SocketInit, LostInit
<1>2. SocketInv /\ NoSocketLost /\ [Next]_vars => (SocketInv /\ NoSocketLost)'
  BY SocketStep, LostStep
<1>3. QED
  BY <1>1, <1>2, PTL DEF Spec

-----------------------------------------------------------------------------
(* The shared buffer.  Requests that do not overlap are a chain: of two    *)
(* that are active, one waits for a request made in its callback.  So the  *)
(* one that uses the buffer is the only one that depends on it.            *)
Waits(r) == \E p \in Active : caller[p] = r

ChainInv ==
  "overlap" \notin faults => \A r, q \in Active : r # q => Waits(r) \/ Waits(q)

CallerInv ==
  \A p \in Requests :
    /\ caller[p] \in Requests => stage[caller[p]] \in {"callback", "done"}
    /\ stage[p] = "new" => caller[p] = Nobody

Answered(r) == stage[r] = "callback" /\ result[r] = "ok" /\ \A q \in Requests : caller[q] # r

Buffered(r) ==
  /\ stage[r] = "write" => dataBuffer = Request(r)
  /\ stage[r] \in {"clear", "read"} => asked[handle[r]] = Request(r)
  /\ Answered(r) => dataBuffer \in {Response(Request(r)), Empty}

BufferInv == "overlap" \notin faults => \A r \in Requests : Buffered(r)

SharedInv == SocketInv /\ ChainInv /\ CallerInv /\ BufferInv

LEMMA SharedInit == Init => SharedInv
<1> SUFFICES ASSUME Init PROVE SharedInv
  OBVIOUS
<1>1. SocketInv
  BY SocketInit
<1>2. Active = {}
  BY DEF Init, RequestInit, Active
<1>3. QED
  BY <1>1, <1>2, RequestAssumption
     DEF Init, RequestInit, SharedInv, ChainInv, CallerInv, BufferInv, Buffered, Answered

(* What a step does to one request on its way: its callers stay as they    *)
(* are, and its stage moves on unless the callback returns.                *)
Moves(r) ==
  /\ stage[r] \notin {"new", "callback", "done"}
  /\ \E next \in {"build", "write", "clear", "read", "callback"} : Goto(r, next)
  /\ UNCHANGED <<caller, faults>>

EndsRequest(r) ==
  /\ stage[r] = "callback" /\ Running(r) /\ Goto(r, "done")
  /\ UNCHANGED <<caller, faults, dataBuffer, asked, handle>>
  /\ \A q \in Requests : q # r => result'[q] = result[q]

LEMMA GoesOnKinds ==
  ASSUME SocketInv, NEW r \in Requests, GoesOn(r)
  PROVE  Moves(r) \/ EndsRequest(r) \/ ServerCloses(r)
<1>1. ASSUME NEW h \in Handles, Connected(r, h) PROVE Moves(r)
  BY <1>1 DEF Connected, Moves
<1>2. CASE ConnectFails(r)
  BY <1>2 DEF ConnectFails, Finish, Moves
<1>3. CASE buildRequestHeaders(r)
  BY <1>3 DEF buildRequestHeaders, Finish, Moves
<1>4. CASE Written(r)
  BY <1>4 DEF Written, Moves
<1>5. CASE WriteFails(r)
  BY <1>5 DEF WriteFails, Finish, Moves
<1>6. CASE ClearBuffer(r)
  BY <1>6 DEF ClearBuffer, Moves
<1>7. CASE ReadResponse(r)
  BY <1>7 DEF ReadResponse, Finish, Moves
<1>8. CASE CallbackReturns(r)
  BY <1>8 DEF CallbackReturns, EndsRequest, driver, SocketInv, RequestTypeOK
<1>9. QED
  BY <1>1, <1>2, <1>3, <1>4, <1>5, <1>6, <1>7, <1>8 DEF GoesOn, RequestStep

LEMMA ChainStep == SharedInv /\ [Next]_vars => ChainInv' /\ CallerInv'
<1> SUFFICES ASSUME SharedInv, [Next]_vars PROVE ChainInv' /\ CallerInv'
  OBVIOUS
<1> USE RequestAssumption
<1>0. SocketInv /\ ChainInv /\ CallerInv /\ RequestTypeOK
  BY DEF SharedInv, SocketInv
<1>1. ASSUME UNCHANGED <<stage, caller, faults>> PROVE ChainInv' /\ CallerInv'
  BY <1>0, <1>1 DEF ChainInv, CallerInv, Active, Waits
<1>2. CASE Quiet \/ Attach \/ Detach
  BY <1>1, <1>2 DEF Quiet, Attach, Detach, reqVars, requests
<1>3. CASE PowerLoss
  <2>1. Active' = {}
    BY <1>3 DEF PowerLoss, Active
  <2>2. \A p \in Requests : /\ stage'[p] = "new" => stage[p] = "new"
                           /\ stage[p] \in {"callback", "done"} => stage'[p] = "done"
    BY <1>0, <1>3 DEF PowerLoss, Active, RequestTypeOK
  <2>3. QED
    BY <1>0, <1>3, <2>1, <2>2 DEF PowerLoss, ChainInv, CallerInv, RequestTypeOK
<1>4. ASSUME NEW r \in Requests, Sends(r) PROVE ChainInv' /\ CallerInv'
  <2>1. PICK t \in Tasks, c \in Requests \cup {Nobody} : parseSendRequest(t, r, c)
    BY <1>4 DEF Sends
  <2>2. /\ stage[r] = "new" /\ r \notin Active /\ Active' = Active \cup {r}
        /\ Active \subseteq Requests
        /\ caller'[r] = c /\ \A q \in Requests : q # r => caller'[q] = caller[q]
        /\ faults' = faults
        /\ \A q \in Requests : q # r => stage'[q] = stage[q]
        /\ stage'[r] = "connect"
    BY <1>0, <2>1 DEF parseSendRequest, Goto, Active, RequestTypeOK
  <2>3. CallerInv'
    BY <1>0, <2>1, <2>2 DEF CallerInv, parseSendRequest, RequestTypeOK
  <2>4. ASSUME "overlap" \notin faults', NEW a \in Active', NEW b \in Active', a # b
        PROVE  Waits(a)' \/ Waits(b)'
    <3>1. \A q \in Active : Waits(q) => Waits(q)'
      BY <2>2 DEF Waits
    <3>2. ASSUME NEW q \in Active PROVE Waits(q)'
      <4>1. c \in Requests /\ Running(c)
        BY <2>1, <2>2, <2>4, <3>2 DEF parseSendRequest, Idle
      <4>2. CASE q = c
        BY <2>2, <4>2 DEF Waits
      <4>3. CASE q # c
        BY <1>0, <2>2, <2>4, <3>1, <3>2, <4>1, <4>3 DEF ChainInv, Running, Waits
      <4>4. QED  BY <4>2, <4>3
    <3>3. QED
      BY <2>2, <2>4, <3>2
  <2>5. QED
    BY <2>3, <2>4 DEF ChainInv
<1>5. ASSUME NEW r \in Requests, GoesOn(r) PROVE ChainInv' /\ CallerInv'
  <2>1. CASE Moves(r)
    <3>1. Active' = Active /\ caller' = caller /\ faults' = faults
      BY <1>0, <2>1 DEF Moves, Goto, Active, RequestTypeOK
    <3>2. CallerInv'
      BY <1>0, <2>1, <3>1 DEF Moves, Goto, CallerInv, RequestTypeOK
    <3>3. QED
      BY <1>0, <3>1, <3>2 DEF ChainInv, Waits
  <2>2. CASE EndsRequest(r)
    <3>1. /\ Active' = Active \ {r} /\ caller' = caller /\ faults' = faults /\ r \in Active
          /\ \A q \in Active : caller[q] # r
      BY <1>0, <2>2 DEF EndsRequest, Goto, Active, RequestTypeOK, Running
    <3>2. CallerInv'
      BY <1>0, <2>2, <3>1 DEF EndsRequest, Goto, CallerInv, RequestTypeOK
    <3>3. ASSUME "overlap" \notin faults', NEW a \in Active', NEW b \in Active', a # b
          PROVE  Waits(a)' \/ Waits(b)'
      <4>1. Waits(a) /\ Waits(b)
        BY <1>0, <3>1, <3>3 DEF ChainInv, Waits
      <4>2. QED
        BY <3>1, <3>3, <4>1 DEF Waits
    <3>4. QED
      BY <3>2, <3>3 DEF ChainInv
  <2>3. CASE ServerCloses(r)
    BY <1>1, <2>3 DEF ServerCloses, requests
  <2>4. QED
    BY <1>0, <1>5, <2>1, <2>2, <2>3, GoesOnKinds
<1>6. QED
  BY <1>2, <1>3, <1>4, <1>5, StepKinds

(* While a request is on its way, every other one is over, not yet made,   *)
(* or waiting for a request made in its callback.                          *)
LEMMA Alone ==
  ASSUME SharedInv, "overlap" \notin faults, NEW r \in Requests, Moves(r),
         NEW q \in Requests, q # r
  PROVE  \/ stage[q] \in {"new", "done"}
         \/ stage[q] = "callback" /\ \E p \in Requests : caller[p] = q
<1>1. SUFFICES ASSUME q \in Active
               PROVE  stage[q] = "callback" /\ \E p \in Requests : caller[p] = q
  BY DEF Active, SharedInv, SocketInv, RequestTypeOK
<1>2. r \in Active /\ Active \subseteq Requests /\ ~ Waits(r)
  BY DEF Moves, Active, Waits, SharedInv, CallerInv
<1>3. Waits(q)
  BY <1>1, <1>2 DEF SharedInv, ChainInv
<1>4. PICK p \in Requests : caller[p] = q
  BY <1>2, <1>3 DEF Waits
<1>5. stage[q] \in {"callback", "done"}
  BY <1>4 DEF SharedInv, CallerInv
<1>6. QED
  BY <1>1, <1>4, <1>5 DEF Active

LEMMA BufferStep == SharedInv /\ [Next]_vars => BufferInv'
<1> SUFFICES ASSUME SharedInv, [Next]_vars, "overlap" \notin faults', NEW q \in Requests
             PROVE  Buffered(q)'
  BY DEF BufferInv
<1> USE RequestAssumption
<1>0. SocketInv /\ ChainInv /\ CallerInv /\ RequestTypeOK
  BY DEF SharedInv, SocketInv
<1>1. "overlap" \notin faults => Buffered(q)
  BY DEF SharedInv, BufferInv
<1>2. stage[q] \in {"clear", "read"} =>
        handle[q] \in open /\ handle[q] # socketHandle /\ handle[q] \in Handles
  BY <1>0 DEF SocketInv, SocketsOwned, RequestsOwnSockets, InUse, RequestTypeOK, NoSocket
<1>3. CASE Quiet
  BY <1>1, <1>3 DEF Quiet, reqVars, driver, requests, Buffered, Answered
<1>4. CASE Attach
  <2>1. PICK h \in Handles \ open : asked' = [asked EXCEPT ![h] = Empty]
    BY <1>4 DEF Attach, socketSslConnect
  <2>2. stage[q] \in {"clear", "read"} => asked'[handle[q]] = asked[handle[q]]
    BY <1>0, <1>2, <2>1 DEF RequestTypeOK
  <2>3. QED
    BY <1>1, <1>4, <2>2 DEF Attach, requests, Buffered, Answered
<1>5. CASE Detach
  <2>1. stage[q] \in {"clear", "read"} => asked'[handle[q]] = asked[handle[q]]
    BY <1>2, <1>5 DEF Detach, socketClose
  <2>2. QED
    BY <1>1, <1>5, <2>1 DEF Detach, requests, Buffered, Answered
<1>6. CASE PowerLoss
  <2>1. stage'[q] \in {"new", "done"}
    BY <1>6 DEF PowerLoss, Active
  <2>2. QED  BY <2>1 DEF Buffered, Answered
<1>7. ASSUME NEW r \in Requests, Sends(r) PROVE Buffered(q)'
  <2>1. PICK t \in Tasks, c \in Requests \cup {Nobody} : parseSendRequest(t, r, c)
    BY <1>7 DEF Sends
  <2>2. /\ stage[r] = "new" /\ caller[r] = Nobody
        /\ stage' = [stage EXCEPT ![r] = "connect"] /\ caller' = [caller EXCEPT ![r] = c]
        /\ UNCHANGED <<asked, dataBuffer, handle, result, faults>>
    BY <1>0, <2>1 DEF parseSendRequest, Goto, driver, CallerInv
  <2>3. Answered(q)' => Answered(q)
    BY <1>0, <2>2 DEF Answered, RequestTypeOK
  <2>4. QED
    BY <1>0, <1>1, <2>2, <2>3 DEF Buffered, RequestTypeOK
<1>8. ASSUME NEW r \in Requests, GoesOn(r) PROVE Buffered(q)'
  <2>1. CASE Moves(r)
    <3>0. faults' = faults /\ caller' = caller
      BY <1>0, <2>1 DEF Moves, Goto, RequestTypeOK
    <3>1. CASE q # r
      <4>1. stage'[q] = stage[q]
        BY <1>0, <2>1, <3>1 DEF Moves, Goto, RequestTypeOK
      <4>2. QED
        BY <2>1, <3>0, <3>1, <4>1, Alone DEF Buffered, Answered
    <3>2. CASE q = r
      <4>1. ASSUME NEW h \in Handles, Connected(r, h) PROVE Buffered(r)'
        BY <1>0, <4>1 DEF Connected, Goto, Buffered, Answered, RequestTypeOK
      <4>2. ASSUME Finish(r, "error") PROVE Buffered(r)'
        BY <1>0, <4>2 DEF Finish, Goto, Buffered, Answered, RequestTypeOK
      <4>3. CASE buildRequestHeaders(r)
        <5>1. CASE Goto(r, "write") /\ dataBuffer' = Request(r)
          BY <1>0, <3>2, <5>1 DEF Goto, Buffered, Answered, RequestTypeOK
        <5>2. QED
          BY <3>2, <4>2, <4>3, <5>1 DEF buildRequestHeaders
      <4>4. CASE Written(r)
        <5>1. dataBuffer = Request(r) /\ handle[r] \in Handles
          BY <1>0, <1>1, <3>0, <3>2, <4>4
             DEF Written, Buffered, SocketInv, SocketsOwned, RequestsOwnSockets, InUse,
                 RequestTypeOK
        <5>2. QED
          BY <1>0, <3>2, <4>4, <5>1 DEF Written, Goto, Buffered, Answered, RequestTypeOK
      <4>5. CASE ClearBuffer(r)
        BY <1>0, <1>1, <3>0, <3>2, <4>5
           DEF ClearBuffer, Goto, driver, Buffered, Answered, RequestTypeOK
      <4>6. CASE ReadResponse(r)
        <5>1. asked[handle[r]] = Request(r)
          BY <1>1, <3>0, <3>2, <4>6 DEF ReadResponse, Buffered
        <5>2. dataBuffer' \in {Response(Request(r)), Empty} /\ stage'[r] = "callback"
          BY <1>0, <4>6, <5>1 DEF ReadResponse, Finish, Goto, RequestTypeOK
        <5>3. QED
          BY <3>2, <5>2 DEF Buffered
      <4>7. CASE ConnectFails(r) \/ WriteFails(r)
        BY <3>2, <4>2, <4>7 DEF ConnectFails, WriteFails
      <4>8. ~ CallbackReturns(r)
        BY <2>1 DEF Moves, CallbackReturns
      <4>9. CASE ServerCloses(r)
        BY <1>1, <3>2, <4>9 DEF ServerCloses, requests, Buffered, Answered
      <4>10. QED
        BY <1>8, <3>2, <4>1, <4>3, <4>4, <4>5, <4>6, <4>7, <4>8, <4>9 DEF GoesOn, RequestStep
    <3>3. QED  BY <3>1, <3>2
  <2>2. CASE EndsRequest(r)
    <3>1. CASE q = r
      BY <1>0, <2>2, <3>1 DEF EndsRequest, Goto, Buffered, Answered, RequestTypeOK
    <3>2. CASE q # r
      <4>1. stage'[q] = stage[q] /\ result'[q] = result[q]
        BY <1>0, <2>2, <3>2 DEF EndsRequest, Goto, RequestTypeOK
      <4>2. QED
        BY <1>1, <2>2, <4>1 DEF EndsRequest, Buffered, Answered
    <3>3. QED  BY <3>1, <3>2
  <2>3. CASE ServerCloses(r)
    BY <1>1, <2>3 DEF ServerCloses, requests, Buffered, Answered
  <2>4. QED
    BY <1>0, <1>8, <2>1, <2>2, <2>3, GoesOnKinds
<1>9. QED
  BY <1>3, <1>4, <1>5, <1>6, <1>7, <1>8, StepKinds

(* Requests that do not overlap do not mix up their answers: a callback    *)
(* that is given error 0 finds the response to its own request, or none,   *)
(* in the buffer all requests share, at every depth of requests made in    *)
(* callbacks.                                                              *)
THEOREM ResponsesNotMixedUp == Spec => []OwnResponse
<1>1. Init => SharedInv
  BY SharedInit
<1>2. SharedInv /\ [Next]_vars => SharedInv'
  <2>1. SharedInv => SocketInv
    BY DEF SharedInv
  <2>2. QED
    BY <2>1, SocketStep, ChainStep, BufferStep DEF SharedInv
<1>3. SharedInv => OwnResponse
  BY DEF SharedInv, BufferInv, Buffered, Answered, OwnResponse
<1>4. QED
  BY <1>1, <1>2, <1>3, PTL DEF Spec

-----------------------------------------------------------------------------
(* The keep-alive.                                                         *)
ClockSet == lastDateTime \in TimeOfDay

LEMMA ClockStep == ClockSet /\ [Next]_vars => ClockSet'
<1> SUFFICES ASSUME ClockSet, [Next]_vars, lastDateTime' # lastDateTime
             PROVE  lastDateTime' \in TimeOfDay
  BY DEF ClockSet
<1>1. (\E now \in Clocks : Pinged(now)) \/ PowerLoss
  <2>1. ~ Application
    BY DEF Application, parseSetPushCallback, parseStartPushService, StartConnected,
           StartFailed, parseStopPushService, client
  <2>2. ~ Receive
    BY DEF Receive, RecvBytes, RecvAgain, RecvNothing, RecvError, client
  <2>3. ~ (PushServer \/ Process \/ saveClientState \/ Notify \/ Consume)
    BY DEF PushServer, Publish, Transmit, PeerClose, PeerFail, Process, saveClientState,
           DeleteFile, WriteFile, Notify, Consume, client
  <2>4. \A r \in Requests : ~ (SendRequest(r) \/ RequestGoesOn(r))
    BY DEF SendRequest, RequestGoesOn, client
  <2>5. ~ StopAfterPing /\ \A now \in Clocks : ~ NotPingTime(now) /\ ~ PingFailed(now)
    BY DEF StopAfterPing, NotPingTime, PingFailed, client
  <2>6. QED
    BY <2>1, <2>2, <2>3, <2>4, <2>5 DEF Next, sendPing, vars, client
<1>2. QED
  <2>1. Clocks \subseteq TimeOfDay
    BY RtosPushAssumption
  <2>2. Midnight \in TimeOfDay
    BY DEF Midnight, TimeOfDay
  <2>3. QED
    BY <1>1, <2>1, <2>2 DEF Pinged, PowerLoss

(* No ping is ever due with a PUSH_KEEP_ALIVE of 61 or more, and the one   *)
(* in parse_impl.h is 600000: at no time of day does isPingTime say so,    *)
(* and the code of sendPing that counts failures, tells the callback and   *)
(* closes the socket is never reached.                                     *)
THEOREM PingNeverDue ==
  ASSUME PUSH_KEEP_ALIVE >= 61
  PROVE  Spec => [](\A now \in Clocks : ~ isPingTime(now))
<1>1. Init => ClockSet
  BY DEF Init, Midnight, TimeOfDay, ClockSet
<1>2. ClockSet => \A now \in Clocks : ~ isPingTime(now)
  <2> SUFFICES ASSUME lastDateTime \in TimeOfDay, NEW now \in Clocks PROVE ~ isPingTime(now)
    BY DEF ClockSet
  <2>1. timeDiffInSec(now, lastDateTime) \in 0 .. 61
    BY DifferenceAtMost61, RtosPushAssumption
  <2>2. PUSH_KEEP_ALIVE \in Nat
    BY RtosPushAssumption
  <2>3. QED
    BY <2>1, <2>2 DEF isPingTime
<1>3. QED
  BY <1>1, <1>2, ClockStep, PTL DEF Spec

-----------------------------------------------------------------------------
(* The receive buffer.  The state of the service in four parts, and with   *)
(* the buffer that the read loop is only entered with a size that is not   *)
(* negative: after a message whose separator had not arrived it is -1.     *)
ServerOK ==
  /\ published \in 0 .. Len(Push) /\ sent \in 0 .. Len(Push)
  /\ wire \in Seq(Bytes) /\ link \in {"none", "up", "closed", "broken"}

ClientOK ==
  /\ callback \in BOOLEAN
  /\ nFailedPing \in 0 .. MaxFailedPings + 1
  /\ lastPushTime \in Bytes \cup {None} /\ stored \in Bytes \cup {None, Torn}

OutputOK == delivered \in Seq(Seq(Bytes)) /\ told \in BOOLEAN

BufferOK ==
  /\ pushDataBuffer \in Seq(Bytes)
  /\ pushDataBufferUsed \in -1 .. RECEIVE_BUFFER_SIZE
  /\ pc \in {"idle", "read", "delete", "write", "call", "notify", "ping", "pingcb"}
  /\ found \in [start : Int, length : Int]
  /\ BufferConsistent
  /\ pc = "read" => pushDataBufferUsed >= 0

ServiceInv == ServerOK /\ ClientOK /\ OutputOK /\ BufferOK

(* The time of a message is a string or missing.                           *)
LEMMA TimeOfType ==
  ASSUME NEW text \in Seq(Bytes)
  PROVE  TimeOf(text) \in Bytes \cup {None}
<1> DEFINE S == {q \in 0 .. Len(text) - 1 :
                   /\ \E i \in 1 .. Len(Times) : text[q + 1] = Times[i]
                   /\ Lexed(text, 0, Len(text))[q].level <= 1}
<1>1. TimeOf(text) = IF First(S) = -1 THEN None ELSE text[First(S) + 1]
  BY DEF TimeOf
<1>2. S \subseteq 0 .. Len(text) - 1
  OBVIOUS
<1>. HIDE DEF S
<1>3. CASE First(S) # -1
  <2>1. First(S) \in 0 .. Len(text) - 1
    BY <1>2, <1>3, FirstRange
  <2>2. text[First(S) + 1] \in Bytes
    BY <2>1, ElementOfSeq
  <2> QED BY <1>1, <1>3, <2>2
<1> QED BY <1>1, <1>3

LEMMA SizesAreNat ==
  RECEIVE_BUFFER_SIZE \in Nat \ {0} /\ MaxFailedPings \in Nat
BY RtosPushAssumption

LEMMA PushLen == Len(Push) \in Nat
<1>1. Push \in Seq(Seq(Bytes))
  BY RtosPushAssumption
<1> QED BY <1>1, LenProperties

LEMMA IndexRange ==
  ASSUME NEW time
  PROVE  Index(time) \in 0 .. Len(Push)
<1>1. Len(Times) = Len(Push)
  BY RtosPushAssumption
<1> QED BY <1>1, PushLen DEF Index

LEMMA HeartbeatType == Heartbeat \in Seq(Bytes)
<1>1. "{" \in Bytes /\ "}" \in Bytes
  BY RtosPushAssumption
<1> QED BY <1>1, PairIsSeq DEF Heartbeat

(* Bytes of a message and its separator behind the bytes in flight.        *)
LEMMA WriteType ==
  ASSUME wire \in Seq(Bytes), NEW text \in Seq(Bytes)
  PROVE  wire \o Append(text, Separator) \in Seq(Bytes)
<1>1. Append(text, Separator) \in Seq(Bytes)
  BY RtosPushAssumption, AppendProperties
<1> QED BY <1>1, ConcatProperties

LEMMA ServiceInit == Init => ServiceInv
<1> SUFFICES ASSUME Init PROVE ServiceInv
  OBVIOUS
<1>. USE DEF Init
<1>1. ServerOK
  BY PushLen DEF ServerOK
<1>2. ClientOK
  <2>1. nFailedPing \in 0 .. MaxFailedPings + 1
    BY SizesAreNat
  <2> QED BY <2>1 DEF ClientOK
<1>3. OutputOK
  <2>1. delivered \in Seq(Seq(Bytes))
    BY EmptySeq
  <2>2. told \in BOOLEAN
    OBVIOUS
  <2> QED BY <2>1, <2>2 DEF OutputOK
<1>4. BufferOK
  <2>1. pushDataBufferUsed \in -1 .. RECEIVE_BUFFER_SIZE /\ pushDataBufferUsed < RECEIVE_BUFFER_SIZE
    BY SizesAreNat
  <2>2. BufferConsistent
    BY <2>1 DEF BufferConsistent, Holding
  <2> QED BY <2>1, <2>2 DEF BufferOK, Nothing
<1> QED BY <1>1, <1>2, <1>3, <1>4 DEF ServiceInv

(* The hello is written over the bytes the buffer holds.                   *)
LEMMA HelloType ==
  ASSUME pushDataBuffer \in Seq(Bytes)
  PROVE  WithHello \in Seq(Bytes) /\ Len(WithHello) = Len(pushDataBuffer)
<1>1. Hello \in Seq(Bytes) /\ NUL \in Bytes
  BY RtosPushAssumption
<1>2. Len(Hello) \in Nat /\ Len(pushDataBuffer) \in Nat
  BY <1>1, LenProperties
<1>3. \A p \in 1 .. Len(Hello) : Hello[p] \in Bytes
  BY <1>1, ElementOfSeq
<1>4. \A p \in 1 .. Len(pushDataBuffer) : pushDataBuffer[p] \in Bytes
  BY ElementOfSeq
<1>5. \A p \in 1 .. Len(pushDataBuffer) :
        (IF p <= Len(Hello) THEN Hello[p]
         ELSE IF p = Len(Hello) + 1 THEN NUL ELSE pushDataBuffer[p]) \in Bytes
  BY <1>1, <1>2, <1>3, <1>4
<1> QED BY <1>2, <1>5, IsASeq DEF WithHello

(* A step that keeps the length of what the buffer holds.                  *)
LEMMA SameLength ==
  ASSUME BufferOK, pushDataBuffer' \in Seq(Bytes), Len(pushDataBuffer') = Len(pushDataBuffer),
         UNCHANGED <<pushDataBufferUsed, pc, found>>
  PROVE  BufferOK'
<1>1. pushDataBuffer = <<>> => pushDataBuffer' = <<>>
  BY EmptySeq
<1> QED BY <1>1 DEF BufferOK, BufferConsistent, Holding

(* A step of the push task that leaves the buffer and a message alone.     *)
LEMMA SameBuffer ==
  ASSUME BufferOK, UNCHANGED <<pushDataBuffer, pushDataBufferUsed, found>>,
         pc' \in {"idle", "ping", "pingcb"} \/ pc' = pc
  PROVE  BufferOK'
BY DEF BufferOK, BufferConsistent, Holding

(* A step of the push task with a message in hand.                         *)
LEMMA SameMessage ==
  ASSUME BufferOK, UNCHANGED <<pushDataBuffer, pushDataBufferUsed, found>>,
         Holding, pc' \in {"write", "call", "notify"}
  PROVE  BufferOK'
BY DEF BufferOK, BufferConsistent, Holding

(* Every step keeps the four parts: first the ones that leave the push     *)
(* task's own state alone.                                                 *)
LEMMA RequestsKeepService ==
  ASSUME ServiceInv, UNCHANGED <<server, client, receive, output>>
  PROVE  ServiceInv'
<1>. USE DEF server, client, receive, output
<1>1. ServerOK' /\ ClientOK' /\ OutputOK'
  BY DEF ServiceInv, ServerOK, ClientOK, OutputOK
<1>2. BufferOK'
  BY SameBuffer DEF ServiceInv
<1> QED BY <1>1, <1>2 DEF ServiceInv

LEMMA ServerStep ==
  ASSUME ServiceInv, PushServer
  PROVE  ServiceInv'
<1>. USE DEF server, client, receive, output
<1>1. UNCHANGED <<client, receive, output>>
  BY DEF PushServer, Publish, Transmit, PeerClose, PeerFail
<1>2. ClientOK' /\ OutputOK'
  BY <1>1 DEF ServiceInv, ClientOK, OutputOK
<1>3. BufferOK'
  BY <1>1, SameBuffer DEF ServiceInv
<1>4. ServerOK'
  <2>1. CASE Publish
    BY <2>1, PushLen DEF ServiceInv, ServerOK, Publish
  <2>2. CASE Transmit
    <3>1. sent + 1 \in 1 .. Len(Push)
      BY <2>2, PushLen DEF ServiceInv, ServerOK, Transmit
    <3>2. Push \in Seq(Seq(Bytes))
      BY RtosPushAssumption
    <3>3. Push[sent + 1] \in Seq(Bytes)
      BY <3>1, <3>2, ElementOfSeq
    <3>4. wire' \in Seq(Bytes)
      BY <2>2, <3>3, WriteType DEF ServiceInv, ServerOK, Transmit
    <3> QED BY <2>2, <3>1, <3>4, PushLen DEF ServiceInv, ServerOK, Transmit
  <2>3. CASE PeerClose
    BY <2>3 DEF ServiceInv, ServerOK, PeerClose
  <2>4. CASE PeerFail
    BY <2>4 DEF ServiceInv, ServerOK, PeerFail
  <2> QED BY <2>1, <2>2, <2>3, <2>4 DEF PushServer
<1> QED BY <1>2, <1>3, <1>4 DEF ServiceInv

LEMMA ApplicationStep ==
  ASSUME ServiceInv, Application
  PROVE  ServiceInv'
<1>. USE DEF server, client, receive, output
<1>0. ServerOK /\ ClientOK /\ OutputOK /\ BufferOK
  BY DEF ServiceInv
<1>1. ASSUME NEW set \in BOOLEAN, parseSetPushCallback(set)
      PROVE  ServiceInv'
  <2>1. ServerOK' /\ ClientOK' /\ OutputOK'
    BY <1>0, <1>1 DEF parseSetPushCallback, ServerOK, ClientOK, OutputOK
  <2>2. BufferOK'
    BY <1>0, <1>1, SameBuffer DEF parseSetPushCallback
  <2> QED BY <2>1, <2>2 DEF ServiceInv
<1>2. pushDataBuffer \in Seq(Bytes) /\ WithHello \in Seq(Bytes)
      /\ Len(WithHello) = Len(pushDataBuffer)
  BY <1>0, HelloType DEF BufferOK
<1>3. CASE StartConnected
  <2>1. sent' \in 0 .. Len(Push)
    BY <1>3, IndexRange DEF StartConnected, ResumeAfter
  <2>2. ServerOK'
    <3>1. wire' = <<>> /\ link' = "up" /\ published' = published
      BY <1>3 DEF StartConnected
    <3> QED BY <1>0, <2>1, <3>1, EmptySeq DEF ServerOK
  <2>3. ClientOK'
    BY <1>0, <1>3 DEF StartConnected, ClientOK
  <2>4. OutputOK'
    BY <1>0, <1>3 DEF StartConnected, OutputOK
  <2>5. BufferOK'
    BY <1>0, <1>2, <1>3, SameLength DEF StartConnected
  <2> QED BY <2>2, <2>3, <2>4, <2>5 DEF ServiceInv
<1>4. CASE StartFailed
  <2>1. ServerOK' /\ ClientOK'
    BY <1>0, <1>4 DEF StartFailed, ServerOK, ClientOK
  <2>2. OutputOK'
    <3>1. told' \in BOOLEAN
      BY <1>0, <1>4 DEF StartFailed, OutputOK, ClientOK
    <3> QED BY <1>0, <1>4, <3>1 DEF StartFailed, OutputOK
  <2>3. BufferOK'
    BY <1>0, <1>2, <1>4, SameLength DEF StartFailed
  <2> QED BY <2>1, <2>2, <2>3 DEF ServiceInv
<1>5. CASE parseStopPushService
  <2>1. ServerOK'
    BY <1>0, <1>5, PushLen, EmptySeq DEF parseStopPushService, Disconnect, ServerOK
  <2>2. callback' \in BOOLEAN
    BY <1>5 DEF parseStopPushService
  <2>3. ClientOK'
    BY <1>0, <1>5, <2>2, SizesAreNat DEF parseStopPushService, ClientOK
  <2>4. OutputOK'
    BY <1>0, <1>5 DEF parseStopPushService, OutputOK
  <2>5. BufferOK'
    BY <1>0, <1>5, SameBuffer DEF parseStopPushService
  <2> QED BY <2>1, <2>3, <2>4, <2>5 DEF ServiceInv
<1> QED BY <1>1, <1>3, <1>4, <1>5 DEF Application, parseStartPushService

LEMMA ProcessStep ==
  ASSUME ServiceInv, Process
  PROVE  ServiceInv'
<1>. USE DEF server, client, receive, output
<1>1. ServerOK' /\ ClientOK' /\ OutputOK'
  BY DEF Process, ServiceInv, ServerOK, ClientOK, OutputOK
<1>2. BufferOK'
  BY DEF Process, RoomInBuffer, ServiceInv, BufferOK, BufferConsistent, Holding
<1> QED BY <1>1, <1>2 DEF ServiceInv

(* The read loop ends without a message: never with a full buffer.         *)
LEMMA NoMessageKeeps ==
  ASSUME BufferOK, NoMessage
  PROVE  BufferOK'
<1>1. pushDataBufferUsed # RECEIVE_BUFFER_SIZE
  BY SizesAreNat DEF BufferOK, BufferConsistent
<1>2. UNCHANGED <<pushDataBuffer, pushDataBufferUsed, found>> /\ pc' = "ping"
  BY <1>1 DEF NoMessage
<1> QED BY <1>2, SameBuffer

(* The bytes kept and a chunk behind them, with one byte left for a NUL.   *)
LEMMA ChunkFits ==
  ASSUME ServiceInv, pc = "read", NEW n \in 1 .. Len(wire), n <= Room
  PROVE  LET bytes == pushDataBuffer \o SubSeq(wire, 1, n)
         IN  /\ bytes \in Seq(Bytes)
             /\ Len(bytes) = pushDataBufferUsed + n
             /\ Len(bytes) \in Nat /\ Len(bytes) < RECEIVE_BUFFER_SIZE
             /\ SubSeq(wire, n + 1, Len(wire)) \in Seq(Bytes)
<1>1. /\ wire \in Seq(Bytes) /\ pushDataBuffer \in Seq(Bytes)
      /\ pushDataBufferUsed = Len(pushDataBuffer)
  BY DEF ServiceInv, ServerOK, BufferOK, BufferConsistent
<1>2. Len(wire) \in Nat /\ Len(pushDataBuffer) \in Nat
  BY <1>1, LenProperties
<1>3. SubSeq(wire, 1, n) \in Seq(Bytes) /\ Len(SubSeq(wire, 1, n)) = n
  BY <1>1, <1>2, PartOfSeq
<1>4. SubSeq(wire, n + 1, Len(wire)) \in Seq(Bytes)
  BY <1>1, <1>2, PartOfSeq
<1> QED BY <1>1, <1>2, <1>3, <1>4, ConcatProperties, SizesAreNat DEF Room

LEMMA RecvBytesStep ==
  ASSUME ServiceInv, NEW n \in 1 .. Len(wire), RecvBytes(n)
  PROVE  ServiceInv'
<1>. USE DEF server, client, receive, output
<1>0. ServerOK /\ ClientOK /\ OutputOK /\ BufferOK /\ pc = "read" /\ n <= Room
  BY DEF ServiceInv, RecvBytes
<1> DEFINE bytes == pushDataBuffer \o SubSeq(wire, 1, n)
<1>1. /\ bytes \in Seq(Bytes)
      /\ Len(bytes) = pushDataBufferUsed + n
      /\ Len(bytes) \in Nat /\ Len(bytes) < RECEIVE_BUFFER_SIZE
      /\ SubSeq(wire, n + 1, Len(wire)) \in Seq(Bytes)
  BY <1>0, ChunkFits
<1>2. /\ pushDataBuffer' = bytes /\ pushDataBufferUsed' = Len(bytes)
      /\ wire' \in Seq(Bytes)
  BY <1>1 DEF RecvBytes
<1>. HIDE DEF bytes
<1>3. ServerOK'
  BY <1>0, <1>2 DEF RecvBytes, ServerOK
<1> DEFINE json == getPushJson(bytes, Len(bytes))
           text == SubSeq(bytes, json.start + 1, json.start + json.length)
<1>4. /\ json \in [start : Int, length : Int]
      /\ json.length = -1 \/ (/\ json.start >= 0
                              /\ json.length > 0
                              /\ json.start + json.length <= Len(bytes))
  BY <1>1, PushJsonRange
<1>5. \/ json.length = -1 /\ UNCHANGED <<pc, found, lastPushTime>>
      \/ json.length > 0 /\ found' = json /\ Take(text)
  BY <1>2 DEF RecvBytes
<1>6. UNCHANGED <<callback, nFailedPing, stored, delivered, told>>
  BY DEF RecvBytes
<1>7. CASE json.length = -1
  <2>. HIDE DEF json, text
  <2>1. UNCHANGED <<pc, found, lastPushTime>>
    BY <1>5, <1>7
  <2>2. ClientOK' /\ OutputOK'
    BY <1>0, <1>6, <2>1 DEF ClientOK, OutputOK
  <2>3. BufferOK'
    BY <1>0, <1>1, <1>2, <2>1, SizesAreNat DEF BufferOK, BufferConsistent, Holding
  <2> QED BY <1>3, <2>2, <2>3 DEF ServiceInv
<1>8. CASE json.length > 0
  <2>1. text \in Seq(Bytes)
    <3>. HIDE DEF json
    <3> QED BY <1>1, <1>4, <1>8, PartOfSeq
  <2>2. TimeOf(text) \in Bytes \cup {None}
    BY <2>1, TimeOfType
  <2>. HIDE DEF json, text
  <2>3. found' = json /\ pc' \in {"delete", "call"} /\ lastPushTime' \in {lastPushTime, TimeOf(text)}
    BY <1>5, <1>8 DEF Take
  <2>4. ClientOK'
    BY <1>0, <1>6, <2>2, <2>3 DEF ClientOK
  <2>5. OutputOK'
    BY <1>0, <1>6 DEF OutputOK
  <2>6. BufferOK'
    BY <1>1, <1>2, <1>4, <1>8, <2>3, SizesAreNat DEF BufferOK, BufferConsistent, Holding
  <2> QED BY <1>3, <2>4, <2>5, <2>6 DEF ServiceInv
<1> QED BY <1>4, <1>7, <1>8

LEMMA ReceiveStep ==
  ASSUME ServiceInv, Receive
  PROVE  ServiceInv'
<1>. USE DEF server, client, receive, output
<1>1. ASSUME NEW n \in 1 .. Len(wire), RecvAgain(n) PROVE ServiceInv'
  <2>1. wire \in Seq(Bytes) /\ Len(wire) \in Nat
    BY LenProperties DEF ServiceInv, ServerOK
  <2>2. wire' \in Seq(Bytes)
    BY <1>1, <2>1, PartOfSeq DEF RecvAgain
  <2>3. ServerOK' /\ ClientOK' /\ OutputOK'
    BY <1>1, <2>2 DEF RecvAgain, ServiceInv, ServerOK, ClientOK, OutputOK
  <2>4. BufferOK'
    BY <1>1, NoMessageKeeps DEF RecvAgain, ServiceInv
  <2> QED BY <2>3, <2>4 DEF ServiceInv
<1>2. CASE RecvNothing \/ RecvError
  <2>1. ServerOK' /\ ClientOK' /\ OutputOK'
    BY <1>2 DEF RecvNothing, RecvError, ServiceInv, ServerOK, ClientOK, OutputOK
  <2>2. BufferOK'
    BY <1>2, NoMessageKeeps DEF RecvNothing, RecvError, ServiceInv
  <2> QED BY <2>1, <2>2 DEF ServiceInv
<1> QED BY <1>1, <1>2, RecvBytesStep DEF Receive

(* The save and the callback leave the buffer alone.                       *)
LEMMA SaveStep ==
  ASSUME ServiceInv, saveClientState
  PROVE  ServiceInv'
<1>. USE DEF server, client, receive, output
<1>1. ServerOK' /\ OutputOK'
  BY DEF saveClientState, DeleteFile, WriteFile, ServiceInv, ServerOK, OutputOK
<1>2. ClientOK'
  BY DEF saveClientState, DeleteFile, WriteFile, ServiceInv, ClientOK
<1>3. BufferOK'
  BY SameMessage DEF saveClientState, DeleteFile, WriteFile, Holding, ServiceInv
<1> QED BY <1>1, <1>2, <1>3 DEF ServiceInv

LEMMA NotifyStep ==
  ASSUME ServiceInv, Notify
  PROVE  ServiceInv'
<1>. USE DEF server, client, receive, output
<1>1. ServerOK' /\ ClientOK'
  BY DEF Notify, ServiceInv, ServerOK, ClientOK
<1>2. BufferOK'
  BY SameMessage DEF Notify, Holding, ServiceInv
<1>3. OutputOK'
  <2>1. Message(found) \in Seq(Bytes)
    <3>1. /\ pushDataBuffer \in Seq(Bytes) /\ pushDataBufferUsed = Len(pushDataBuffer)
          /\ found.start \in Nat /\ found.length \in Nat
          /\ found.start + found.length <= pushDataBufferUsed
      BY LenProperties DEF Notify, Holding, ServiceInv, BufferOK, BufferConsistent
    <3> QED BY <3>1, PartOfSeq DEF Message
  <2>2. delivered' = delivered \/ delivered' = Append(delivered, Message(found))
    BY DEF Notify
  <2>3. delivered \in Seq(Seq(Bytes)) /\ told \in BOOLEAN /\ told' = told
    BY DEF ServiceInv, OutputOK, Notify
  <2>4. delivered' \in Seq(Seq(Bytes))
    <3>1. Append(delivered, Message(found)) \in Seq(Seq(Bytes))
      BY <2>1, <2>3, AppendProperties, Zenon
    <3> QED BY <2>2, <2>3, <3>1, Zenon
  <2> QED BY <2>3, <2>4 DEF OutputOK
<1> QED BY <1>1, <1>2, <1>3 DEF ServiceInv

(* Consume takes length + 1 bytes off a buffer that holds at least start + *)
(* length, whatever the callback did to the connection.                    *)
LEMMA ConsumeStep ==
  ASSUME ServiceInv, Consume
  PROVE  ServiceInv'
<1>. USE DEF server, client, receive, output
<1>1. ServerOK' /\ ClientOK' /\ OutputOK'
  BY DEF Consume, ServiceInv, ServerOK, ClientOK, OutputOK
<1>2. /\ pushDataBuffer \in Seq(Bytes) /\ Len(pushDataBuffer) \in Nat
      /\ pushDataBufferUsed = Len(pushDataBuffer)
      /\ pushDataBufferUsed < RECEIVE_BUFFER_SIZE
      /\ found.start \in Nat /\ found.length \in Nat \ {0}
      /\ found.start + found.length <= pushDataBufferUsed
  BY LenProperties DEF Consume, Holding, ServiceInv, BufferOK, BufferConsistent
<1>3. Terminated(found) \in Seq(Bytes) /\ Len(Terminated(found)) = pushDataBufferUsed
  <2>1. \A p \in 1 .. Len(pushDataBuffer) : pushDataBuffer[p] \in Bytes
    BY <1>2, ElementOfSeq
  <2>2. NUL \in Bytes
    BY RtosPushAssumption
  <2>3. \A p \in 1 .. Len(pushDataBuffer) :
          (IF p = found.start + found.length + 1 THEN NUL ELSE pushDataBuffer[p]) \in Bytes
    BY <2>1, <2>2
  <2> QED BY <1>2, <2>3, IsASeq DEF Terminated
<1> DEFINE left == pushDataBufferUsed - (found.length + 1)
<1>4. /\ pc' = "idle" /\ found' = Nothing /\ pushDataBufferUsed' = left
      /\ pushDataBuffer' = IF left > 0
                           THEN SubSeq(Terminated(found), found.length + 2, pushDataBufferUsed)
                           ELSE <<>>
  BY DEF Left, Consume
<1>5. left \in -1 .. RECEIVE_BUFFER_SIZE /\ left < RECEIVE_BUFFER_SIZE
  BY <1>2, SizesAreNat
<1>6. pushDataBuffer' \in Seq(Bytes) /\ (left > 0 => Len(pushDataBuffer') = left)
  BY <1>2, <1>3, <1>4, PartOfSeq
<1>7. left <= 0 => pushDataBuffer' = <<>> /\ left \in {-1, 0}
  BY <1>4, <1>5
<1>8. BufferOK'
  <2>. HIDE DEF left
  <2>1. BufferConsistent'
    BY <1>4, <1>5, <1>6, <1>7 DEF BufferConsistent, Holding
  <2> QED BY <1>4, <1>5, <1>6, <2>1 DEF BufferOK, Nothing
<1> QED BY <1>1, <1>8 DEF ServiceInv

LEMMA PingStep ==
  ASSUME ServiceInv, sendPing
  PROVE  ServiceInv'
<1>. USE DEF server, client, receive, output
<1>0. ServerOK /\ ClientOK /\ OutputOK /\ BufferOK
  BY DEF ServiceInv
<1>1. ASSUME NEW now \in Clocks, NotPingTime(now) PROVE ServiceInv'
  <2>1. ServerOK' /\ ClientOK' /\ OutputOK'
    BY <1>0, <1>1 DEF NotPingTime, ServerOK, ClientOK, OutputOK
  <2>2. BufferOK'
    BY <1>0, <1>1, SameBuffer DEF NotPingTime
  <2> QED BY <2>1, <2>2 DEF ServiceInv
<1>2. ASSUME NEW now \in Clocks, Pinged(now) PROVE ServiceInv'
  <2>1. wire' \in Seq(Bytes)
    BY <1>0, <1>2, HeartbeatType, WriteType DEF Pinged, ServerOK
  <2>2. ServerOK'
    BY <1>0, <1>2, <2>1 DEF Pinged, ServerOK
  <2>3. ClientOK'
    BY <1>0, <1>2, SizesAreNat DEF Pinged, ClientOK
  <2>4. OutputOK'
    BY <1>0, <1>2 DEF Pinged, OutputOK
  <2>5. BufferOK'
    BY <1>0, <1>2, SameBuffer DEF Pinged
  <2> QED BY <2>2, <2>3, <2>4, <2>5 DEF ServiceInv
<1>3. ASSUME NEW now \in Clocks, PingFailed(now) PROVE ServiceInv'
  <2>1. ServerOK'
    BY <1>0, <1>3 DEF PingFailed, ServerOK
  <2>2. ClientOK'
    BY <1>0, <1>3, SizesAreNat DEF PingFailed, ClientOK
  <2>3. told' \in BOOLEAN
    BY <1>0, <1>3 DEF PingFailed, OutputOK, ClientOK
  <2>4. OutputOK'
    BY <1>0, <1>3, <2>3 DEF PingFailed, OutputOK
  <2>5. BufferOK'
    BY <1>0, <1>3, SameBuffer DEF PingFailed
  <2> QED BY <2>1, <2>2, <2>4, <2>5 DEF ServiceInv
<1>4. CASE StopAfterPing
  <2>1. ServerOK'
    BY <1>0, <1>4, PushLen, EmptySeq DEF StopAfterPing, Disconnect, ServerOK
  <2>2. ClientOK' /\ OutputOK'
    BY <1>0, <1>4 DEF StopAfterPing, ClientOK, OutputOK
  <2>3. BufferOK'
    BY <1>0, <1>4, SameBuffer DEF StopAfterPing
  <2> QED BY <2>1, <2>2, <2>3 DEF ServiceInv
<1> QED BY <1>1, <1>2, <1>3, <1>4 DEF sendPing

LEMMA PowerLossStep ==
  ASSUME ServiceInv, PowerLoss
  PROVE  ServiceInv'
<1>1. ServerOK'
  BY PushLen, EmptySeq DEF PowerLoss, Disconnect, ServiceInv, ServerOK
<1>2. ClientOK'
  <2>1. callback' \in BOOLEAN
    BY DEF PowerLoss
  <2>2. lastPushTime' \in Bytes \cup {None} /\ stored' \in Bytes \cup {None, Torn}
    BY DEF PowerLoss, Loaded, ServiceInv, ClientOK
  <2>3. nFailedPing' = 0
    BY DEF PowerLoss
  <2> QED BY <2>1, <2>2, <2>3, SizesAreNat DEF ClientOK
<1>3. OutputOK'
  <2>1. delivered' = delivered \/ delivered' = <<>>
    BY DEF PowerLoss
  <2>2. told' = FALSE
    BY DEF PowerLoss
  <2> QED BY <2>1, <2>2, EmptySeq DEF ServiceInv, OutputOK
<1>4. BufferOK'
  <2>1. pushDataBuffer' = <<>> /\ pushDataBufferUsed' = 0 /\ pc' = "idle" /\ found' = Nothing
    BY DEF PowerLoss
  <2> QED BY <2>1, EmptySeq, SizesAreNat DEF BufferOK, BufferConsistent, Holding, Nothing
<1> QED BY <1>1, <1>2, <1>3, <1>4 DEF ServiceInv

LEMMA ServiceStep == ServiceInv /\ [Next]_vars => ServiceInv'
<1>1. ASSUME NEW r \in Requests, SendRequest(r) \/ RequestGoesOn(r)
      PROVE  UNCHANGED <<server, client, receive, output>>
  BY <1>1 DEF SendRequest, RequestGoesOn
<1>2. UNCHANGED vars => UNCHANGED <<server, client, receive, output>>
  BY DEF vars
<1> QED
  BY <1>1, <1>2, RequestsKeepService, ServerStep, ApplicationStep, ProcessStep, ReceiveStep,
     SaveStep, NotifyStep, ConsumeStep, PingStep, PowerLossStep DEF Next

LEMMA ServiceInvariant == Spec => []ServiceInv
BY ServiceInit, ServiceStep, PTL DEF Spec

(* However the messages are cut, whatever the callback does in the middle  *)
(* of one, and across failed starts, double starts and power losses, the   *)
(* count of bytes stays in step with the buffer and below its size, so     *)
(* that the NUL of socketRead and the message given to the callback are    *)
(* inside it.                                                              *)
THEOREM RtosBufferInStep == Spec => []BufferConsistent
<1>1. ServiceInv => BufferConsistent
  BY DEF ServiceInv, BufferOK
<1> QED BY <1>1, ServiceInvariant, PTL

(* The state of the device always has its type.                            *)
THEOREM DeviceTypes == Spec => []TypeOK
<1>1. Spec => []SocketInv
  BY SocketInit, SocketStep, PTL DEF Spec
<1>2. Spec => []ClockSet
  <2>1. Init => ClockSet
    BY DEF Init, Midnight, TimeOfDay, ClockSet
  <2> QED BY <2>1, ClockStep, PTL DEF Spec
<1>3. ServiceInv /\ SocketInv /\ ClockSet => TypeOK
  BY DEF ServiceInv, ServerOK, ClientOK, OutputOK, BufferOK, SocketInv, ClockSet, TypeOK
<1> QED BY <1>1, <1>2, <1>3, ServiceInvariant, PTL

-----------------------------------------------------------------------------
(* The feed.  What the assumptions say, in parts.                          *)
LEMMA PushFacts ==
  /\ Push \in Seq(Seq(Bytes)) /\ Times \in Seq(Bytes)
  /\ Len(Times) = Len(Push) /\ None \notin Bytes /\ Torn \notin Bytes /\ Torn # None
  /\ Separator \in Bytes
BY Zenon, RtosPushAssumption

LEMMA FeedFacts ==
  /\ \A i \in 1 .. Len(Push) :
       /\ getPushJson(Push[i], Len(Push[i])) = [start |-> 0, length |-> Len(Push[i])]
       /\ TimeOf(Push[i]) = Times[i]
  /\ \A i, j \in 1 .. Len(Times) : Times[i] = Times[j] => i = j
  /\ \A i \in 1 .. Len(Times) : Times[i] # Brace1 /\ Times[i] # Brace2
BY Zenon, FeedAssumption DEF Brace1, Brace2

LEMMA HeartbeatIs == Heartbeat = <<Brace1, Brace2>> /\ Len(Heartbeat) = 2
<1>1. Heartbeat = <<Brace1, Brace2>>
  BY Zenon DEF Heartbeat, Brace1, Brace2
<1>2. Len(<<Brace1, Brace2>>) = 2
  OBVIOUS
<1> QED BY <1>1, <1>2

LEMMA HeartbeatHasNoTime == TimeOf(Heartbeat) = None
<1> DEFINE S == {q \in 0 .. Len(Heartbeat) - 1 :
                   /\ \E i \in 1 .. Len(Times) : Heartbeat[q + 1] = Times[i]
                   /\ Lexed(Heartbeat, 0, Len(Heartbeat))[q].level <= 1}
<1>1. TimeOf(Heartbeat) = IF First(S) = -1 THEN None ELSE Heartbeat[First(S) + 1]
  BY DEF TimeOf
<1>2. \A q \in 0 .. Len(Heartbeat) - 1 : Heartbeat[q + 1] \in {Brace1, Brace2}
  BY HeartbeatIs
<1>3. S = {}
  BY <1>2, FeedFacts
<1>. HIDE DEF S
<1> QED BY <1>1, <1>3, FirstOfNone

(* Each push is in the place of the log that its time has.                 *)
LEMMA IndexOfTime ==
  /\ \A i \in 1 .. Len(Push) : Index(Times[i]) = i /\ Times[i] # None
  /\ Index(None) = 0 /\ Index(Torn) = 0
<1>1. ASSUME NEW i \in 1 .. Len(Push) PROVE Index(Times[i]) = i
  BY PushFacts, FeedFacts DEF Index
<1>2. \A i \in 1 .. Len(Times) : Times[i] \in Bytes
  BY PushFacts, ElementOfSeq
<1>3. \A i \in 1 .. Len(Times) : Times[i] # None /\ Times[i] # Torn
  BY <1>2, PushFacts
<1>4. Index(None) = 0 /\ Index(Torn) = 0
  BY <1>3 DEF Index
<1> QED BY <1>1, <1>3, <1>4, PushFacts

LEMMA PushIndexOfPush == \A i \in 1 .. Len(Push) : PushIndex(Push[i]) = i
<1> SUFFICES ASSUME NEW i \in 1 .. Len(Push) PROVE PushIndex(Push[i]) = i
  OBVIOUS
<1>1. ASSUME NEW j \in 1 .. Len(Push), Push[j] = Push[i] PROVE j = i
  <2>1. Times[j] = Times[i]
    BY <1>1, FeedFacts
  <2> QED BY <2>1, FeedFacts, PushFacts
<1>2. {j \in 1 .. Len(Push) : Push[j] = Push[i]} = {i}
  BY <1>1
<1> QED BY <1>2 DEF PushIndex

LEMMA PushIndexType == ASSUME NEW text PROVE PushIndex(text) \in Nat
BY DEF PushIndex

(* The protocol of the service, in the words of SimpleJsonProofs.          *)
PushProtocol ==
  [bytes |-> Bytes, separator |-> Separator, count |-> Len(Push),
   text  |-> [j \in 0 .. Len(Push) |-> IF j = 0 THEN Heartbeat ELSE Push[j]]]

LEMMA MessageType ==
  ASSUME NEW m, m = Heartbeat \/ \E j \in 1 .. Len(Push) : m = Push[j]
  PROVE  m \in Seq(Bytes) /\ Len(m) \in Nat /\ Whole(m)
<1>1. m \in Seq(Bytes)
  BY HeartbeatType, PushFacts, ElementOfSeq
<1>2. Len(m) \in Nat
  BY <1>1, LenProperties
<1>3. getPushJson(Heartbeat, Len(Heartbeat)) = [start |-> 0, length |-> Len(Heartbeat)]
  BY HeartbeatIs, BracesJson
<1> QED BY <1>1, <1>2, <1>3, FeedFacts DEF Whole

LEMMA ProtocolIs ==
  /\ Protocol(PushProtocol)
  /\ PushProtocol.bytes = Bytes /\ PushProtocol.separator = Separator
  /\ PushProtocol.count = Len(Push) /\ PushProtocol.text[0] = Heartbeat
  /\ \A j \in 1 .. Len(Push) : PushProtocol.text[j] = Push[j]
<1>1. /\ PushProtocol.bytes = Bytes /\ PushProtocol.separator = Separator
      /\ PushProtocol.count = Len(Push)
      /\ PushProtocol.text = [j \in 0 .. Len(Push) |-> IF j = 0 THEN Heartbeat ELSE Push[j]]
  BY DEF PushProtocol
<1>2. PICK text : text = PushProtocol.text
  OBVIOUS
<1>3. /\ text[0] = Heartbeat /\ \A j \in 1 .. Len(Push) : text[j] = Push[j]
      /\ \A j \in 0 .. Len(Push) : text[j] = Heartbeat \/ \E k \in 1 .. Len(Push) : text[j] = Push[k]
  <2>1. 0 \in 0 .. Len(Push) /\ \A j \in 0 .. Len(Push) : j = 0 \/ j \in 1 .. Len(Push)
    BY PushLen
  <2> QED BY <1>1, <1>2, <2>1, PushLen
<1>4. \A j \in 0 .. Len(Push) : text[j] \in Seq(Bytes) /\ Whole(text[j])
  BY <1>3, MessageType
<1>5. Protocol(PushProtocol)
  BY <1>1, <1>2, <1>4, PushFacts, PushLen DEF Protocol
<1> QED BY <1>1, <1>2, <1>3, <1>5

-----------------------------------------------------------------------------
(* The inductive invariant.  Except in a save, and unless the file system  *)
(* fails, the resume point in memory is what a load makes of the state     *)
(* file (ResumeOK).  As long as nothing parts or loses the bytes of a      *)
(* message, the bytes not yet looked at are framed and hold the pushes     *)
(* after the resume point (BacklogOK), a message in hand has its separator *)
(* behind it and is a heartbeat or the push of the resume point, not seen  *)
(* by the callback before it is called (HandoverOK); the callback has seen *)
(* no push after the resume point (OrderOK), nor after the one in the      *)
(* state file when the device would go on from it (StoreOK).               *)
Here == Index(lastPushTime)

Linked == link \in {"up", "closed"}

Stream == pushDataBuffer \o wire

Rest == IF Holding THEN SubSeq(Stream, found.length + 2, Len(Stream)) ELSE Stream

LastIndex == IF delivered = <<>> THEN 0 ELSE PushIndex(delivered[Len(delivered)])

Saving == pc \in {"delete", "write"}

ResumeOK ==
  "flash" \notin faults /\ ~ Saving => lastPushTime = IF stored = Torn THEN None ELSE stored

BacklogOK == Linked => Framing(PushProtocol, Rest, Here, sent) /\ sent <= published

HandoverOK ==
  Holding => /\ found.start = 0 /\ found.length + 1 <= Len(pushDataBuffer)
             /\ \/ pc = "notify" \/ Message(found) = Heartbeat
                \/ Here >= 1 /\ Message(found) = Push[Here] /\ LastIndex < Here

OrderOK == LastIndex <= Here /\ Here <= published

StoreOK == /\ Index(stored) <= published
           /\ ~ ResumeLost => LastIndex <= Index(stored)

FeedInv == ResumeOK /\ (Framed => BacklogOK /\ HandoverOK /\ OrderOK /\ StoreOK)

LEMMA StreamType ==
  ASSUME ServiceInv
  PROVE  /\ pushDataBuffer \in Seq(Bytes) /\ wire \in Seq(Bytes) /\ Stream \in Seq(Bytes)
         /\ Len(pushDataBuffer) \in Nat /\ Len(wire) \in Nat
         /\ Len(Stream) = Len(pushDataBuffer) + Len(wire)
         /\ Here \in 0 .. Len(Push) /\ Len(Push) \in Nat
         /\ sent \in 0 .. Len(Push) /\ published \in 0 .. Len(Push)
         /\ LastIndex \in Nat
         /\ Index(stored) \in Nat
         /\ Holding => /\ found.length \in Nat \ {0}
                       /\ pushDataBufferUsed = Len(pushDataBuffer)
                       /\ pushDataBufferUsed # 0
<1>1. pushDataBuffer \in Seq(Bytes) /\ wire \in Seq(Bytes)
  BY DEF ServiceInv, ServerOK, BufferOK
<1>2. Len(pushDataBuffer) \in Nat
  BY <1>1, LenProperties
<1>3. Holding => /\ found.length \in Nat \ {0}
                 /\ pushDataBufferUsed = Len(pushDataBuffer)
                 /\ pushDataBufferUsed # 0
  BY <1>2 DEF ServiceInv, BufferOK, BufferConsistent
<1>4. sent \in 0 .. Len(Push) /\ published \in 0 .. Len(Push)
  BY DEF ServiceInv, ServerOK
<1>5. LastIndex \in Nat
  BY PushIndexType DEF LastIndex
<1> QED BY <1>1, <1>3, <1>4, <1>5, PushLen, IndexRange DEF Stream, Here

LEMMA FeedInit == Init => FeedInv
<1> SUFFICES ASSUME Init PROVE FeedInv
  OBVIOUS
<1>1. Here = 0
  BY IndexOfTime DEF Init, Here
<1>2. LastIndex = 0 /\ ~ Linked /\ ~ Holding /\ published = 0
  BY DEF Init, LastIndex, Linked, Holding
<1>3. Index(stored) = 0
  BY IndexOfTime DEF Init
<1>4. ResumeOK
  BY PushFacts DEF Init, ResumeOK
<1> QED BY <1>1, <1>2, <1>3, <1>4 DEF FeedInv, BacklogOK, HandoverOK, OrderOK, StoreOK

(* Outside of a save the resume point moves only with the state file.      *)
LEMMA ResumeKept ==
  ASSUME ResumeOK, UNCHANGED <<lastPushTime, stored, faults>>, Saving => Saving'
  PROVE  ResumeOK'
BY DEF ResumeOK

(* Steps that look at no bytes and move no push: the ends of a call        *)
(* without a message, and of a connection.                                 *)
Unmoved == UNCHANGED <<pushDataBuffer, lastPushTime, stored, delivered, faults>>

LEMMA NothingMoves ==
  ASSUME ServiceInv, FeedInv, published' \in Nat, published <= published', Unmoved,
         \/ pc' = pc /\ found' = found
         \/ ~ Holding /\ ~ Holding',
         Linked' => Linked /\ wire' = wire /\ sent' = sent
  PROVE  FeedInv'
<1>. UNCHANGED <<pushDataBuffer, lastPushTime, stored, delivered, faults>>
  BY DEF Unmoved
<1>0. ResumeOK'
  BY ResumeKept DEF FeedInv, Saving, Holding
<1> SUFFICES ASSUME Framed PROVE (BacklogOK /\ HandoverOK /\ OrderOK /\ StoreOK)'
  BY <1>0 DEF FeedInv, Framed
<1>1. BacklogOK /\ HandoverOK /\ OrderOK /\ StoreOK
  BY DEF FeedInv
<1>2. Here' = Here /\ LastIndex' = LastIndex /\ Message(found') = Message(found)'
  BY DEF Here, LastIndex, PushIndex, Message
<1>3. sent \in Nat /\ published \in Nat /\ Here \in Nat
  BY StreamType
<1>4. OrderOK'
  <2>1. LastIndex <= Here /\ Here <= published
    BY <1>1 DEF OrderOK
  <2>. HIDE DEF Here, LastIndex
  <2> QED BY <1>2, <1>3, <2>1 DEF OrderOK
<1>5. HandoverOK'
  <2> SUFFICES ASSUME Holding' PROVE HandoverOK'
    BY DEF HandoverOK
  <2>1. Holding /\ found' = found /\ pc' = pc
    BY DEF Holding
  <2>2. Message(found)' = Message(found)
    BY <2>1 DEF Message
  <2> QED BY <1>1, <1>2, <2>1, <2>2 DEF HandoverOK
<1>6. BacklogOK'
  <2> SUFFICES ASSUME Linked' PROVE BacklogOK'
    BY DEF BacklogOK
  <2>1. Linked /\ wire' = wire /\ sent' = sent
    OBVIOUS
  <2>2. Rest' = Rest
    BY <2>1 DEF Rest, Stream, Holding
  <2>3. Framing(PushProtocol, Rest, Here, sent) /\ sent <= published
    BY <1>1, <2>1 DEF BacklogOK
  <2>4. Framing(PushProtocol, Rest, Here, sent)'
    BY <1>2, <2>1, <2>2, <2>3
  <2>5. sent' <= published'
    BY <1>3, <2>1, <2>3
  <2> QED BY <2>4, <2>5 DEF BacklogOK
<1>7. StoreOK'
  <2>1. Index(stored)' = Index(stored) /\ (ResumeLost' <=> ResumeLost) /\ Index(stored) \in Nat
    BY StreamType DEF ResumeLost
  <2>. HIDE DEF LastIndex
  <2> QED BY <1>1, <1>2, <1>3, <2>1 DEF StoreOK
<1> QED BY <1>4, <1>5, <1>6, <1>7

(* The server writes a message: in the middle of a callback too.           *)
LEMMA WriteKeepsFeed ==
  ASSUME ServiceInv, FeedInv, Framed, Linked, NEW m, wire' = wire \o Append(m, Separator),
         sent' \in 0 .. Len(Push), sent' <= published,
         (m = Heartbeat /\ sent' = sent) \/ (sent' = sent + 1 /\ m = Push[sent']),
         Unmoved, UNCHANGED <<published, link>>,
         \/ pc' = pc /\ found' = found
         \/ ~ Holding /\ ~ Holding'
  PROVE  FeedInv'
<1>. UNCHANGED <<pushDataBuffer, lastPushTime, stored, delivered, faults>>
  BY DEF Unmoved
<1>1. BacklogOK /\ HandoverOK /\ OrderOK /\ StoreOK /\ ResumeOK
  BY DEF FeedInv
<1>2. Here' = Here /\ LastIndex' = LastIndex
  BY DEF Here, LastIndex, PushIndex
<1>3. HandoverOK' /\ OrderOK' /\ StoreOK' /\ ResumeOK'
  <2>1. Holding' => pc' = pc /\ Message(found)' = Message(found) /\ found' = found
    BY DEF Holding, Message
  <2>2. HandoverOK'
    BY <1>1, <1>2, <2>1 DEF HandoverOK, Holding
  <2>3. OrderOK' /\ StoreOK'
    BY <1>1, <1>2 DEF OrderOK, StoreOK, ResumeLost
  <2>4. ResumeOK'
    BY <1>1, ResumeKept DEF Saving, Holding
  <2> QED BY <2>2, <2>3, <2>4
<1>. DEFINE tail1 == Append(m, Separator)
<1>4. m \in Seq(Bytes) /\ Len(m) \in Nat
  <2>1. sent' = sent + 1 => sent' \in 1 .. Len(Push)
    BY StreamType
  <2> QED BY <2>1, MessageType
<1>5. tail1 \in Seq(Bytes)
  BY <1>4, PushFacts, AppendProperties
<1>6. wire' = wire \o tail1
  OBVIOUS
<1>. HIDE DEF tail1
<1>7. Stream' = Stream \o tail1
  <2>1. pushDataBuffer \in Seq(Bytes) /\ wire \in Seq(Bytes)
    BY StreamType
  <2>2. (pushDataBuffer \o wire) \o tail1 = pushDataBuffer \o (wire \o tail1)
    BY <1>5, <2>1, ConcatAssociative
  <2> QED BY <1>6, <2>2 DEF Stream
<1>8. Rest' = Rest \o tail1 /\ Rest \in Seq(Bytes)
  <2>0. Holding' <=> Holding
    BY DEF Holding
  <2>1. CASE ~ Holding
    BY <1>7, <2>0, <2>1, StreamType DEF Rest
  <2>2. CASE Holding
    <3> DEFINE k == found.length
               L == Len(Stream)
    <3>1. k \in Nat /\ k + 1 <= L /\ L \in Nat
      BY <1>1, <2>2, StreamType DEF HandoverOK
    <3>2. Rest = SubSeq(Stream, k + 2, L) /\ Rest' = SubSeq(Stream', k + 2, Len(Stream'))
      <4>1. found' = found
        BY <2>2 DEF Holding
      <4> QED BY <2>0, <2>2, <4>1 DEF Rest
    <3>. HIDE DEF k, L
    <3>3. PICK t : t = Stream
      OBVIOUS
    <3>4. t \in Seq(Bytes) /\ Len(t) = L
      BY <3>3, StreamType DEF L
    <3>5. /\ SubSeq(t \o tail1, k + 2, Len(t \o tail1)) = SubSeq(t, k + 2, L) \o tail1
          /\ SubSeq(t, k + 2, L) \in Seq(Bytes)
      <4>1. k + 2 \in Nat /\ 1 <= k + 2 /\ k + 2 <= Len(t) + 1
        BY <3>1, <3>4
      <4> QED BY <1>5, <3>4, <4>1, SuffixOfConcat
    <3> QED BY <1>7, <3>2, <3>3, <3>5
  <2> QED BY <2>1, <2>2
<1>9. Framing(PushProtocol, Rest, Here, sent)
  BY <1>1 DEF BacklogOK
<1>10. Framing(PushProtocol, Rest \o tail1, Here, sent')
  <2>1. /\ Rest \in Seq(PushProtocol.bytes) /\ sent \in 0 .. PushProtocol.count
        /\ sent' \in 0 .. PushProtocol.count
    BY <1>8, StreamType, ProtocolIs
  <2>2. \/ m = PushProtocol.text[0] /\ sent' = sent
        \/ sent' = sent + 1 /\ m = PushProtocol.text[sent']
    <3>1. sent' = sent + 1 => sent' \in 1 .. Len(Push)
      BY StreamType
    <3> QED BY <3>1, ProtocolIs
  <2>3. PICK st : st = Rest
    OBVIOUS
  <2>4. PICK s2 : s2 = sent'
    OBVIOUS
  <2>5. Framing(PushProtocol, st \o Append(m, PushProtocol.separator), Here, s2)
    BY <1>9, <2>1, <2>2, <2>3, <2>4, ProtocolIs, FramingGrows
  <2> QED BY <2>3, <2>4, <2>5, ProtocolIs DEF tail1
<1>11. BacklogOK'
  BY <1>2, <1>8, <1>10 DEF BacklogOK
<1> QED BY <1>1, <1>3, <1>11 DEF FeedInv

LEMMA ServerKeepsFeed ==
  ASSUME ServiceInv, FeedInv, PushServer
  PROVE  FeedInv'
<1>. USE DEF server, client, receive, output, reqVars
<1>0. published \in 0 .. Len(Push) /\ sent \in 0 .. Len(Push) /\ Len(Push) \in Nat
  BY StreamType
<1>1. CASE Publish
  <2>1. published' \in Nat /\ published <= published'
    BY <1>0, <1>1 DEF Publish
  <2>2. Unmoved /\ UNCHANGED <<pc, found, link, wire, sent>>
    BY <1>1 DEF Publish, Unmoved
  <2>3. Linked' = Linked
    BY <2>2 DEF Linked
  <2> QED BY <2>1, <2>2, <2>3, NothingMoves
<1>2. CASE Transmit
  <2>1. /\ wire' = wire \o Append(Push[sent + 1], Separator)
        /\ sent' = sent + 1 /\ sent < published /\ Linked
    BY <1>2 DEF Transmit, Linked
  <2>2. sent' \in 0 .. Len(Push) /\ sent' <= published
    BY <1>0, <2>1
  <2>3. Unmoved /\ UNCHANGED <<published, link, pc, found>>
    BY <1>2 DEF Transmit, Unmoved
  <2>4. CASE Framed
    BY <2>1, <2>2, <2>3, <2>4, WriteKeepsFeed
  <2>5. CASE ~ Framed
    BY <2>3, <2>5, ResumeKept DEF FeedInv, Framed, Unmoved, Saving
  <2> QED BY <2>4, <2>5
<1>3. CASE PeerClose
  <2>1. link = "up" /\ Unmoved /\ UNCHANGED <<published, sent, wire, pc, found>>
    BY <1>3 DEF PeerClose, Unmoved
  <2>2. Linked
    BY <2>1 DEF Linked
  <2> QED BY <1>0, <2>1, <2>2, NothingMoves
<1>4. CASE PeerFail
  <2>1. Unmoved /\ UNCHANGED <<published, pc, found>> /\ ~ Linked'
    BY <1>4 DEF PeerFail, Linked, Unmoved
  <2> QED BY <1>0, <2>1, NothingMoves
<1> QED BY <1>1, <1>2, <1>3, <1>4 DEF PushServer

(* A new connection resumes where the last one left off, with nothing in   *)
(* the buffer: so not in the callback of a message.                        *)
LEMMA EmptyBuffer ==
  ASSUME ServiceInv, Framed, MayStart
  PROVE  pushDataBuffer = <<>> /\ WithHello = <<>> /\ ~ Holding
<1>1. pushDataBufferUsed = 0
  BY DEF MayStart, Framed
<1>2. ~ Holding
  BY <1>1, StreamType
<1>3. Len(pushDataBuffer) = 0
  BY <1>1, EmptySeq DEF ServiceInv, BufferOK, BufferConsistent
<1>4. pushDataBuffer = <<>>
  BY <1>3, StreamType, EmptySeq
<1>5. WithHello \in Seq(Bytes) /\ Len(WithHello) = 0
  BY <1>3, HelloType, StreamType
<1> QED BY <1>2, <1>4, <1>5, EmptySeq

LEMMA ApplicationKeepsFeed ==
  ASSUME ServiceInv, FeedInv, Application
  PROVE  FeedInv'
<1>. USE DEF server, client, receive, output, reqVars
<1>0. published \in Nat
  BY StreamType
<1>1. ASSUME NEW set \in BOOLEAN, parseSetPushCallback(set) PROVE FeedInv'
  <2>1. Unmoved /\ UNCHANGED <<published, sent, wire, link, pc, found>>
    BY <1>1 DEF parseSetPushCallback, Unmoved
  <2>2. Linked' = Linked
    BY <2>1 DEF Linked
  <2> QED BY <1>0, <2>1, <2>2, NothingMoves
<1>2. CASE StartConnected
  <2>1. /\ MayStart /\ pushDataBuffer' = WithHello /\ wire' = <<>> /\ sent' = Here
        /\ UNCHANGED <<published, lastPushTime, stored, pc, found, delivered, faults>>
    BY <1>2 DEF StartConnected, ResumeAfter, Here
  <2>0. ResumeOK'
    BY <2>1, ResumeKept DEF FeedInv, Saving
  <2> SUFFICES ASSUME Framed PROVE (BacklogOK /\ HandoverOK /\ OrderOK /\ StoreOK)'
    BY <2>0, <2>1 DEF FeedInv, Framed
  <2>2. ~ Holding' /\ pushDataBuffer' = <<>>
    BY <2>1, EmptyBuffer DEF Holding
  <2>3. Here' = Here /\ LastIndex' = LastIndex
    BY <2>1 DEF Here, LastIndex, PushIndex
  <2>4. LastIndex <= Here /\ Here <= published
    BY DEF FeedInv, OrderOK
  <2>5. Rest' = <<>>
    BY <2>1, <2>2 DEF Rest, Stream
  <2>6. Framing(PushProtocol, <<>>, Here, Here)
    BY StreamType, ProtocolIs, EmptyFraming
  <2>7. Framing(PushProtocol, Rest, Here, sent)'
    BY <2>1, <2>3, <2>5, <2>6
  <2>8. BacklogOK'
    BY <2>1, <2>4, <2>7 DEF BacklogOK
  <2>9. StoreOK'
    BY <2>1, <2>3 DEF FeedInv, StoreOK, ResumeLost
  <2> QED BY <2>1, <2>2, <2>3, <2>4, <2>8, <2>9 DEF HandoverOK, OrderOK
<1>3. CASE StartFailed
  <2>1. /\ MayStart /\ pushDataBuffer' \in {pushDataBuffer, WithHello}
        /\ UNCHANGED <<published, sent, wire, link, pc, found>>
        /\ UNCHANGED <<lastPushTime, stored, delivered, faults>>
    BY <1>3 DEF StartFailed
  <2>2. CASE Framed
    <3>1. Unmoved
      BY <2>1, <2>2, EmptyBuffer DEF Unmoved
    <3>2. Linked' = Linked
      BY <2>1 DEF Linked
    <3> QED BY <1>0, <2>1, <3>1, <3>2, NothingMoves
  <2>3. CASE ~ Framed
    BY <2>1, <2>3, ResumeKept DEF FeedInv, Framed, Saving
  <2> QED BY <2>2, <2>3
<1>4. CASE parseStopPushService
  <2>1. Unmoved /\ UNCHANGED <<published, pc, found>> /\ ~ Linked'
    BY <1>4 DEF parseStopPushService, Disconnect, Linked, Unmoved
  <2> QED BY <1>0, <2>1, NothingMoves
<1> QED BY <1>1, <1>2, <1>3, <1>4 DEF Application, parseStartPushService

(* A chunk arrives: bytes is what the buffer and the chunk hold, and the   *)
(* first part of the stream.                                               *)
Received(bytes) ==
  /\ pc = "read" /\ Linked /\ pushDataBuffer' = bytes
  /\ ChunkOf(PushProtocol, bytes, Stream)
  /\ bytes \o wire' = Stream /\ wire' \in Seq(Bytes)
  /\ UNCHANGED <<published, sent, link, faults, stored, delivered>>

LEMMA ReceivedChunk ==
  ASSUME ServiceInv, Framed, NEW n \in 1 .. Len(wire), RecvBytes(n)
  PROVE  Received(pushDataBuffer \o SubSeq(wire, 1, n))
<1>. USE DEF server, client, receive, output, reqVars
<1>1. /\ pushDataBuffer \in Seq(Bytes) /\ wire \in Seq(Bytes) /\ Stream \in Seq(Bytes)
      /\ Len(wire) \in Nat
  BY StreamType
<1> DEFINE bytes == pushDataBuffer \o SubSeq(wire, 1, n)
<1>2. /\ pc = "read" /\ Linked /\ pushDataBuffer' = bytes
      /\ wire' = SubSeq(wire, n + 1, Len(wire))
      /\ n < Len(wire) => wire[n + 1] # Separator
      /\ UNCHANGED <<published, sent, link, faults, stored, delivered>>
  BY DEF RecvBytes, Linked, Framed
<1>3. /\ FirstBytes(bytes, Stream, Separator) /\ bytes \in Seq(Bytes)
      /\ SubSeq(wire, n + 1, Len(wire)) \in Seq(Bytes)
      /\ bytes \o SubSeq(wire, n + 1, Len(wire)) = Stream
  <2>1. CutWell(wire, n, Separator)
    BY <1>1, <1>2 DEF CutWell
  <2>2. Arrived(Bytes, pushDataBuffer, wire, n, Separator)
    BY <1>1, <2>1, BytesArrive
  <2> QED BY <2>2, Zenon DEF Arrived, Stream
<1>. HIDE DEF bytes
<1>4. ChunkOf(PushProtocol, bytes, Stream)
  BY <1>1, <1>3, ProtocolIs DEF ChunkOf
<1>5. Received(bytes)
  BY <1>2, <1>3, <1>4 DEF Received
<1> QED BY <1>5 DEF bytes

(* What comes of it: no message is complete yet, or the first of the       *)
(* stream is taken, and the resume point moves to it if it is a push.      *)
Waiting == pc' = "read" /\ UNCHANGED <<found, lastPushTime>>

Takes(m, j) ==
  /\ found'.start = 0 /\ found'.length = Len(m) /\ Message(found)' = m /\ Here' = j
  /\ pc' = "delete" \/ (pc' = "call" /\ lastPushTime' = lastPushTime)

LEMMA RecvComesTo ==
  ASSUME ServiceInv, FeedInv, Framed, NEW n \in 1 .. Len(wire), RecvBytes(n),
         NEW bytes, bytes = pushDataBuffer \o SubSeq(wire, 1, n), Received(bytes)
  PROVE  \/ Waiting
         \/ \E m, j : /\ FirstMessage(PushProtocol, Here, sent, j, m) /\ j \in 0 .. Len(Push)
                      /\ Len(m) \in Nat /\ Len(m) + 1 <= Len(bytes)
                      /\ Framing(PushProtocol, SubSeq(Stream, Len(m) + 2, Len(Stream)), j, sent)
                      /\ Takes(m, j)
<1>1. ChunkOf(PushProtocol, bytes, Stream) /\ Framing(PushProtocol, Stream, Here, sent)
  BY DEF Received, FeedInv, BacklogOK, Rest, Holding
<1> DEFINE json == getPushJson(bytes, Len(bytes))
           text == SubSeq(bytes, json.start + 1, json.start + json.length)
<1>2. pushDataBuffer' = bytes
  BY DEF Received
<1>3. \/ json.length = -1 /\ UNCHANGED <<pc, found, lastPushTime>>
      \/ json.length > 0 /\ found' = json /\ Take(text)
  BY <1>2 DEF RecvBytes
<1>4. CASE json.length = -1
  BY <1>3, <1>4 DEF Waiting, RecvBytes
<1>5. ASSUME NEW m, NEW j, Taken(PushProtocol, bytes, Stream, Here, sent, j, m)
      PROVE  /\ FirstMessage(PushProtocol, Here, sent, j, m) /\ j \in 0 .. Len(Push)
             /\ Len(m) \in Nat /\ Len(m) + 1 <= Len(bytes)
             /\ Framing(PushProtocol, SubSeq(Stream, Len(m) + 2, Len(Stream)), j, sent)
             /\ Takes(m, j)
  <2>1. /\ FirstMessage(PushProtocol, Here, sent, j, m) /\ j \in 0 .. Len(Push)
        /\ Len(m) \in Nat /\ Len(m) + 1 <= Len(bytes)
        /\ json = [start |-> 0, length |-> Len(m)]
        /\ SubSeq(bytes, 1, Len(m)) = m
        /\ Framing(PushProtocol, SubSeq(Stream, Len(m) + 2, Len(Stream)), j, sent)
    BY <1>5, ProtocolIs DEF Taken
  <2>2. json.start = 0 /\ json.length = Len(m) /\ json.length # -1
    BY <2>1
  <2>3. json.start + 1 = 1 /\ json.start + json.length = Len(m)
    BY <2>1, <2>2
  <2>4. text = m
    BY <2>1, <2>3
  <2>5. found' = json /\ Take(m)
    <3>1. found' = json /\ Take(text)
      BY <1>3, <2>2
    <3>. HIDE DEF text, json
    <3> QED BY <2>4, <3>1
  <2>6. Message(found)' = m
    BY <1>2, <2>1, <2>3, <2>5 DEF Message
  <2>. HIDE DEF json, text
  <2>7. Here' = j
    <3>1. CASE m = Heartbeat /\ j = Here
      <4>1. lastPushTime' = lastPushTime
        BY <2>5, <3>1, HeartbeatHasNoTime DEF Take
      <4> QED BY <3>1, <4>1 DEF Here
    <3>2. CASE j \in 1 .. Len(Push) /\ m = Push[j]
      <4>1. lastPushTime' = Times[j]
        BY <2>5, <3>2, FeedFacts, IndexOfTime DEF Take
      <4> QED BY <3>2, <4>1, IndexOfTime DEF Here
    <3> QED BY <2>1, <3>1, <3>2, ProtocolIs DEF FirstMessage
  <2>8. pc' = "delete" \/ (pc' = "call" /\ lastPushTime' = lastPushTime)
    BY <2>5 DEF Take
  <2>9. Takes(m, j)
    BY <2>2, <2>5, <2>6, <2>7, <2>8 DEF Takes
  <2> QED BY <2>1, <2>9
<1> QED BY <1>1, <1>4, <1>5, ProtocolIs, ScanFramed

LEMMA LastOfAppend ==
  ASSUME NEW S, NEW s \in Seq(S), NEW x \in S
  PROVE  Append(s, x) # <<>> /\ Append(s, x)[Len(Append(s, x))] = x
OBVIOUS

LEMMA RecvMoves ==
  ASSUME ServiceInv, FeedInv, Framed, NEW n \in 1 .. Len(wire), RecvBytes(n)
  PROVE  FeedInv'
<1>1. PICK bytes : bytes = pushDataBuffer \o SubSeq(wire, 1, n) /\ Received(bytes)
  BY ReceivedChunk
<1>2. /\ pushDataBuffer' = bytes /\ bytes \o wire' = Stream /\ Linked
      /\ UNCHANGED <<published, sent, link, faults, stored, delivered>> /\ pc = "read"
  BY <1>1 DEF Received
<1>3. Linked' /\ Framed' /\ Stream' = Stream
  BY <1>2 DEF Linked, Framed, Stream
<1>4. /\ Framing(PushProtocol, Stream, Here, sent) /\ sent <= published
      /\ LastIndex <= Here /\ Here <= published /\ StoreOK /\ ResumeOK
  BY <1>2 DEF FeedInv, BacklogOK, OrderOK, Rest, Holding
<1>5. LastIndex' = LastIndex
  BY <1>2 DEF LastIndex, PushIndex
<1>6. StoreOK'
  <2>. HIDE DEF LastIndex
  <2> QED BY <1>2, <1>4, <1>5 DEF StoreOK, ResumeLost
<1>7. CASE Waiting
  <2>1. Here' = Here
    BY <1>7 DEF Waiting, Here
  <2>2. Rest' = Stream /\ ~ Holding'
    BY <1>3, <1>7 DEF Waiting, Rest, Holding
  <2>3. Framing(PushProtocol, Rest, Here, sent)'
    BY <1>2, <1>4, <2>1, <2>2
  <2>4. BacklogOK'
    BY <1>2, <1>4, <2>3 DEF BacklogOK
  <2>5. HandoverOK' /\ OrderOK'
    BY <1>2, <1>4, <1>5, <2>1, <2>2 DEF HandoverOK, OrderOK
  <2>6. ResumeOK'
    BY <1>2, <1>4, <1>7, ResumeKept DEF Waiting, Saving
  <2> QED BY <1>6, <2>4, <2>5, <2>6 DEF FeedInv
<1>8. ASSUME NEW m, NEW j, FirstMessage(PushProtocol, Here, sent, j, m), j \in 0 .. Len(Push),
             Len(m) \in Nat, Len(m) + 1 <= Len(bytes),
             Framing(PushProtocol, SubSeq(Stream, Len(m) + 2, Len(Stream)), j, sent), Takes(m, j)
      PROVE  FeedInv'
  <2>1. /\ Holding' /\ found'.start = 0 /\ found'.length = Len(m)
        /\ Message(found)' = m /\ Here' = j
        /\ Saving' \/ lastPushTime' = lastPushTime
    BY <1>8 DEF Takes, Holding, Saving
  <2>2. Rest' = SubSeq(Stream, Len(m) + 2, Len(Stream))
    BY <1>3, <2>1 DEF Rest
  <2>3. Framing(PushProtocol, Rest, Here, sent)'
    BY <1>2, <1>8, <2>1, <2>2
  <2>4. BacklogOK'
    BY <1>2, <1>4, <2>3 DEF BacklogOK
  <2>5. \/ m = Heartbeat /\ j = Here
        \/ j = Here + 1 /\ j <= sent /\ j \in 1 .. Len(Push) /\ m = Push[j]
    BY <1>8, ProtocolIs DEF FirstMessage
  <2>6. PICK h \in Nat : h = Here
    BY StreamType
  <2>7. PICK l \in Nat : l = LastIndex
    BY StreamType
  <2>8. /\ l <= j /\ j <= published
        /\ m = Heartbeat \/ (j >= 1 /\ m = Push[j] /\ l < j)
    <3>1. l <= h /\ h <= published /\ sent <= published
      BY <1>4, <2>6, <2>7
    <3>2. (m = Heartbeat /\ j = h) \/ (j = h + 1 /\ j <= sent /\ m = Push[j])
      BY <2>5, <2>6
    <3> QED BY <1>8, <3>1, <3>2, StreamType
  <2>9. OrderOK'
    BY <1>2, <1>5, <2>1, <2>7, <2>8 DEF OrderOK
  <2>10. HandoverOK'
    <3>1. found'.length + 1 <= Len(pushDataBuffer')
      BY <1>2, <1>8, <2>1
    <3>. HIDE DEF Here, LastIndex
    <3> QED BY <1>5, <2>1, <2>7, <2>8, <3>1 DEF HandoverOK
  <2>11. ResumeOK'
    BY <1>2, <1>4, <2>1 DEF ResumeOK, Saving
  <2> QED BY <1>6, <2>4, <2>9, <2>10, <2>11 DEF FeedInv
<1> QED BY <1>1, <1>7, <1>8, RecvComesTo

LEMMA RecvKeepsFeed ==
  ASSUME ServiceInv, FeedInv, NEW n \in 1 .. Len(wire), RecvBytes(n)
  PROVE  FeedInv'
<1>1. CASE Framed
  BY <1>1, RecvMoves
<1>2. CASE ~ Framed
  <2>1. faults' = faults /\ stored' = stored /\ pc = "read"
    BY DEF RecvBytes, reqVars
  <2>2. Saving' \/ lastPushTime' = lastPushTime
    BY DEF RecvBytes, Take, Saving
  <2> QED BY <1>2, <2>1, <2>2 DEF FeedInv, Framed, ResumeOK, Saving
<1> QED BY <1>1, <1>2

LEMMA ReceiveKeepsFeed ==
  ASSUME ServiceInv, FeedInv, Receive
  PROVE  FeedInv'
<1>. USE DEF server, client, receive, output, reqVars
<1>0. published \in Nat
  BY StreamType
<1>1. ASSUME NoMessage, pc = "read" PROVE UNCHANGED pushDataBuffer /\ pc' = "ping"
  <2>1. pushDataBufferUsed # RECEIVE_BUFFER_SIZE
    BY SizesAreNat DEF ServiceInv, BufferOK, BufferConsistent
  <2> QED BY <1>1, <2>1 DEF NoMessage
<1>2. ASSUME NEW n \in 1 .. Len(wire), RecvAgain(n) PROVE FeedInv'
  <2>1. ~ Framed /\ UNCHANGED <<lastPushTime, stored, faults>> /\ pc = "read"
    BY <1>2 DEF RecvAgain, Framed
  <2> QED BY <2>1, ResumeKept DEF FeedInv, Framed, Saving
<1>3. CASE RecvNothing \/ RecvError
  <2>1. /\ NoMessage /\ pc = "read" /\ UNCHANGED <<published, sent, wire, link>>
        /\ UNCHANGED <<lastPushTime, stored, delivered, faults>>
    BY <1>3 DEF RecvNothing, RecvError
  <2>2. Unmoved /\ pc' = "ping" /\ Linked' = Linked
    BY <1>1, <2>1 DEF Unmoved, Linked
  <2> QED BY <1>0, <2>1, <2>2, NothingMoves DEF Holding
<1> QED BY <1>2, <1>3, RecvKeepsFeed DEF Receive

(* A save moves no push: there is no state file any more, which the start  *)
(* of the device notices, or one that holds the resume point of memory.    *)
LEMMA SaveKeepsFeed ==
  ASSUME ServiceInv, FeedInv, saveClientState
  PROVE  FeedInv'
<1>. USE DEF server, client, receive, output, reqVars
<1>1. /\ UNCHANGED <<published, sent, wire, link, lastPushTime, pushDataBuffer, found,
                     delivered, faults>>
      /\ Holding /\ Holding' /\ pc # "notify" /\ pc' # "notify"
      /\ \/ stored' = Torn /\ Saving'
         \/ stored' = lastPushTime
         \/ stored' \in {Torn, stored} /\ "flash" \in faults
  BY DEF saveClientState, DeleteFile, WriteFile, Holding, Saving
<1>2. ResumeOK'
  <2>1. lastPushTime # Torn
    BY PushFacts DEF ServiceInv, ClientOK
  <2> QED BY <1>1, <2>1 DEF ResumeOK
<1> SUFFICES ASSUME Framed PROVE (BacklogOK /\ HandoverOK /\ OrderOK /\ StoreOK)'
  BY <1>1, <1>2 DEF FeedInv, Framed
<1>3. BacklogOK /\ HandoverOK /\ OrderOK /\ StoreOK
  BY DEF FeedInv
<1>4. Here' = Here /\ LastIndex' = LastIndex /\ Message(found)' = Message(found) /\ Rest' = Rest
  BY <1>1 DEF Here, LastIndex, PushIndex, Message, Rest, Stream
<1>5. BacklogOK'
  <2>1. Framing(PushProtocol, Rest, Here, sent)' <=> Framing(PushProtocol, Rest, Here, sent)
    BY <1>1, <1>4
  <2> QED BY <1>1, <1>3, <2>1 DEF BacklogOK, Linked
<1>6. (HandoverOK /\ OrderOK)'
  BY <1>1, <1>3, <1>4 DEF HandoverOK, OrderOK
<1>7. StoreOK'
  <2>. HIDE DEF LastIndex
  <2>1. CASE stored' = Torn
    <3>1. Index(stored)' = 0 /\ ResumeLost'
      BY <2>1, IndexOfTime DEF ResumeLost
    <3> QED BY <1>1, <3>1, StreamType DEF StoreOK
  <2>2. CASE stored' = lastPushTime
    <3>1. Index(stored)' = Here
      BY <2>2 DEF Here
    <3> QED BY <1>1, <1>3, <1>4, <3>1 DEF StoreOK, OrderOK
  <2>3. CASE stored' = stored /\ "flash" \in faults
    BY <1>1, <1>3, <2>3 DEF StoreOK, ResumeLost
  <2> QED BY <1>1, <2>1, <2>2, <2>3
<1> QED BY <1>5, <1>6, <1>7

(* The callback: a heartbeat is not handed over, a push is one that comes  *)
(* after all the callback has seen.                                        *)
Delivers(i) ==
  /\ delivered' = Append(delivered, Push[i])
  /\ i \in 1 .. Len(Push) /\ LastIndex < i /\ i <= published /\ i = Here

LEMMA NotifyDelivers ==
  ASSUME ServiceInv, FeedInv, Framed, Notify
  PROVE  delivered' = delivered \/ \E i : Delivers(i)
<1>1. HandoverOK /\ OrderOK /\ Holding /\ pc = "call"
  BY DEF FeedInv, Notify, Holding
<1>2. CASE Message(found) = Heartbeat
  <2>1. SubSeq(Heartbeat, 1, 2) = Heartbeat
    <3>1. Heartbeat \in Seq(Bytes) /\ Len(Heartbeat) = 2
      BY HeartbeatType, HeartbeatIs
    <3>2. PICK h : h = Heartbeat
      OBVIOUS
    <3>3. SubSeq(h, 1, 2) = h
      BY <3>1, <3>2
    <3> QED BY <3>2, <3>3
  <2> QED BY <1>2, <2>1 DEF Notify
<1>3. CASE Here >= 1 /\ Message(found) = Push[Here] /\ LastIndex < Here
  <2>1. delivered' = delivered \/ delivered' = Append(delivered, Push[Here])
    BY <1>3 DEF Notify
  <2>2. PICK i : i = Here
    OBVIOUS
  <2>3. i \in 1 .. Len(Push) /\ i <= published
    BY <1>1, <1>3, <2>2, StreamType DEF OrderOK
  <2> QED BY <1>3, <2>1, <2>2, <2>3 DEF Delivers
<1> QED BY <1>1, <1>2, <1>3 DEF HandoverOK

LEMMA NotifyKeepsFeed ==
  ASSUME ServiceInv, FeedInv, Notify
  PROVE  FeedInv'
<1>. USE DEF server, client, receive, output, reqVars
<1>1. /\ UNCHANGED <<published, sent, wire, link, lastPushTime, stored, pushDataBuffer, found,
                     faults>>
      /\ Holding /\ Holding' /\ pc = "call" /\ pc' = "notify"
  BY DEF Notify, Holding
<1>2. ResumeOK'
  BY <1>1, ResumeKept DEF FeedInv, Saving
<1> SUFFICES ASSUME Framed PROVE (BacklogOK /\ HandoverOK /\ OrderOK /\ StoreOK)'
  BY <1>1, <1>2 DEF FeedInv, Framed
<1>3. BacklogOK /\ HandoverOK /\ OrderOK /\ StoreOK /\ ResumeOK
  BY DEF FeedInv
<1>4. Here' = Here /\ Rest' = Rest
  BY <1>1 DEF Here, Rest, Stream
<1>5. BacklogOK'
  <2>1. Framing(PushProtocol, Rest, Here, sent)' <=> Framing(PushProtocol, Rest, Here, sent)
    BY <1>1, <1>4
  <2> QED BY <1>1, <1>3, <2>1 DEF BacklogOK, Linked
<1>6. HandoverOK'
  BY <1>1, <1>3 DEF HandoverOK
<1>7. OrderOK'
  <2>1. CASE delivered' = delivered
    BY <1>1, <1>3, <1>4, <2>1 DEF OrderOK, LastIndex, PushIndex
  <2>2. ASSUME NEW i, Delivers(i) PROVE OrderOK'
    <3>1. /\ delivered' = Append(delivered, Push[i]) /\ i \in 1 .. Len(Push)
          /\ i <= published /\ i = Here
      BY <2>2 DEF Delivers
    <3>2. delivered' # <<>> /\ delivered'[Len(delivered')] = Push[i]
      <4>1. delivered \in Seq(Seq(Bytes))
        BY DEF ServiceInv, OutputOK
      <4>2. Push[i] \in Seq(Bytes)
        BY <3>1, MessageType
      <4> QED BY <3>1, <4>1, <4>2, LastOfAppend, Zenon
    <3>3. LastIndex' = i
      <4>1. LastIndex' = PushIndex(delivered'[Len(delivered')])
        BY <3>2 DEF LastIndex, PushIndex
      <4> QED BY <3>1, <3>2, <4>1, PushIndexOfPush
    <3> QED BY <1>1, <1>4, <3>1, <3>3 DEF OrderOK
  <2> QED BY <2>1, <2>2, NotifyDelivers
<1>8. StoreOK'
  <2>1. Index(stored)' = Index(stored) /\ (ResumeLost' <=> ResumeLost)
    BY <1>1 DEF ResumeLost
  <2>2. ~ ResumeLost => stored = lastPushTime
    BY <1>1, <1>3 DEF ResumeOK, ResumeLost, Saving
  <2>3. LastIndex' <= Here
    BY <1>4, <1>7 DEF OrderOK
  <2>. HIDE DEF LastIndex
  <2> QED BY <1>1, <1>3, <2>1, <2>2, <2>3 DEF StoreOK, Here
<1> QED BY <1>5, <1>6, <1>7, <1>8

(* The message is taken off with its separator.                            *)
LEMMA ConsumeKeepsFeed ==
  ASSUME ServiceInv, FeedInv, Consume
  PROVE  FeedInv'
<1>. USE DEF server, client, receive, output, reqVars
<1>1. /\ pc = "notify" /\ pc' = "idle"
      /\ UNCHANGED <<published, sent, wire, link, lastPushTime, stored, delivered, faults>>
  BY DEF Consume
<1>0. ResumeOK' /\ Holding /\ ~ Holding'
  BY <1>1, ResumeKept DEF FeedInv, Saving, Holding
<1> SUFFICES ASSUME Framed PROVE (BacklogOK /\ HandoverOK /\ OrderOK /\ StoreOK)'
  BY <1>0, <1>1 DEF FeedInv, Framed
<1>2. BacklogOK /\ HandoverOK /\ OrderOK /\ StoreOK
  BY DEF FeedInv
<1>3. Here' = Here /\ LastIndex' = LastIndex /\ Linked' = Linked
  BY <1>1 DEF Here, LastIndex, PushIndex, Linked
<1>4. PICK k \in Nat : k = found.length /\ k + 1 <= Len(pushDataBuffer)
  BY <1>0, <1>2, StreamType DEF HandoverOK
<1>5. PICK n \in Nat : n = Len(pushDataBuffer) /\ n = pushDataBufferUsed
  BY <1>0, StreamType
<1>6. found.start = 0 /\ pushDataBuffer \in Seq(Bytes) /\ wire \in Seq(Bytes)
  BY <1>0, <1>2, StreamType DEF HandoverOK
<1>7. pushDataBuffer' = Remains(pushDataBuffer, k, NUL)
  <2>1. Terminated(found) = [p \in 1 .. n |-> IF p = k + 1 THEN NUL ELSE pushDataBuffer[p]]
    BY <1>4, <1>5, <1>6 DEF Terminated
  <2>2. pushDataBuffer' = IF n - (k + 1) > 0 THEN SubSeq(Terminated(found), k + 2, n) ELSE <<>>
    BY <1>4, <1>5, <1>6 DEF Consume, Left
  <2> QED BY <1>5, <2>1, <2>2, Zenon DEF Remains
<1>8. pushDataBuffer' \o wire = SubSeq(Stream, k + 2, Len(Stream))
  <2>1. PICK t \in Seq(Bytes) : t = pushDataBuffer
    BY <1>6
  <2>2. PICK u \in Seq(Bytes) : u = wire
    BY <1>6
  <2>3. k + 1 <= Len(t)
    BY <1>4, <2>1
  <2>4. Remains(t, k, NUL) \o u = SubSeq(t \o u, k + 2, Len(t \o u))
    BY <2>3, MessageComesOff
  <2> QED BY <1>7, <2>1, <2>2, <2>4, Zenon DEF Stream
<1>9. Rest' = Rest
  BY <1>0, <1>1, <1>4, <1>8 DEF Rest, Stream
<1>10. BacklogOK'
  <2> SUFFICES ASSUME Linked PROVE Framing(PushProtocol, Rest, Here, sent)' /\ sent' <= published'
    BY <1>3 DEF BacklogOK
  <2>1. Framing(PushProtocol, Rest, Here, sent) /\ sent <= published
    BY <1>2 DEF BacklogOK
  <2> QED BY <1>1, <1>3, <1>9, <2>1
<1>11. HandoverOK' /\ OrderOK' /\ StoreOK'
  BY <1>0, <1>1, <1>2, <1>3 DEF HandoverOK, OrderOK, StoreOK, ResumeLost
<1> QED BY <1>10, <1>11

LEMMA PingKeepsFeed ==
  ASSUME ServiceInv, FeedInv, sendPing
  PROVE  FeedInv'
<1>. USE DEF server, client, receive, output, reqVars
<1>0. published \in Nat /\ sent \in 0 .. Len(Push)
  BY StreamType
<1>1. ASSUME NEW now \in Clocks, NotPingTime(now) \/ PingFailed(now) PROVE FeedInv'
  <2>1. /\ Unmoved /\ UNCHANGED <<published, sent, wire, link>>
        /\ pc = "ping" /\ pc' \in {"idle", "pingcb"}
    BY <1>1 DEF NotPingTime, PingFailed, Unmoved
  <2>2. Linked' = Linked
    BY <2>1 DEF Linked
  <2> QED BY <1>0, <2>1, <2>2, NothingMoves DEF Holding
<1>2. ASSUME NEW now \in Clocks, Pinged(now) PROVE FeedInv'
  <2>1. /\ Unmoved /\ UNCHANGED <<published, sent, link>>
        /\ pc = "ping" /\ pc' = "idle" /\ Linked
        /\ wire' = wire \/ wire' = wire \o Append(Heartbeat, Separator)
    BY <1>2 DEF Pinged, Unmoved, Linked
  <2>2. Linked' = Linked
    BY <2>1 DEF Linked
  <2>3. CASE wire' = wire
    BY <1>0, <2>1, <2>2, <2>3, NothingMoves DEF Holding
  <2>4. CASE wire' = wire \o Append(Heartbeat, Separator) /\ Framed
    <3>1. sent' <= published
      BY <2>1, <2>4 DEF FeedInv, BacklogOK
    <3> QED BY <1>0, <2>1, <2>4, <3>1, WriteKeepsFeed DEF Holding
  <2>5. CASE ~ Framed
    BY <2>1, <2>5, ResumeKept DEF FeedInv, Framed, Unmoved, Saving
  <2> QED BY <2>1, <2>3, <2>4, <2>5
<1>3. CASE StopAfterPing
  <2>1. /\ Unmoved /\ UNCHANGED published /\ ~ Linked' /\ pc = "pingcb" /\ pc' = "idle"
    BY <1>3 DEF StopAfterPing, Disconnect, Linked, Unmoved
  <2> QED BY <1>0, <2>1, NothingMoves DEF Holding
<1> QED BY <1>1, <1>2, <1>3 DEF sendPing

(* The device starts again from the state file, or from none, and then the *)
(* callback has seen nothing since.                                        *)
LEMMA PowerLossKeepsFeed ==
  ASSUME ServiceInv, FeedInv, PowerLoss
  PROVE  FeedInv'
<1>1. /\ link' = "none" /\ pc' = "idle" /\ lastPushTime' \in Loaded(stored)
      /\ delivered' = IF ResumeLost THEN <<>> ELSE delivered
      /\ UNCHANGED <<published, stored, faults>>
  BY DEF PowerLoss, Disconnect
<1>2. ResumeOK' /\ ~ Holding' /\ ~ Linked'
  BY <1>1 DEF ResumeOK, Loaded, Holding, Linked
<1> SUFFICES ASSUME Framed PROVE (OrderOK /\ StoreOK)'
  BY <1>1, <1>2 DEF FeedInv, Framed, BacklogOK, HandoverOK
<1>3. StoreOK /\ published \in Nat
  BY StreamType DEF FeedInv
<1>4. Here' = Index(stored) \/ Here' = 0
  BY <1>1, IndexOfTime DEF Here, Loaded
<1>5. (ResumeLost' <=> ResumeLost) /\ Index(stored)' = Index(stored) /\ Index(stored) \in Nat
  BY <1>1, StreamType DEF ResumeLost
<1>6. CASE ResumeLost
  <2>1. LastIndex' = 0
    BY <1>1, <1>6 DEF LastIndex
  <2>. HIDE DEF LastIndex, Here
  <2> QED BY <1>1, <1>3, <1>4, <1>5, <1>6, <2>1 DEF OrderOK, StoreOK
<1>7. CASE ~ ResumeLost
  <2>1. LastIndex' = LastIndex
    BY <1>1, <1>7 DEF LastIndex, PushIndex
  <2>2. Here' = Index(stored)
    BY <1>1, <1>7 DEF Here, Loaded, ResumeLost
  <2>. HIDE DEF LastIndex, Here
  <2> QED BY <1>1, <1>3, <1>5, <1>7, <2>1, <2>2 DEF OrderOK, StoreOK
<1> QED BY <1>6, <1>7

LEMMA FeedKept == ServiceInv /\ FeedInv /\ [Next]_vars => FeedInv'
<1>. SUFFICES ASSUME ServiceInv, FeedInv, [Next]_vars PROVE FeedInv'
  OBVIOUS
<1>. USE DEF server, client, receive, output, reqVars
<1>0. published \in Nat
  BY StreamType
<1>1. ASSUME UNCHANGED <<server, client, receive, output, faults>> PROVE FeedInv'
  <2>1. Unmoved /\ UNCHANGED <<published, sent, wire, link, pc, found>>
    BY <1>1 DEF Unmoved
  <2>2. Linked' = Linked
    BY <2>1 DEF Linked
  <2> QED BY <1>0, <2>1, <2>2, NothingMoves
<1>2. ASSUME NEW r \in Requests, SendRequest(r) \/ RequestGoesOn(r) PROVE FeedInv'
  <2>1. UNCHANGED <<server, client, receive, output>>
    BY <1>2 DEF SendRequest, RequestGoesOn
  <2>2. faults' = faults
    BY <1>2 DEF SendRequest, RequestGoesOn, parseSendRequest, RequestStep, Connected, ConnectFails,
                buildRequestHeaders, Written, WriteFails, ClearBuffer, ReadResponse,
                CallbackReturns, ServerCloses
  <2> QED BY <1>1, <2>1, <2>2
<1>3. CASE UNCHANGED vars
  BY <1>1, <1>3 DEF vars
<1>4. CASE Process
  <2>1. /\ Unmoved /\ UNCHANGED <<published, sent, wire, link>>
        /\ ~ Holding /\ ~ Holding'
    BY <1>4 DEF Process, Unmoved, Holding
  <2>2. Linked' = Linked
    BY <2>1 DEF Linked
  <2> QED BY <1>0, <2>1, <2>2, NothingMoves
<1> QED
  BY <1>2, <1>3, <1>4, ServerKeepsFeed, ApplicationKeepsFeed, ReceiveKeepsFeed, SaveKeepsFeed,
     NotifyKeepsFeed, ConsumeKeepsFeed, PingKeepsFeed, PowerLossKeepsFeed DEF Next

LEMMA FeedInvariant == Spec => []FeedInv
BY FeedInit, FeedKept, ServiceInvariant, PTL DEF Spec

-----------------------------------------------------------------------------
(* The refinement.                                                         *)
Seen == IF Framed THEN [k \in 1 .. Len(delivered) |-> PushIndex(delivered[k])] ELSE <<>>

LEMMA SeenGrows ==
  ASSUME ServiceInv, Framed, NEW text, text \in Seq(Bytes), delivered' = Append(delivered, text),
         UNCHANGED faults
  PROVE  /\ Seen' = Append(Seen, PushIndex(text))
         /\ LastIndex = IF Seen = <<>> THEN 0 ELSE Seen[Len(Seen)]
<1>1. delivered \in Seq(Seq(Bytes)) /\ Len(delivered) \in Nat
  BY LenProperties DEF ServiceInv, OutputOK
<1>2. PICK n \in Nat : n = Len(delivered)
  BY <1>1
<1>3. /\ Len(delivered') = n + 1 /\ delivered'[n + 1] = text
      /\ \A k \in 1 .. n : delivered'[k] = delivered[k]
  BY <1>1, <1>2
<1>4. Seen = [k \in 1 .. n |-> PushIndex(delivered[k])]
  BY <1>2 DEF Seen
<1>5. Seen' = [k \in 1 .. n + 1 |-> PushIndex(delivered'[k])]
  BY <1>3 DEF Seen, Framed, PushIndex
<1>6. \A k \in 1 .. n : PushIndex(delivered[k]) \in Nat
  BY DEF PushIndex
<1>7. Seen \in Seq(Nat) /\ Len(Seen) = n
  BY <1>4, <1>6
<1>8. PICK x \in Nat : x = PushIndex(text)
  BY DEF PushIndex
<1>9. PICK a : a = Append(Seen, x)
  OBVIOUS
<1>. HIDE DEF Seen
<1>10. Seen' = Append(Seen, PushIndex(text))
  <2>1. /\ a \in Seq(Nat) /\ Len(a) = n + 1 /\ a[n + 1] = x
        /\ \A k \in 1 .. n : a[k] = Seen[k]
    BY <1>7, <1>9, AppendProperties
  <2>2. PICK d : d = delivered'
    OBVIOUS
  <2>3. PICK y : y = Seen'
    OBVIOUS
  <2>4. y \in Seq(Nat) /\ Len(y) = n + 1 /\ \A k \in 1 .. n + 1 : y[k] = PushIndex(delivered'[k])
    <3>1. y = [k \in 1 .. n + 1 |-> PushIndex(d[k])]
      BY <1>5, <2>2, <2>3
    <3>2. \A k \in 1 .. n + 1 : PushIndex(d[k]) \in Nat
      BY PushIndexType
    <3>3. n + 1 \in Nat
      OBVIOUS
    <3>4. y \in Seq(Nat) /\ Len(y) = n + 1
      BY <3>1, <3>2, <3>3, IsASeq
    <3> QED BY <2>2, <3>1, <3>4
  <2>5. ASSUME NEW k \in 1 .. Len(a) PROVE a[k] = y[k]
    <3>1. k \in 1 .. n + 1 /\ (k = n + 1 \/ k \in 1 .. n)
      BY <2>1
    <3> QED BY <1>3, <1>4, <1>8, <2>1, <2>4, <3>1
  <2>6. a = y
    BY <2>1, <2>4, <2>5, SeqEqual
  <2> QED BY <1>8, <1>9, <2>3, <2>6
<1>11. LastIndex = IF Seen = <<>> THEN 0 ELSE Seen[Len(Seen)]
  <2>1. CASE n = 0
    <3>1. delivered = <<>> /\ Seen = <<>>
      BY <1>1, <1>2, <1>7, <2>1, EmptySeq
    <3> QED BY <3>1 DEF LastIndex
  <2>2. CASE n > 0
    <3>1. delivered # <<>> /\ Seen # <<>> /\ n \in 1 .. n
      BY <1>1, <1>2, <1>7, <2>2
    <3> QED BY <1>2, <1>4, <1>7, <3>1 DEF LastIndex
  <2> QED BY <1>2, <2>1, <2>2
<1> QED BY <1>10, <1>11

Saved == Framed /\ ~ ResumeLost

LEMMA FeedStep ==
  ASSUME ServiceInv, FeedInv, [Next]_vars
  PROVE  \/ /\ published < Len(Push) /\ published' = published + 1 /\ Seen' = Seen
            /\ Saved' = Saved
         \/ published' = published /\ Seen' = Seen
         \/ published' = published /\ ~ Saved /\ Seen' = <<>> /\ Saved' = Saved
         \/ \E i \in LastIndex + 1 .. published :
              /\ published' = published /\ Seen' = Append(Seen, i) /\ Saved' = Saved
              /\ LastIndex = IF Seen = <<>> THEN 0 ELSE Seen[Len(Seen)]
<1>. USE DEF server, client, receive, output, reqVars
<1>1. CASE Notify
  <2>1. published' = published /\ UNCHANGED faults /\ Saved' = Saved
    BY <1>1 DEF Notify, Saved, ResumeLost, Framed
  <2>2. CASE ~ Framed
    BY <2>1, <2>2 DEF Seen, Framed
  <2>3. CASE delivered' = delivered
    BY <2>1, <2>3 DEF Seen, Framed, PushIndex
  <2>4. ASSUME NEW i, Framed, Delivers(i)
        PROVE  \E k \in LastIndex + 1 .. published :
                 /\ published' = published /\ Seen' = Append(Seen, k) /\ Saved' = Saved
                 /\ LastIndex = IF Seen = <<>> THEN 0 ELSE Seen[Len(Seen)]
    <3>1. /\ delivered' = Append(delivered, Push[i]) /\ i \in 1 .. Len(Push)
          /\ LastIndex < i /\ i <= published
      BY <2>4 DEF Delivers
    <3>2. Push[i] \in Seq(Bytes) /\ PushIndex(Push[i]) = i
      BY <3>1, MessageType, PushIndexOfPush
    <3>3. /\ Seen' = Append(Seen, PushIndex(Push[i]))
          /\ LastIndex = IF Seen = <<>> THEN 0 ELSE Seen[Len(Seen)]
      BY <2>1, <2>4, <3>1, <3>2, SeenGrows
    <3>4. PICK l \in Nat : l = LastIndex
      BY StreamType
    <3>5. i \in LastIndex + 1 .. published
      <4>1. l < i /\ i <= published /\ published \in Nat /\ i \in Nat
        BY <3>1, <3>4, StreamType
      <4>2. i \in l + 1 .. published
        BY <4>1
      <4> QED BY <3>4, <4>2
    <3> QED BY <2>1, <3>2, <3>3, <3>5
  <2> QED BY <1>1, <2>1, <2>2, <2>3, <2>4, NotifyDelivers
<1>2. CASE Publish
  BY <1>2 DEF Publish, Seen, Saved, ResumeLost, Framed, PushIndex
<1>3. CASE PowerLoss
  <2>1. /\ UNCHANGED <<published, stored, faults>>
        /\ delivered' = IF ResumeLost THEN <<>> ELSE delivered
    BY <1>3 DEF PowerLoss
  <2>2. Saved' = Saved /\ (Framed' <=> Framed)
    BY <2>1 DEF Saved, ResumeLost, Framed
  <2>3. CASE Framed /\ ResumeLost
    <3>1. delivered' = <<>>
      BY <2>1, <2>3
    <3>2. Seen' = [k \in 1 .. 0 |-> PushIndex(delivered'[k])]
      BY <2>2, <2>3, <3>1 DEF Seen, PushIndex
    <3>3. Seen' = <<>>
      BY <3>2
    <3> QED BY <2>1, <2>2, <2>3, <3>3 DEF Saved
  <2>4. CASE ~ Framed
    BY <2>1, <2>2, <2>4 DEF Seen
  <2>5. CASE Framed /\ ~ ResumeLost
    <3>1. delivered' = delivered
      BY <2>1, <2>5
    <3>2. PICK d : d = delivered
      OBVIOUS
    <3>3. Seen = [k \in 1 .. Len(d) |-> PushIndex(d[k])]
      BY <2>5, <3>2 DEF Seen
    <3>4. Seen' = [k \in 1 .. Len(d) |-> PushIndex(d[k])]
      BY <2>2, <2>5, <3>1, <3>2 DEF Seen, PushIndex
    <3> QED BY <2>1, <3>3, <3>4
  <2> QED BY <2>3, <2>4, <2>5
<1>4. CASE ~ Notify /\ ~ Publish /\ ~ PowerLoss
  <2>1. published' = published /\ delivered' = delivered /\ faults' = faults
    <3>1. CASE PushServer
      BY <1>4, <3>1 DEF PushServer, Transmit, PeerClose, PeerFail
    <3>2. CASE Application
      BY <3>2 DEF Application, parseSetPushCallback, parseStartPushService, StartConnected,
                  StartFailed, parseStopPushService
    <3>3. CASE Process \/ Consume \/ saveClientState
      BY <3>3 DEF Process, Consume, saveClientState, DeleteFile, WriteFile
    <3>4. CASE Receive
      BY <3>4 DEF Receive, RecvBytes, RecvNothing, RecvAgain, RecvError
    <3>5. CASE sendPing
      BY <3>5 DEF sendPing, NotPingTime, Pinged, PingFailed, StopAfterPing
    <3>6. ASSUME NEW r \in Requests, SendRequest(r) \/ RequestGoesOn(r)
          PROVE  published' = published /\ delivered' = delivered /\ faults' = faults
      BY <3>6 DEF SendRequest, RequestGoesOn, parseSendRequest, RequestStep, Connected,
                  ConnectFails, buildRequestHeaders, Written, WriteFails, ClearBuffer,
                  ReadResponse, CallbackReturns, ServerCloses
    <3>7. CASE UNCHANGED vars
      BY <3>7 DEF vars
    <3> QED BY <1>4, <3>1, <3>2, <3>3, <3>4, <3>5, <3>6, <3>7 DEF Next
  <2> QED BY <2>1 DEF Seen, Framed, PushIndex
<1> QED BY <1>1, <1>2, <1>3, <1>4

(* On the device too the callback gets whole pushes in the order of the    *)
(* server, each at most once: whatever the chunks, across stops and double *)
(* starts, with requests sent in between and from the callback, and for    *)
(* every size of the receive buffer; as long as no chunk ends between a    *)
(* message and its separator, no EAGAIN loses bytes and the service is not *)
(* started on a buffer that holds some.  So it is across a loss of power   *)
(* at any point but in a save, between the deletion of the state file and  *)
(* the last of its writes, and with a file system that fails no call of a  *)
(* save or a load; after any other the pushes come again, in order.        *)
THEOREM RtosImplementsFeed == Spec => ImplementsFeed
<1>1. Init => Feed!Init
  <2> SUFFICES ASSUME Init PROVE Feed!Init
    OBVIOUS
  <2>1. published = 0 /\ Seen = <<>> /\ Saved \in BOOLEAN
    <3>1. delivered = <<>>
      BY DEF Init
    <3>2. Seen = <<>>
      BY <3>1 DEF Seen
    <3> QED BY <3>2 DEF Init, Saved
  <2> QED BY <2>1, Zenon DEF Feed!Init, Seen, Saved
<1>2. ServiceInv /\ FeedInv /\ [Next]_vars => [Feed!Next]_(Feed!vars)
  <2> SUFFICES ASSUME ServiceInv, FeedInv, [Next]_vars PROVE [Feed!Next]_(Feed!vars)
    OBVIOUS
  <2>. USE DEF Feed!Next, Feed!vars, Feed!Publish, Feed!Deliver, Feed!Save, Feed!Forget,
               Feed!LastDelivered, Seen, Saved
  <2>1. CASE /\ published < Len(Push) /\ published' = published + 1 /\ Seen' = Seen
             /\ Saved' = Saved
    BY <2>1, Zenon
  <2>2. CASE published' = published /\ Seen' = Seen
    <3>1. Saved' = Saved \/ Saved' = ~ Saved
      OBVIOUS
    <3>2. CASE Saved' = Saved
      BY <2>2, <3>2, Zenon
    <3>3. CASE Saved' = ~ Saved
      BY <2>2, <3>3, Zenon
    <3> QED BY <3>1, <3>2, <3>3
  <2>3. CASE published' = published /\ ~ Saved /\ Seen' = <<>> /\ Saved' = Saved
    BY <2>3, Zenon
  <2>4. ASSUME NEW i, i \in LastIndex + 1 .. published, published' = published,
               Seen' = Append(Seen, i), Saved' = Saved,
               LastIndex = IF Seen = <<>> THEN 0 ELSE Seen[Len(Seen)]
        PROVE  [Feed!Next]_(Feed!vars)
    BY <2>4, Zenon
  <2>. HIDE DEF Seen, Saved
  <2> QED BY <2>1, <2>2, <2>3, <2>4, FeedStep
<1> QED BY <1>1, <1>2, ServiceInvariant, FeedInvariant, PTL DEF Spec, ImplementsFeed, Feed!Spec

=============================================================================

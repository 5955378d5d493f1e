------------------------------ MODULE RtosPush ------------------------------
(***************************************************************************)
(* The push service of the RTOS SDK (rtos/push.c) on the CC3200 sockets    *)
(* and clock (cc3200/src/socket.c, cc3200/src/utils.c), composed with the  *)
(* requests of RtosRequest: one device, on which the push task runs the    *)
(* push loop and every task sends requests.  One call of                   *)
(* parseProcessNextPushNotification is several steps; pc says where it is: *)
(* reading, in saveClientState (DeleteFile, WriteFile), about to call the  *)
(* callback (Notify), or back from it (Consume).  The push callback runs   *)
(* where pc is "notify" or "pingcb", and can send requests and stop or     *)
(* start the service; that it calls parseProcessNextPushNotification or    *)
(* sets what the state file holds is not modelled.                         *)
(***************************************************************************)
EXTENDS RtosRequest, SimpleJson

Heartbeat == <<"{", "}">>
Separator == "newline"

CONSTANTS
  PushTask,         \* the task that runs the push loop
  Bytes,            \* the bytes a push can be written with
  Push,             \* the pushes: JSON texts in the order of their times
  Times,            \* Times[i]: the byte that stands for the time of Push[i]
  Hello,            \* the text parseStartPushService sends
  RECEIVE_BUFFER_SIZE,
  PUSH_KEEP_ALIVE,
  MaxFailedPings,   \* 20 in sendPing
  Clocks,           \* times of day a call of sendPing can be made at
  MaxInFlight,      \* bound on the bytes sent by the server and not consumed
  MaxDelivered,     \* bound on the callbacks before another start
  None,             \* no push time: in memory the blank string
  Torn              \* no state file, or one without the field lastPushTime

(* More of the environment:                                                *)
(*                                                                         *)
(* "push"   the server has pushes to send                                  *)
(* "split"  a chunk may end between a message and its separator            *)
(* "stale"  the service is started again while the buffer holds bytes      *)
(* "twice"  the service is started although it is started                  *)
(* "again"  recv says EAGAIN after it gave bytes                           *)
(* "fail"   the push connection cannot be made, or breaks                  *)
(* "power"  power is lost                                                  *)
(* "flash"  a call of the file system of the device fails                  *)
AllFaults ==
  RequestFaults \cup {"push", "split", "stale", "twice", "again", "fail", "power", "flash"}

TimeOfDay == [hour : 0 .. 23, min : 0 .. 59, sec : 0 .. 59]
Midnight  == [hour |-> 0, min |-> 0, sec |-> 0]

ASSUME RtosPushAssumption ==
  /\ PushTask \in Tasks
  /\ {"{", "}", NUL, Separator} \subseteq Bytes
  /\ None \notin Bytes /\ Torn \notin Bytes \cup {None}
  /\ Push \in Seq(Seq(Bytes)) /\ Times \in Seq(Bytes) /\ Hello \in Seq(Bytes)
  /\ Len(Times) = Len(Push)
  /\ RECEIVE_BUFFER_SIZE \in Nat \ {0}
  /\ PUSH_KEEP_ALIVE \in Nat /\ MaxFailedPings \in Nat
  /\ Clocks \subseteq TimeOfDay
  /\ MaxInFlight \in Nat /\ MaxDelivered \in Nat

ASSUME RtosPushEnvironments == Environments \subseteq SUBSET AllFaults

VARIABLES
  \* the push server and the connection
  published,     \* how many pushes the server has accepted
  sent,          \* index of the last push written to this connection
  wire,          \* bytes the push socket holds
  link,          \* "none", "up", "closed" by the server, or "broken"
  \* ParseClientInternal, and the field lastPushTime of the state file
  socketHandle, callback, nFailedPing, lastPushTime, stored,
  lastDateTime,  \* file scope of utils.c
  \* file scope of push.c
  pushDataBuffer, pushDataBufferUsed,
  \* the push task
  pc,            \* "idle", "read", "delete", "write", "call", "notify",
                 \* "ping" or "pingcb"
  found,         \* start and length of the message being processed
  delivered,     \* the texts the callback was given, in order, since the
                 \* resume point was last lost
  told           \* the callback was given an error since the last start

server  == <<published, sent, wire, link>>
client  == <<socketHandle, callback, nFailedPing, lastPushTime, stored, lastDateTime>>
receive == <<pushDataBuffer, pushDataBufferUsed, pc, found>>
output  == <<delivered, told>>
reqVars == <<driver, dataBuffer, requests, faults>>
vars    == <<server, client, receive, output, reqVars>>

Nothing == [start |-> -1, length |-> -1]

(* The time of a message, as in simpleJsonProcessor(message, "time", ...). *)
TimeOf(text) ==
  LET lex == Lexed(text, 0, Len(text))
      p   == First({q \in 0 .. Len(text) - 1 :
                      /\ \E i \in 1 .. Len(Times) : text[q + 1] = Times[i]
                      /\ lex[q].level <= 1})
  IN  IF p = -1 THEN None ELSE text[p + 1]

Index(time) ==
  IF \E i \in 1 .. Len(Times) : Times[i] = time
  THEN CHOOSE i \in 1 .. Len(Times) : Times[i] = time
  ELSE 0

Message(f) == SubSeq(pushDataBuffer, f.start + 1, f.start + f.length)

TypeOK ==
  /\ RequestTypeOK
  /\ published \in 0 .. Len(Push) /\ sent \in 0 .. Len(Push)
  /\ wire \in Seq(Bytes) /\ link \in {"none", "up", "closed", "broken"}
  /\ socketHandle \in Handles \cup {NoSocket} /\ callback \in BOOLEAN
  /\ nFailedPing \in 0 .. MaxFailedPings + 1
  /\ lastPushTime \in Bytes \cup {None} /\ stored \in Bytes \cup {None, Torn}
  /\ lastDateTime \in TimeOfDay
  /\ pushDataBuffer \in Seq(Bytes)
  /\ pushDataBufferUsed \in -1 .. RECEIVE_BUFFER_SIZE
  /\ pc \in {"idle", "read", "delete", "write", "call", "notify", "ping", "pingcb"}
  /\ found \in [start : Int, length : Int]
  /\ delivered \in Seq(Seq(Bytes)) /\ told \in BOOLEAN

Init ==
  /\ RequestInit
  /\ published = 0 /\ sent = 0 /\ wire = <<>> /\ link = "none"
  /\ socketHandle = NoSocket /\ callback = FALSE /\ nFailedPing = 0
  /\ lastPushTime = None /\ stored = None /\ lastDateTime = Midnight
  /\ pushDataBuffer = <<>> /\ pushDataBufferUsed = 0
  /\ pc = "idle" /\ found = Nothing
  /\ delivered = <<>> /\ told = FALSE

-----------------------------------------------------------------------------
(* The push server.                                                        *)

Publish ==
  /\ "push" \in faults
  /\ published < Len(Push)
  /\ published' = published + 1
  /\ UNCHANGED <<sent, wire, link, client, receive, output, reqVars>>

Fits(text) == Len(wire) + Len(pushDataBuffer) + Len(text) + 1 <= MaxInFlight

Transmit ==
  /\ link = "up" /\ sent < published /\ Fits(Push[sent + 1])
  /\ wire' = wire \o Append(Push[sent + 1], Separator)
  /\ sent' = sent + 1
  /\ UNCHANGED <<published, link, client, receive, output, reqVars>>

PeerClose ==
  /\ "close" \in faults
  /\ link = "up" /\ link' = "closed"
  /\ UNCHANGED <<published, sent, wire, client, receive, output, reqVars>>

PeerFail ==
  /\ "fail" \in faults
  /\ link \in {"up", "closed"} /\ link' = "broken"
  /\ wire' = <<>>
  /\ UNCHANGED <<published, sent, client, receive, output, reqVars>>

-----------------------------------------------------------------------------
(* Calls of the application, on the push task: between two calls of        *)
(* parseProcessNextPushNotification, or in the callback.                   *)
InApplication == pc \in {"idle", "notify", "pingcb"} /\ Idle(PushTask)

parseSetPushCallback(set) ==
  /\ InApplication
  /\ callback' = set
  /\ UNCHANGED <<server, socketHandle, nFailedPing, lastPushTime, stored, lastDateTime,
                 receive, output, reqVars>>

(* The hello is written to the receive buffer, over what it holds.         *)
WithHello ==
  [p \in 1 .. Len(pushDataBuffer) |->
     IF p <= Len(Hello) THEN Hello[p]
     ELSE IF p = Len(Hello) + 1 THEN NUL ELSE pushDataBuffer[p]]

(* "last" in the hello: the server goes on behind that push.               *)
FromTheStart == 0
ResumeAfter == Index(lastPushTime)

MayStart ==
  /\ InApplication /\ Len(delivered) < MaxDelivered
  /\ socketHandle = NoSocket \/ "twice" \in faults
  /\ pushDataBufferUsed = 0 \/ "stale" \in faults

(* Connected, and the hello sent: the server resumes after the last push   *)
(* time.  A socket the service already had is forgotten.                   *)
StartConnected ==
  /\ MayStart
  /\ \E h \in Handles : socketSslConnect(h) /\ socketHandle' = h
  /\ pushDataBuffer' = WithHello
  /\ link' = "up" /\ wire' = <<>> /\ sent' = ResumeAfter /\ told' = FALSE
  /\ UNCHANGED <<published, callback, nFailedPing, lastPushTime, stored, lastDateTime,
                 pushDataBufferUsed, pc, found, delivered, dataBuffer, requests, faults>>

(* No connection, or one on which the hello cannot be sent and which is    *)
(* closed again: the callback is given the error.                          *)
StartFailed ==
  /\ "fail" \in faults /\ MayStart
  /\ pushDataBuffer' \in {pushDataBuffer, WithHello}
  /\ told' = (told \/ callback)
  /\ UNCHANGED <<server, client, pushDataBufferUsed, pc, found, delivered, reqVars>>

parseStartPushService == StartConnected \/ StartFailed

(* The connection is no longer looked at.                                  *)
Disconnect ==
  /\ socketHandle' = NoSocket
  /\ link' = "none" /\ wire' = <<>> /\ sent' = 0

parseStopPushService ==
  /\ InApplication
  /\ socketClose(socketHandle)
  /\ Disconnect
  /\ nFailedPing' = 0 /\ callback' = FALSE
  /\ UNCHANGED <<published, lastPushTime, stored, lastDateTime, receive, output,
                 dataBuffer, requests, faults>>

-----------------------------------------------------------------------------
(* parseProcessNextPushNotification, and the body of parseRunPushLoop.     *)

(* An int compared with a size_t: a negative one is not less.              *)
RoomInBuffer == pushDataBufferUsed >= 0 /\ pushDataBufferUsed < RECEIVE_BUFFER_SIZE

(* Nothing happens on socket 0.                                            *)
Process ==
  /\ pc = "idle" /\ Idle(PushTask)
  /\ socketHandle > 0
  /\ pc' = IF RoomInBuffer THEN "read" ELSE "ping"
  /\ UNCHANGED <<server, client, pushDataBuffer, pushDataBufferUsed, found, output, reqVars>>

(* A Room that leaves nothing for the NUL.                                 *)
WholeRoom == RECEIVE_BUFFER_SIZE - pushDataBufferUsed

(* socketRead keeps one byte for a NUL.                                    *)
Room == RECEIVE_BUFFER_SIZE - pushDataBufferUsed - 1

(* The read loop ends without a message.  A full buffer is emptied: but    *)
(* socketRead never fills it.                                              *)
NoMessage ==
  LET full == pushDataBufferUsed = RECEIVE_BUFFER_SIZE
  IN  /\ pushDataBuffer' = IF full THEN <<>> ELSE pushDataBuffer
      /\ pushDataBufferUsed' = IF full THEN 0 ELSE pushDataBufferUsed
      /\ pc' = IF full THEN "idle" ELSE "ping"
      /\ UNCHANGED found

(* The time of a message, if it has one, goes to memory and is to be saved *)
(* before the callback is called.                                          *)
Take(text) ==
  \E time \in {TimeOf(text)} :
    \/ time = None /\ pc' = "call" /\ UNCHANGED lastPushTime
    \/ time # None /\ pc' = "delete" /\ lastPushTime' = time

(* n bytes, and nothing more for 10 ms or no more room.  On a connection   *)
(* that the server closed, socketRead returns only when there is no more   *)
(* room.  A complete message is taken; with an incomplete one the loop     *)
(* goes on.                                                                *)
RecvBytes(n) ==
  /\ pc = "read" /\ n <= Room
  /\ link = "up" \/ (link = "closed" /\ n = Room)
  /\ n < Len(wire) /\ wire[n + 1] = Separator => "split" \in faults
  /\ wire' = SubSeq(wire, n + 1, Len(wire))
  /\ pushDataBuffer' = pushDataBuffer \o SubSeq(wire, 1, n)
  /\ pushDataBufferUsed' = pushDataBufferUsed + n
  /\ \E json \in {getPushJson(pushDataBuffer', Len(pushDataBuffer'))} :
       \/ json.length = -1 /\ UNCHANGED <<pc, found, lastPushTime>>
       \/ /\ json.length > 0 /\ found' = json
          /\ Take(SubSeq(pushDataBuffer', json.start + 1, json.start + json.length))
  /\ UNCHANGED <<published, sent, link, socketHandle, callback, nFailedPing, stored,
                 lastDateTime, output, reqVars>>

(* Nothing for 3 seconds, or no room.                                      *)
RecvNothing ==
  /\ pc = "read"
  /\ Room = 0 \/ (link = "up" /\ wire = <<>>)
  /\ NoMessage
  /\ UNCHANGED <<server, client, output, reqVars>>

(* EAGAIN after some bytes: socketRead returns it, and the bytes are lost. *)
RecvAgain(n) ==
  /\ "again" \in faults
  /\ pc = "read" /\ n <= Room /\ link = "up"
  /\ wire' = SubSeq(wire, n + 1, Len(wire))
  /\ NoMessage
  /\ UNCHANGED <<published, sent, link, client, output, reqVars>>

(* Any other error.                                                        *)
RecvError ==
  /\ pc = "read" /\ link = "broken"
  /\ NoMessage
  /\ UNCHANGED <<server, client, output, reqVars>>

(* saveClientState.  The file is deleted and created: or the old one is    *)
(* kept and cannot be opened, or there is none afterwards.                 *)
DeleteFile ==
  /\ pc = "delete"
  /\ \/ stored' = Torn /\ pc' = "write"
     \/ "flash" \in faults /\ stored' \in {Torn, stored} /\ pc' = "call"
  /\ UNCHANGED <<server, socketHandle, callback, nFailedPing, lastPushTime, lastDateTime,
                 pushDataBuffer, pushDataBufferUsed, found, output, reqVars>>

(* It is written in three pieces, of which lastPushTime is the last: or    *)
(* one fails.  The status of the save is not looked at.                    *)
WriteFile ==
  /\ pc = "write" /\ pc' = "call"
  /\ stored' = lastPushTime \/ ("flash" \in faults /\ UNCHANGED stored)
  /\ UNCHANGED <<server, socketHandle, callback, nFailedPing, lastPushTime, lastDateTime,
                 pushDataBuffer, pushDataBufferUsed, found, output, reqVars>>

saveClientState == DeleteFile \/ WriteFile

(* A text beginning with "{}" is a heartbeat; the callback is called with  *)
(* anything else.                                                          *)
Notify ==
  /\ pc = "call" /\ pc' = "notify"
  /\ delivered' = IF SubSeq(Message(found), 1, 2) = Heartbeat \/ ~ callback
                  THEN delivered ELSE Append(delivered, Message(found))
  /\ UNCHANGED <<server, client, pushDataBuffer, pushDataBufferUsed, found, told, reqVars>>

(* Back from the callback: length + 1 bytes are taken off the buffer.      *)
Left(f) == pushDataBufferUsed - (f.length + 1)

Terminated(f) ==
  [p \in 1 .. Len(pushDataBuffer) |->
     IF p = f.start + f.length + 1 THEN NUL ELSE pushDataBuffer[p]]

Consume ==
  LET left == Left(found)
  IN  /\ pc = "notify" /\ Idle(PushTask)
      /\ pushDataBufferUsed' = left
      /\ pushDataBuffer' = IF left > 0
                           THEN SubSeq(Terminated(found), found.length + 2, pushDataBufferUsed)
                           ELSE <<>>
      /\ pc' = "idle" /\ found' = Nothing
      /\ UNCHANGED <<server, client, output, reqVars>>

-----------------------------------------------------------------------------
(* sendPing.                                                               *)

(* utils.c, with the precedence of C: ?: binds weaker than -, so that      *)
(* minutes and hours count 1 if they differ.                               *)
timeDiffInSec(dt1, dt2) ==
  LET sec == dt2.sec - dt1.sec
      min == IF dt2.min - dt1.min - (IF sec < 0 THEN 1 ELSE 0) # 0 THEN 1 ELSE 0
      hr  == IF dt2.hour - dt1.hour # 0 THEN 1 ELSE 0
  IN  (IF sec < 0 THEN 60 + sec ELSE sec) + min + hr

isPingTime(now) == timeDiffInSec(now, lastDateTime) > PUSH_KEEP_ALIVE

NotPingTime(now) ==
  /\ pc = "ping" /\ ~ isPingTime(now)
  /\ pc' = "idle"
  /\ UNCHANGED <<server, client, pushDataBuffer, pushDataBufferUsed, found, output, reqVars>>

(* The server answers with a heartbeat of its own.                         *)
Pinged(now) ==
  /\ pc = "ping" /\ isPingTime(now) /\ link \in {"up", "closed"}
  /\ Fits(Heartbeat)
  /\ wire' = IF link = "up" THEN wire \o Append(Heartbeat, Separator) ELSE wire
  /\ nFailedPing' = 0 /\ lastDateTime' = now
  /\ pc' = "idle"
  /\ UNCHANGED <<published, sent, link, socketHandle, callback, lastPushTime, stored,
                 pushDataBuffer, pushDataBufferUsed, found, output, reqVars>>

(* Pings that fail for ever.                                               *)
PingFailsOn(now) ==
  /\ pc = "ping" /\ isPingTime(now) /\ link = "broken"
  /\ nFailedPing' = nFailedPing + 1 /\ pc' = "idle"
  /\ UNCHANGED <<server, socketHandle, callback, lastPushTime, stored, lastDateTime,
                 pushDataBuffer, pushDataBufferUsed, found, output, reqVars>>

(* send fails: counted, or once too often.                                 *)
PingFailed(now) ==
  /\ pc = "ping" /\ isPingTime(now) /\ link = "broken"
  /\ \/ /\ nFailedPing <= MaxFailedPings
        /\ nFailedPing' = nFailedPing + 1 /\ pc' = "idle"
        /\ UNCHANGED told
     \/ /\ nFailedPing > MaxFailedPings
        /\ told' = (told \/ callback) /\ pc' = "pingcb"
        /\ UNCHANGED nFailedPing
  /\ UNCHANGED <<server, socketHandle, callback, lastPushTime, stored, lastDateTime,
                 pushDataBuffer, pushDataBufferUsed, found, delivered, reqVars>>

(* Back from the callback: the socket the service has now is closed.       *)
StopAfterPing ==
  /\ pc = "pingcb" /\ Idle(PushTask)
  /\ socketClose(socketHandle)
  /\ Disconnect
  /\ pc' = "idle"
  /\ UNCHANGED <<published, callback, nFailedPing, lastPushTime, stored, lastDateTime,
                 pushDataBuffer, pushDataBufferUsed, found, output, dataBuffer, requests,
                 faults>>

sendPing == \/ \E now \in Clocks : NotPingTime(now) \/ Pinged(now) \/ PingFailed(now)
            \/ StopAfterPing

-----------------------------------------------------------------------------
(* What loadClientState makes of the field: blank if it is not there or    *)
(* the file cannot be opened and read up to it.                            *)
Loaded(file) == {IF file = Torn THEN None ELSE file} \cup (IF "flash" \in faults THEN {None} ELSE {})

(* After a loss of power the service goes on from a time that was saved,   *)
(* unless power is lost in a save, or the file system may have failed one  *)
(* or fails the load.                                                      *)
ResumeLost == stored = Torn \/ "flash" \in faults

(* Power is lost, at any point, and comes back: the driver has no sockets, *)
(* and the last push time is what can be read of the state file.           *)
PowerLoss ==
  /\ "power" \in faults
  /\ open' = {} /\ closed' = {} /\ asked' = [h \in Handles |-> Empty]
  /\ dataBuffer' = Empty
  /\ stage' = [r \in Requests |-> IF r \in Active THEN "done" ELSE stage[r]]
  /\ handle' = [r \in Requests |-> NoSocket]
  /\ Disconnect
  /\ callback' = FALSE /\ nFailedPing' = 0 /\ lastPushTime' \in Loaded(stored)
  /\ lastDateTime' = Midnight
  /\ pushDataBuffer' = <<>> /\ pushDataBufferUsed' = 0
  /\ pc' = "idle" /\ found' = Nothing /\ told' = FALSE
  /\ delivered' = IF ResumeLost THEN <<>> ELSE delivered
  /\ UNCHANGED <<published, stored, by, caller, result, faults>>

(* A task of the device makes or goes on with a request.                   *)
SendRequest(r) ==
  /\ \E t \in Tasks, c \in Requests \cup {Nobody} :
       /\ t = PushTask => pc \in {"idle", "notify", "pingcb"}
       /\ parseSendRequest(t, r, c)
  /\ UNCHANGED <<server, client, receive, output>>

RequestGoesOn(r) ==
  /\ RequestStep(r) \/ ServerCloses(r)
  /\ UNCHANGED <<server, client, receive, output>>

PushServer == Publish \/ Transmit \/ PeerClose \/ PeerFail

Application ==
  \/ \E set \in BOOLEAN : parseSetPushCallback(set)
  \/ parseStartPushService \/ parseStopPushService

Receive ==
  \/ \E n \in 1 .. Len(wire) : RecvBytes(n) \/ RecvAgain(n)
  \/ RecvNothing \/ RecvError

Next ==
  \/ PushServer \/ Application \/ Process \/ Receive \/ saveClientState \/ Notify \/ Consume
  \/ sendPing \/ PowerLoss
  \/ \E r \in Requests : SendRequest(r) \/ RequestGoesOn(r)

Spec == Init /\ [][Next]_vars

-----------------------------------------------------------------------------
(* The socket of the push service is open and no request is using it, and  *)
(* requests use open sockets of their own: also when the callback stops    *)
(* the service or starts it again, between a failed ping and the close     *)
(* that follows it.                                                        *)
SocketsOwned ==
  /\ RequestsOwnSockets
  /\ socketHandle # NoSocket =>
       socketHandle \in open /\ \A r \in InUse : handle[r] # socketHandle

(* No socket is lost: as long as requests are sent and the service is not  *)
(* started twice, every open socket is used by the service or by a request *)
(* in progress.                                                            *)
NoSocketLost ==
  faults \cap {"unsent", "twice"} = {} =>
    open \subseteq {socketHandle} \cup {handle[r] : r \in InUse}

(* A message was found and its bytes are still in the buffer.              *)
Holding == pc \in {"delete", "write", "call", "notify"}

(* pushDataBufferUsed stays in step with the buffer, whatever the callback *)
(* does between the message and the removal of its bytes; the NUL that     *)
(* socketRead writes behind the bytes it received is inside the buffer.    *)
BufferConsistent ==
  /\ \/ pushDataBufferUsed = Len(pushDataBuffer)
     \/ pushDataBufferUsed = -1 /\ pushDataBuffer = <<>>
  /\ pushDataBufferUsed < RECEIVE_BUFFER_SIZE
  /\ Holding => /\ found.start >= 0 /\ found.length > 0
                /\ found.start + found.length <= pushDataBufferUsed

-----------------------------------------------------------------------------
(* Fairness.  A task goes on with the request it has begun: connecting,    *)
(* sending and reading have time limits.                                   *)
TaskFairness == \A r \in Requests : WF_vars(RequestGoesOn(r))

TaskSpec == Spec /\ TaskFairness

(* Every request ends in its callback, with or without a socket left for   *)
(* it, whatever the other tasks, the connections and the push service do:  *)
(* unless the server closes the connection.                                *)
RequestsEnd ==
  "close" \notin faults =>
    \A r \in Requests : stage[r] = "connect" ~> stage[r] = "done"

(* The push task runs parseRunPushLoop.                                    *)
LoopFairness ==
  /\ WF_vars(Process) /\ WF_vars(Receive) /\ WF_vars(saveClientState) /\ WF_vars(Notify)
  /\ WF_vars(Consume) /\ WF_vars(sendPing)

LoopSpec == Spec /\ LoopFairness

(* parse.h: the callback "will also be called in the case of an error      *)
(* during the processing of the notification".                             *)
ErrorReported ==
  (link = "broken" /\ callback) ~> (told \/ link # "broken" \/ ~ callback)

=============================================================================

------------------------------ MODULE UnixPush ------------------------------
(***************************************************************************)
(* The push service of the Unix SDK (unix/src/parse.c): the connection,    *)
(* the static receive buffer, the framing of the byte stream, the resume   *)
(* point (lastPushTime) in memory and in the local store, and the push     *)
(* loop.  The push server, the TCP/TLS connection and libcurl are external *)
(* and are modelled from how the code uses them.                           *)
(*                                                                         *)
(* One call of parseProcessNextPushNotification is several steps: Process  *)
(* enters it, each Recv... step is one iteration of its receive loop,      *)
(* StoreOpen and StoreWrite save the time of the message, and Notify is    *)
(* the callback and what follows it.  pc says where the call is.  The      *)
(* callback may set another callback and stop or start the service; that   *)
(* it calls parseProcessNextPushNotification is not modelled.              *)
(***************************************************************************)
EXTENDS SimpleJson

Heartbeat == <<"{", "}">>
Separator == "newline"

CONSTANTS
  Bytes,        \* the bytes a push can be written with
  Push,         \* the pushes: JSON texts in the order of their times
  Times,        \* Times[i]: the byte that stands for the time of Push[i]
  BufferSize,   \* sizeof(parse_push_message_buffer)
  MaxInFlight,  \* bound on the bytes sent by the server and not consumed
  MaxEchoes,    \* bound on the heartbeats the server has not answered
  MaxDelivered, \* bound on the callbacks before another start
  Environments, \* what the environment may do, see below
  None,         \* no push time (a NULL pointer, a missing key)
  Torn          \* an empty key file or one cut short; in memory, what the
                \* load makes of it: a text that is the time of no push

(* An environment is a set of things that may happen; a behaviour has one, *)
(* faults, from its beginning to its end.                                  *)
(*                                                                         *)
(* "split"  a chunk may end between a message and its separator            *)
(* "stale"  the service is started again while the buffer holds bytes of   *)
(*          the previous connection                                        *)
(* "restart" the process ends and starts again                             *)
(* "mute"   the application runs without a callback for a while            *)
(* "fail"   connecting fails or an established connection breaks           *)
(* "close"  the server closes the connection                               *)
(* "disk"   a key file cannot be opened, or not written in full            *)
(* "yun"    the application is the command parse_push (YunPush)             *)
AllFaults == {"split", "stale", "restart", "mute", "fail", "close", "disk", "yun"}

ASSUME PushAssumption ==
  /\ {"{", "}", NUL, Separator} \subseteq Bytes
  /\ None \notin Bytes /\ Torn \notin Bytes \cup {None}
  /\ Push \in Seq(Seq(Bytes)) /\ Times \in Seq(Bytes)
  /\ Len(Times) = Len(Push)

ASSUME SizeAssumption ==
  /\ BufferSize \in Nat \ {0}
  /\ MaxInFlight \in Nat /\ MaxEchoes \in Nat /\ MaxDelivered \in Nat
  /\ MaxInFlight <= BufferSize

ASSUME EnvironmentAssumption == Environments \subseteq SUBSET AllFaults

VARIABLES
  \* the server and the connection
  published,  \* how many pushes the server has accepted
  sent,       \* index of the last push written to this connection
  echoes,     \* heartbeats of the client that the server has not answered
  wire,       \* bytes the socket holds for the client
  conn,       \* "none", "up", "closed" by the server, or "failed"
  \* ParseClientInternal
  handle,     \* pushCurlHandle # NULL
  callback,   \* pushCallback # NULL
  lastPushTime,
  due,        \* now > lastHearbeat + PARSE_HEARTBIT_INTERVAL_SECONDS
  \* file scope of parse.c
  buffer,     \* the first bytes of parse_push_message_buffer
  size,       \* parse_push_message_size
  \* the local store
  stored,     \* what the file of key lastPushTime holds
  \* the application thread
  loop,       \* it is inside parseRunPushLoop
  pc,         \* "idle", "recv", "open", "write" or "notify"
  found,      \* start and length of the message being processed
  ret,        \* result of the last parseProcessNextPushNotification
  delivered,  \* the texts the callback was given, in order, since the
              \* resume point was last lost
  told,       \* the callback was given ECONNRESET since the last start
  faults      \* the environment

server  == <<published, sent, echoes, wire, conn>>
client  == <<handle, callback, lastPushTime, due, stored>>
receive == <<buffer, size, pc, found, ret>>
output  == <<delivered, told>>
vars    == <<server, client, receive, loop, output, faults>>

-----------------------------------------------------------------------------
Nothing == [start |-> -1, length |-> -1]

(* The value of "time" in a message: simpleJsonProcessor takes it from the *)
(* top level only.  None if the message has none.                          *)
TimeOf(text) ==
  LET lex == Lexed(text, 0, Len(text))
      p   == First({q \in 0 .. Len(text) - 1 :
                      /\ \E i \in 1 .. Len(Times) : text[q + 1] = Times[i]
                      /\ lex[q].level <= 1})
  IN  IF p = -1 THEN None ELSE text[p + 1]

(* Position of a time in the server's log: the pushes after it are the     *)
(* ones a server resumes with.                                             *)
Index(time) ==
  IF \E i \in 1 .. Len(Times) : Times[i] = time
  THEN CHOOSE i \in 1 .. Len(Times) : Times[i] = time
  ELSE 0

Message(f) == SubSeq(buffer, f.start + 1, f.start + f.length)

TypeOK ==
  /\ published \in 0 .. Len(Push)
  /\ sent \in 0 .. Len(Push)
  /\ echoes \in Nat
  /\ wire \in Seq(Bytes)
  /\ conn \in {"none", "up", "closed", "failed"}
  /\ handle \in BOOLEAN /\ callback \in BOOLEAN
  /\ lastPushTime \in Bytes \cup {None, Torn} /\ stored \in Bytes \cup {None, Torn}
  /\ due \in BOOLEAN
  /\ buffer \in Seq(Bytes)
  /\ size \in -1 .. BufferSize
  /\ loop \in BOOLEAN
  /\ pc \in {"idle", "recv", "open", "write", "notify"}
  /\ found \in [start : Int, length : Int]
  /\ ret \in {0, 1}
  /\ delivered \in Seq(Seq(Bytes))
  /\ told \in BOOLEAN
  /\ faults \in Environments

Init ==
  /\ published = 0 /\ sent = 0 /\ echoes = 0 /\ wire = <<>> /\ conn = "none"
  /\ handle = FALSE /\ callback = FALSE /\ lastPushTime = None /\ due = FALSE
  /\ buffer = <<>> /\ size = 0 /\ stored = None
  /\ loop = FALSE /\ pc = "idle" /\ found = Nothing /\ ret = 0
  /\ delivered = <<>> /\ told = FALSE
  /\ faults \in Environments

-----------------------------------------------------------------------------
(* The server.                                                             *)

(* A push is accepted; the client may or may not be connected.             *)
Publish ==
  /\ published < Len(Push)
  /\ published' = published + 1
  /\ UNCHANGED <<sent, echoes, wire, conn, client, receive, loop, output, faults>>

Write(text) ==
  /\ conn = "up"
  /\ Len(wire) + Len(buffer) + Len(text) + 1 <= MaxInFlight
  /\ wire' = wire \o Append(text, Separator)

Transmit ==
  /\ sent < published
  /\ Write(Push[sent + 1])
  /\ sent' = sent + 1
  /\ UNCHANGED <<published, echoes, conn, client, receive, loop, output, faults>>

Echo ==
  /\ echoes > 0
  /\ Write(Heartbeat)
  /\ echoes' = echoes - 1
  /\ UNCHANGED <<published, sent, conn, client, receive, loop, output, faults>>

(* The connection ends: after what was sent, or losing what was sent.      *)
PeerClose ==
  /\ "close" \in faults
  /\ conn = "up"
  /\ conn' = "closed"
  /\ UNCHANGED <<published, sent, echoes, wire, client, receive, loop, output, faults>>

PeerFail ==
  /\ "fail" \in faults
  /\ conn \in {"up", "closed"}
  /\ conn' = "failed"
  /\ wire' = <<>>
  /\ UNCHANGED <<published, sent, echoes, client, receive, loop, output, faults>>

(* 14 minutes pass since the last heartbeat.                               *)
Tick ==
  /\ handle /\ ~ due
  /\ echoes < MaxEchoes
  /\ due' = TRUE
  /\ UNCHANGED <<server, handle, callback, lastPushTime, stored, receive, loop, output, faults>>

-----------------------------------------------------------------------------
(* Calls of the application, between two steps of the push loop or of its  *)
(* own loop: from its main thread, or from the callback, which runs at the *)
(* end of a call of parseProcessNextPushNotification.                      *)

parseSetPushCallback(set) ==
  /\ pc = "idle"
  /\ set \/ "mute" \in faults
  /\ callback' = set
  /\ UNCHANGED <<server, handle, lastPushTime, due, stored, receive, loop, output, faults>>

(* A hello that asks for everything.                                       *)
ResumeFromStart ==
  /\ pc = "idle" /\ ~ handle /\ Len(delivered) < MaxDelivered
  /\ size = 0 \/ "stale" \in faults
  /\ handle' = TRUE
  /\ conn' = "up" /\ wire' = <<>> /\ sent' = 0 /\ echoes' = 1
  /\ due' = FALSE /\ told' = FALSE
  /\ UNCHANGED <<published, callback, lastPushTime, stored, receive, loop,
                 delivered, faults>>

(* The connection is up and the hello was sent: the server resumes after   *)
(* the "last" it was given, and has the first heartbeat to answer.  The    *)
(* buffer is left as the previous connection left it.                      *)
StartConnected ==
  /\ pc = "idle" /\ ~ handle /\ Len(delivered) < MaxDelivered
  /\ size = 0 \/ "stale" \in faults
  /\ handle' = TRUE
  /\ conn' = "up" /\ wire' = <<>>
  /\ sent' = Index(lastPushTime)
  /\ echoes' = 1
  /\ due' = FALSE /\ told' = FALSE
  /\ UNCHANGED <<published, callback, lastPushTime, stored, receive, loop,
                 delivered, faults>>

(* curl_easy_init, _setopt or _perform fails: the code is returned, and    *)
(* the callback is not called.                                             *)
StartFailed ==
  /\ "fail" \in faults
  /\ pc = "idle" /\ ~ handle
  /\ UNCHANGED <<server, client, receive, loop, output, faults>>

(* Neither branch does anything if the service is already started.         *)
parseStartPushService == StartConnected \/ StartFailed

Disconnect ==
  /\ handle' = FALSE
  /\ conn' = "none" /\ wire' = <<>> /\ sent' = 0 /\ echoes' = 0 /\ due' = FALSE

parseStopPushService ==
  /\ pc = "idle" /\ handle
  /\ Disconnect
  /\ UNCHANGED <<published, callback, lastPushTime, stored, receive, loop, output, faults>>

-----------------------------------------------------------------------------
(* parseProcessNextPushNotification.                                       *)

Return(r) == pc' = "idle" /\ ret' = r /\ found' = Nothing

(* The end of a call that processed no message: a heartbeat if it is time. *)
NoHeartbeat == due' = FALSE /\ UNCHANGED echoes

SendHeartbeatIfDue ==
  /\ due' = FALSE
  /\ echoes' = IF due THEN echoes + 1 ELSE echoes

(* parse_push_message_size < sizeof(parse_push_message_buffer) compares an *)
(* int with a size_t: a negative size is not less.                         *)
RoomInBuffer == size >= 0 /\ size < BufferSize

Process ==
  /\ pc = "idle"
  /\ \/ /\ handle /\ RoomInBuffer
        /\ pc' = "recv"
        /\ UNCHANGED <<server, due, found, ret>>
     \/ /\ handle /\ ~ RoomInBuffer
        /\ SendHeartbeatIfDue
        /\ Return(0)
        /\ UNCHANGED <<published, sent, wire, conn>>
     \/ /\ ~ handle
        /\ Return(0)
        /\ UNCHANGED <<server, due>>
  /\ UNCHANGED <<handle, callback, lastPushTime, stored, buffer, size, loop, output, faults>>

(* The message whose time, if it has one, is to be saved before the        *)
(* callback sees it.                                                       *)
Take(bytes, json) ==
  /\ buffer' = bytes /\ size' = Len(bytes)
  /\ found' = json
  /\ \E time \in {TimeOf(SubSeq(bytes, json.start + 1, json.start + json.length))} :
       \/ time = None /\ pc' = "notify" /\ UNCHANGED lastPushTime
       \/ time # None /\ pc' = "open" /\ lastPushTime' = time

(* What follows a curl_easy_recv that was CURLE_OK, bytes being what the   *)
(* buffer now holds: scan it from the beginning.  A complete message is    *)
(* taken; an incomplete one in a full buffer is dropped; otherwise the     *)
(* loop goes round.                                                        *)
Scan(bytes) ==
  \E json \in {getPushJson(bytes, Len(bytes))} :
    \/ /\ json.length > 0
       /\ Take(bytes, json)
       /\ UNCHANGED ret
    \/ /\ json.length = -1 /\ Len(bytes) = BufferSize
       /\ buffer' = <<>> /\ size' = 0
       /\ Return(0)
       /\ UNCHANGED lastPushTime
    \/ /\ json.length = -1 /\ Len(bytes) < BufferSize
       /\ buffer' = bytes /\ size' = Len(bytes)
       /\ UNCHANGED <<pc, found, ret, lastPushTime>>

(* A chunk of n bytes.                                                     *)
RecvBytes(n) ==
  /\ pc = "recv" /\ conn \in {"up", "closed"}
  /\ n <= BufferSize - size
  /\ n < Len(wire) /\ wire[n + 1] = Separator => "split" \in faults
  /\ \E bytes \in {buffer \o SubSeq(wire, 1, n)} : Scan(bytes)
  /\ wire' = SubSeq(wire, n + 1, Len(wire))
  /\ UNCHANGED <<published, sent, echoes, conn, handle, callback, due, stored, loop, output,
                 faults>>

(* CURLE_OK with 0 bytes: the server closed the connection.                *)
RecvClosed ==
  /\ pc = "recv" /\ conn = "closed" /\ wire = <<>>
  /\ Scan(buffer)
  /\ UNCHANGED <<server, handle, callback, due, stored, loop, output, faults>>

(* CURLE_AGAIN: nothing to read.                                           *)
RecvAgain ==
  /\ pc = "recv" /\ conn = "up" /\ wire = <<>>
  /\ SendHeartbeatIfDue
  /\ Return(0)
  /\ UNCHANGED <<published, sent, wire, conn, handle, callback, lastPushTime,
                 stored, buffer, size, loop, output, faults>>

(* Any other code: the callback gets ECONNRESET.                           *)
SilentError ==
  /\ pc = "recv" /\ conn = "failed"
  /\ Return(0)
  /\ UNCHANGED <<server, client, buffer, size, loop, output, faults>>

RecvError ==
  /\ pc = "recv" /\ conn = "failed"
  /\ told' = (told \/ callback)
  /\ Return(0)
  /\ UNCHANGED <<server, client, buffer, size, loop, delivered, faults>>

(* A file that is only created, not emptied (O_EXCL in place of O_TRUNC).  *)
OpenNewFile ==
  /\ pc = "open"
  /\ \/ stored = None /\ stored' = Torn /\ pc' = "write"
     \/ stored # None /\ pc' = "notify" /\ UNCHANGED stored
  /\ UNCHANGED <<server, handle, callback, lastPushTime, due, buffer, size, found, ret,
                 loop, output, faults>>

(* parseOsStoreKey.  The file is opened and emptied, or cannot be opened:  *)
(* that is logged, and the callback is called all the same.                *)
StoreOpen ==
  /\ pc = "open"
  /\ \/ stored' = Torn /\ pc' = "write"
     \/ "disk" \in faults /\ pc' = "notify" /\ UNCHANGED stored
  /\ UNCHANGED <<server, handle, callback, lastPushTime, due, buffer, size, found, ret,
                 loop, output, faults>>

(* Then the time is written; how much of it was is not looked at.          *)
StoreWrite ==
  /\ pc = "write" /\ pc' = "notify"
  /\ stored' = lastPushTime \/ ("disk" \in faults /\ UNCHANGED stored)
  /\ UNCHANGED <<server, handle, callback, lastPushTime, due, buffer, size, found, ret,
                 loop, output, faults>>

Store == StoreOpen \/ StoreWrite

(* The byte behind the message becomes its terminator; a text beginning    *)
(* with "{}" is a heartbeat and anything else is given to the callback.    *)
(* Then length + 1 bytes are taken off the front of the buffer, wherever   *)
(* in the buffer the message was.                                          *)
Terminated(f) ==
  [p \in 1 .. Len(buffer) |-> IF p = f.start + f.length + 1 THEN NUL ELSE buffer[p]]

(* What is left of parse_push_message_size, and two ways to get it wrong.  *)
LeftOneLess(f) == size - (f.length + 2)
LeftSeparator(f) == size - f.length
Left(f) == size - (f.length + 1)

Notify ==
  LET left == Left(found)
  IN  /\ pc = "notify"
      /\ delivered' = IF SubSeq(Message(found), 1, 2) = Heartbeat \/ ~ callback
                      THEN delivered ELSE Append(delivered, Message(found))
      /\ size' = left
      /\ buffer' = IF left > 0 THEN SubSeq(Terminated(found), found.length + 2, size)
                   ELSE <<>>
      /\ Return(IF left > 0 THEN 1 ELSE 0)
      /\ UNCHANGED <<server, client, loop, told, faults>>

-----------------------------------------------------------------------------
(* parseRunPushLoop: select, then one call, for ever.  An exceptional      *)
(* condition on the socket stops the service and is reported before the    *)
(* call, which then finds no connection.                                   *)
parseRunPushLoop ==
  /\ pc = "idle" /\ ~ loop
  /\ loop' = TRUE
  /\ UNCHANGED <<server, client, receive, output, faults>>

SocketException ==
  /\ loop /\ pc = "idle" /\ handle /\ conn = "failed"
  /\ Disconnect
  /\ told' = (told \/ callback)
  /\ Return(0)
  /\ UNCHANGED <<published, callback, lastPushTime, stored, buffer, size, loop,
                 delivered, faults>>

(* What parseInitialize loads: the read of an empty file leaves temp as it *)
(* was, which is empty or holds the session token, and the read of a short *)
(* one only changes its beginning.                                         *)
Loaded(file) == IF file = Torn THEN {None, Torn} ELSE {file}

(* A restart goes on from a time that was saved, unless it falls into a    *)
(* save or the disk may have failed one.                                   *)
ResumeLost == stored = Torn \/ "disk" \in faults

(* The process ends, at any point, and parseInitialize runs again: what    *)
(* is left is the store.                                                   *)
Restart ==
  /\ "restart" \in faults
  /\ Disconnect
  /\ callback' = FALSE /\ lastPushTime' \in Loaded(stored)
  /\ buffer' = <<>> /\ size' = 0
  /\ Return(0)
  /\ loop' = FALSE /\ told' = FALSE
  /\ delivered' = IF ResumeLost THEN <<>> ELSE delivered
  /\ UNCHANGED <<published, stored, faults>>

-----------------------------------------------------------------------------
Environment == Publish \/ Transmit \/ Echo \/ PeerClose \/ PeerFail \/ Tick \/ Restart

Application ==
  \/ \E set \in BOOLEAN : parseSetPushCallback(set)
  \/ parseStartPushService \/ parseStopPushService \/ parseRunPushLoop

Receive ==
  \/ \E n \in 1 .. Len(wire) : RecvBytes(n)
  \/ RecvClosed \/ RecvAgain \/ RecvError

Next ==
  Environment \/ Application \/ Process \/ Receive \/ Store \/ Notify \/ SocketException

Spec == Init /\ [][Next]_vars

-----------------------------------------------------------------------------
(* Safety in every environment.                                            *)

(* A message was found and its bytes are still in the buffer.              *)
Holding == pc \in {"open", "write", "notify"}

(* parse_push_message_size and the message found by the scanner stay in    *)
(* step with the static buffer: curl_easy_recv is only called with room to *)
(* receive into, the message handed to the callback lies inside the bytes  *)
(* received, and the size is the number of bytes kept or, after a message  *)
(* whose separator had not arrived, -1 and never less.                     *)
BufferConsistent ==
  /\ size = Len(buffer) \/ (size = -1 /\ buffer = <<>>)
  /\ pc = "recv" => handle /\ RoomInBuffer
  /\ Holding => /\ found.start >= 0
                /\ found.length > 0
                /\ found.start + found.length <= size

(* The resume point survives the process.  A process that ends at any      *)
(* point but between the two assignments of a save (memory, then the file, *)
(* which is emptied first) starts again with the resume point it had; what *)
(* it had in the callback covers the message the callback is given.  This  *)
(* as long as key files can be opened and written.                         *)
ResumePointPersisted ==
  /\ Holding => TimeOf(Message(found)) \in {None, lastPushTime}
  /\ "disk" \notin faults =>
       /\ pc \notin {"open", "write"} => lastPushTime \in Loaded(stored)
       /\ pc = "write" => stored = Torn

-----------------------------------------------------------------------------
(* Fairness: the application runs the push loop or calls                   *)
(* parseProcessNextPushNotification again and again, time passes, and the  *)
(* server answers heartbeats and sends what it accepted.                   *)
Fairness ==
  /\ WF_vars(Process) /\ WF_vars(Receive) /\ WF_vars(Store) /\ WF_vars(Notify)
  /\ WF_vars(Transmit) /\ WF_vars(Echo) /\ WF_vars(Tick)

FairSpec == Spec /\ Fairness

(* A push the server accepts while the connection is up is processed, as   *)
(* long as the connection stays up.  A message that arrived in the same    *)
(* chunk as the one before it waits in the buffer for the next bytes: it   *)
(* takes the heartbeat the client sends every 14 minutes, and the server's *)
(* answer, to get it out.                                                  *)
EachPushArrives ==
  \A i \in 1 .. Len(Push) :
    (conn = "up" /\ published >= i) ~> (conn # "up" \/ Index(lastPushTime) >= i)

(* A broken connection is reported to the callback: "we need to notify     *)
(* about the problem because push will not be happening any more".         *)
BreakReported ==
  (conn = "failed" /\ callback) ~> (told \/ conn # "failed" \/ ~ callback)

=============================================================================

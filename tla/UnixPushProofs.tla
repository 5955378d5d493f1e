--------------------------- MODULE UnixPushProofs ---------------------------
(***************************************************************************)
(* Theorems about UnixPush, for every buffer size, every set of pushes and *)
(* every behaviour of the environment.                                     *)
(***************************************************************************)
EXTENDS UnixPush, SimpleJsonProofs

(* The time of a message is a string or missing.                           *)
LEMMA TimeOfType ==
  ASSUME NEW text \in Seq(Bytes)
  PROVE  TimeOf(text) \in Bytes \cup {None}
<1> DEFINE S == {q \in 0 .. Len(text) - 1 :
                   /\ \E i \in 1 .. Len(Times) : text[q + 1] = Times[i]
                   /\ Lexed(text, 0, Len(text))[q].level <= 1}
<1>1. TimeOf(text) = IF First(S) = -1 THEN None ELSE text[First(S) + 1]
  BY DEF TimeOf
<1>2. S \subseteq 0 .. Len(text) - 1
  OBVIOUS
<1>. HIDE DEF S
<1>3. CASE First(S) = -1
  BY <1>1, <1>3
<1>4. CASE First(S) # -1
  <2>1. First(S) \in 0 .. Len(text) - 1
    BY <1>2, <1>4, FirstRange
  <2>2. text[First(S) + 1] \in Bytes
    BY <2>1, ElementOfSeq
  <2> QED BY <1>1, <1>4, <2>2
<1> QED BY <1>3, <1>4

-----------------------------------------------------------------------------
(* The inductive invariant: the message found and the bytes kept have to   *)
(* be in step (BufferConsistent) for the size after Notify to stay above   *)
(* -2, and TimeOf the message being handed over can only be compared with  *)
(* memory while the buffer still holds that message.                       *)
IInv == TypeOK /\ BufferConsistent /\ ResumePointPersisted

LEMMA PushLen == Len(Push) \in Nat
<1>1. Push \in Seq(Seq(Bytes))
  BY PushAssumption
<1> QED BY <1>1, LenProperties

LEMMA InitIInv == Init => IInv
<1> SUFFICES ASSUME Init PROVE IInv
  OBVIOUS
<1>. USE DEF Init
<1>1. TypeOK
  <2>1. handle \in BOOLEAN /\ callback \in BOOLEAN /\ due \in BOOLEAN
    OBVIOUS
  <2>2. loop \in BOOLEAN /\ told \in BOOLEAN
    OBVIOUS
  <2>3. published \in 0 .. Len(Push) /\ sent \in 0 .. Len(Push) /\ echoes \in Nat
    BY PushLen
  <2>4. found \in [start : Int, length : Int]
    BY DEF Nothing
  <2>5. wire \in Seq(Bytes) /\ buffer \in Seq(Bytes) /\ delivered \in Seq(Seq(Bytes))
    OBVIOUS
  <2>6. size \in -1 .. BufferSize /\ ret \in {0, 1}
    BY SizeAssumption
  <2> QED BY <2>1, <2>2, <2>3, <2>4, <2>5, <2>6 DEF TypeOK
<1>2. BufferConsistent
  BY DEF BufferConsistent, Holding
<1>3. ResumePointPersisted
  BY DEF ResumePointPersisted, Holding, Loaded
<1> QED BY <1>1, <1>2, <1>3 DEF IInv

(* Appending a message and its separator to the bytes in flight.           *)
LEMMA WriteType ==
  ASSUME TypeOK, NEW text \in Seq(Bytes), Write(text)
  PROVE  wire' \in Seq(Bytes)
<1>1. Append(text, Separator) \in Seq(Bytes)
  BY PushAssumption, AppendProperties
<1> QED BY <1>1, ConcatProperties DEF Write, TypeOK

(* The scan that follows a successful recv.                                *)
LEMMA ScanKeepsIInv ==
  ASSUME IInv, pc = "recv", NEW bytes \in Seq(Bytes), Len(bytes) <= BufferSize,
         Scan(bytes), UNCHANGED <<stored, faults>>
  PROVE  /\ buffer' \in Seq(Bytes) /\ size' \in -1 .. BufferSize
         /\ pc' \in {"idle", "recv", "open", "notify"}
         /\ found' \in [start : Int, length : Int]
         /\ ret' \in {0, 1}
         /\ lastPushTime' \in Bytes \cup {None, Torn}
         /\ size' = Len(buffer')
         /\ pc' = "recv" => size' >= 0 /\ size' < BufferSize
         /\ pc' \in {"open", "notify"} => /\ found'.start >= 0
                                         /\ found'.length > 0
                                         /\ found'.start + found'.length <= size'
         /\ ResumePointPersisted'
<1> DEFINE json == getPushJson(bytes, Len(bytes))
           text == SubSeq(bytes, json.start + 1, json.start + json.length)
           time == TimeOf(text)
<1>1. Len(bytes) \in Nat
  BY LenProperties
<1>2. /\ json \in [start : Int, length : Int]
      /\ json.length = -1 \/ (/\ json.start >= 0
                              /\ json.length > 0
                              /\ json.start + json.length <= Len(bytes))
  BY <1>1, PushJsonRange
<1>3. \/ /\ json.length > 0
         /\ buffer' = bytes /\ size' = Len(bytes)
         /\ found' = json
         /\ \/ time = None /\ pc' = "notify" /\ lastPushTime' = lastPushTime
            \/ time # None /\ pc' = "open" /\ lastPushTime' = time
         /\ ret' = ret
      \/ /\ json.length = -1 /\ Len(bytes) = BufferSize
         /\ buffer' = <<>> /\ size' = 0
         /\ pc' = "idle" /\ ret' = 0 /\ found' = Nothing
         /\ lastPushTime' = lastPushTime
      \/ /\ json.length = -1 /\ Len(bytes) < BufferSize
         /\ buffer' = bytes /\ size' = Len(bytes)
         /\ pc' = pc /\ found' = found /\ ret' = ret
         /\ lastPushTime' = lastPushTime
  BY DEF Take, Scan, Return
<1>4. /\ lastPushTime \in Bytes \cup {None, Torn}
      /\ ret \in {0, 1} /\ found \in [start : Int, length : Int]
      /\ BufferSize \in Nat
  BY SizeAssumption DEF IInv, TypeOK
<1>5. CASE json.length > 0
  <2>1. text \in Seq(Bytes)
    <3>. HIDE DEF json
    <3> QED BY <1>1, <1>2, <1>5, PartOfSeq
  <2>2. time \in Bytes \cup {None}
    BY <2>1, TimeOfType
  <2>. HIDE DEF time
  <2>3. /\ buffer' = bytes /\ size' = Len(bytes)
        /\ found' = json /\ ret' = ret
        /\ \/ time = None /\ pc' = "notify" /\ lastPushTime' = lastPushTime
           \/ time # None /\ pc' = "open" /\ lastPushTime' = time
    BY <1>3, <1>5
  <2>4. Message(found)' = text
    BY <2>3 DEF Message
  <2>5. TimeOf(Message(found))' = time
    BY <2>4 DEF time
  <2>. HIDE DEF json, text
  <2>6. ResumePointPersisted'
    <3>1. TimeOf(Message(found))' \in {None, lastPushTime'}
      BY <2>3, <2>5
    <3>2. "disk" \notin faults => lastPushTime \in Loaded(stored)
      BY DEF IInv, ResumePointPersisted
    <3> QED BY <2>3, <3>1, <3>2 DEF ResumePointPersisted, Loaded
  <2> QED BY <1>1, <1>2, <1>4, <1>5, <2>2, <2>3, <2>6
<1>. HIDE DEF time, text, json
<1>6. CASE json.length = -1 /\ Len(bytes) = BufferSize
  <2>1. /\ buffer' = <<>> /\ size' = 0
        /\ pc' = "idle" /\ ret' = 0 /\ found' = Nothing
        /\ lastPushTime' = lastPushTime
    BY <1>1, <1>3, <1>4, <1>6
  <2>2. ResumePointPersisted'
    BY <1>4, <2>1 DEF IInv, ResumePointPersisted, Holding, Loaded
  <2> QED BY <1>4, <2>1, <2>2 DEF Nothing
<1>7. CASE json.length = -1 /\ Len(bytes) < BufferSize
  <2>1. /\ buffer' = bytes /\ size' = Len(bytes)
        /\ pc' = "recv" /\ found' = found /\ ret' = ret
        /\ lastPushTime' = lastPushTime
    BY <1>1, <1>3, <1>4, <1>7
  <2>2. ResumePointPersisted'
    BY <1>4, <2>1 DEF IInv, ResumePointPersisted, Holding, Loaded
  <2> QED BY <1>1, <1>4, <1>7, <2>1, <2>2
<1>8. Len(bytes) = BufferSize \/ Len(bytes) < BufferSize
  BY <1>1, <1>4
<1> QED BY <1>2, <1>5, <1>6, <1>7, <1>8

-----------------------------------------------------------------------------
(* Every step keeps the invariant: one step of the proof per action.       *)

(* The steps that touch neither the buffer nor the resume point.           *)
LEMMA KeepBuffer ==
  ASSUME IInv, pc' = pc, UNCHANGED <<buffer, size, found, lastPushTime, stored, faults>>,
         pc = "recv" => handle'
  PROVE  BufferConsistent' /\ ResumePointPersisted'
<1>1. BufferConsistent'
  BY DEF IInv, BufferConsistent, RoomInBuffer, Holding
<1>2. Message(found)' = Message(found)
  BY DEF Message
<1>3. TimeOf(Message(found))' = TimeOf(Message(found))
  BY <1>2
<1>4. ResumePointPersisted'
  BY <1>3 DEF IInv, ResumePointPersisted, Holding, Loaded
<1> QED BY <1>1, <1>4

(* A call that returns with the buffer as it was.                          *)
LEMMA ReturnKeepsBuffer ==
  ASSUME IInv, pc \in {"idle", "recv"}, pc' = "idle",
         UNCHANGED <<buffer, size, lastPushTime, stored, faults>>
  PROVE  BufferConsistent' /\ ResumePointPersisted'
BY DEF IInv, BufferConsistent, ResumePointPersisted, Holding, Loaded

LEMMA EnvironmentStep ==
  ASSUME IInv, Environment
  PROVE  IInv'
<1>. USE DEF server, client, receive, output
<1>1. CASE Publish
  <2>1. TypeOK'
    BY <1>1, PushLen DEF IInv, TypeOK, Publish
  <2> QED BY <1>1, <2>1, KeepBuffer DEF IInv, Publish, BufferConsistent
<1>2. CASE Transmit
  <2>1. Push[sent + 1] \in Seq(Bytes)
    <3>1. sent + 1 \in 1 .. Len(Push)
      BY <1>2, PushLen DEF IInv, TypeOK, Transmit
    <3>2. Push \in Seq(Seq(Bytes))
      BY PushAssumption
    <3> QED BY <3>1, <3>2, ElementOfSeq
  <2>2. wire' \in Seq(Bytes)
    BY <1>2, <2>1, WriteType DEF IInv, Transmit
  <2>3. sent' \in 0 .. Len(Push)
    BY <1>2, PushLen DEF IInv, TypeOK, Transmit
  <2>4. TypeOK'
    BY <1>2, <2>2, <2>3 DEF IInv, TypeOK, Transmit
  <2> QED BY <1>2, <2>4, KeepBuffer DEF IInv, Transmit, BufferConsistent
<1>3. CASE Echo
  <2>1. Heartbeat \in Seq(Bytes)
    <3>1. "{" \in Bytes /\ "}" \in Bytes
      BY PushAssumption
    <3> QED BY <3>1, PairIsSeq DEF Heartbeat
  <2>2. wire' \in Seq(Bytes)
    BY <1>3, <2>1, WriteType DEF IInv, Echo
  <2>3. echoes' \in Nat
    BY <1>3 DEF IInv, TypeOK, Echo
  <2>4. TypeOK'
    BY <1>3, <2>2, <2>3 DEF IInv, TypeOK, Echo
  <2> QED BY <1>3, <2>4, KeepBuffer DEF IInv, Echo, BufferConsistent
<1>4. CASE PeerClose
  <2>1. TypeOK'
    BY <1>4 DEF IInv, TypeOK, PeerClose
  <2> QED BY <1>4, <2>1, KeepBuffer DEF IInv, PeerClose, BufferConsistent
<1>5. CASE PeerFail
  <2>1. TypeOK'
    BY <1>5 DEF IInv, TypeOK, PeerFail
  <2> QED BY <1>5, <2>1, KeepBuffer DEF IInv, PeerFail, BufferConsistent
<1>6. CASE Tick
  <2>1. TypeOK'
    BY <1>6 DEF IInv, TypeOK, Tick
  <2> QED BY <1>6, <2>1, KeepBuffer DEF IInv, Tick, BufferConsistent
<1>7. CASE Restart
  <2>. USE <1>7 DEF Restart, Disconnect, Return
  <2>1. TypeOK'
    <3>1. handle' \in BOOLEAN /\ callback' \in BOOLEAN /\ due' \in BOOLEAN
      OBVIOUS
    <3>2. loop' \in BOOLEAN /\ told' \in BOOLEAN
      BY DEF IInv, TypeOK
    <3>3. found' \in [start : Int, length : Int]
      BY DEF Nothing
    <3>4. size' \in -1 .. BufferSize /\ sent' \in 0 .. Len(Push)
      BY PushLen, SizeAssumption
    <3>5. /\ lastPushTime' \in Bytes \cup {None, Torn}
          /\ stored' \in Bytes \cup {None, Torn}
      BY DEF IInv, TypeOK, Loaded
    <3>6. delivered' \in Seq(Seq(Bytes))
      <4>1. <<>> \in Seq(Seq(Bytes))
        OBVIOUS
      <4> QED BY <4>1 DEF IInv, TypeOK
    <3> QED BY <3>1, <3>2, <3>3, <3>4, <3>5, <3>6 DEF IInv, TypeOK
  <2>2. BufferConsistent'
    BY DEF BufferConsistent, Holding
  <2>3. ResumePointPersisted'
    BY DEF ResumePointPersisted, Holding, Loaded
  <2> QED BY <2>1, <2>2, <2>3 DEF IInv
<1> QED BY <1>1, <1>2, <1>3, <1>4, <1>5, <1>6, <1>7 DEF Environment

LEMMA IndexRange ==
  ASSUME NEW time
  PROVE  Index(time) \in 0 .. Len(Push)
<1>1. Len(Times) = Len(Push)
  BY PushAssumption
<1> QED BY <1>1, PushLen DEF Index

LEMMA ApplicationStep ==
  ASSUME IInv, Application
  PROVE  IInv'
<1>. USE DEF server, client, receive, output
<1>1. ASSUME NEW set \in BOOLEAN, parseSetPushCallback(set)
      PROVE  IInv'
  <2>1. TypeOK'
    BY <1>1 DEF IInv, TypeOK, parseSetPushCallback
  <2> QED BY <1>1, <2>1, KeepBuffer DEF IInv, parseSetPushCallback
<1>2. CASE StartConnected
  <2>1. sent' \in 0 .. Len(Push)
    BY <1>2, IndexRange DEF StartConnected
  <2>2. handle' \in BOOLEAN /\ due' \in BOOLEAN /\ told' \in BOOLEAN
    BY <1>2 DEF StartConnected
  <2>3. conn' = "up" /\ wire' = <<>> /\ echoes' = 1
    BY <1>2 DEF StartConnected
  <2>4. TypeOK'
    BY <1>2, <2>1, <2>2, <2>3 DEF IInv, TypeOK, StartConnected
  <2> QED BY <1>2, <2>4, KeepBuffer DEF IInv, StartConnected
<1>3. CASE StartFailed
  <2>1. TypeOK'
    BY <1>3 DEF IInv, TypeOK, StartFailed
  <2> QED BY <1>3, <2>1, KeepBuffer DEF IInv, StartFailed
<1>4. CASE parseStopPushService
  <2>1. handle' \in BOOLEAN /\ due' \in BOOLEAN
    BY <1>4 DEF parseStopPushService, Disconnect
  <2>2. conn' = "none" /\ wire' = <<>> /\ sent' = 0 /\ echoes' = 0
    BY <1>4 DEF parseStopPushService, Disconnect
  <2>3. TypeOK'
    BY <1>4, <2>1, <2>2, PushLen DEF IInv, TypeOK, parseStopPushService
  <2> QED BY <1>4, <2>3, KeepBuffer DEF IInv, parseStopPushService
<1>5. CASE parseRunPushLoop
  <2>1. TypeOK'
    BY <1>5 DEF IInv, TypeOK, parseRunPushLoop
  <2> QED BY <1>5, <2>1, KeepBuffer DEF IInv, parseRunPushLoop
<1> QED BY <1>1, <1>2, <1>3, <1>4, <1>5 DEF Application, parseStartPushService

LEMMA ProcessStep ==
  ASSUME IInv, Process
  PROVE  IInv'
<1>. USE DEF server, client, receive, output
<1>1. echoes' \in Nat /\ due' \in BOOLEAN
  <2>1. echoes' \in Nat
    BY DEF IInv, TypeOK, Process, SendHeartbeatIfDue
  <2>2. due' \in BOOLEAN
    BY DEF IInv, TypeOK, Process, SendHeartbeatIfDue
  <2> QED BY <2>1, <2>2
<1>2. /\ pc' \in {"idle", "recv"} /\ ret' \in {0, 1}
      /\ found' \in [start : Int, length : Int]
  BY DEF IInv, TypeOK, Process, Return, Nothing
<1>3. TypeOK'
  BY <1>1, <1>2 DEF IInv, TypeOK, Process
<1>4. CASE handle /\ RoomInBuffer
  <2>1. pc' = "recv"
    BY <1>4 DEF Process
  <2>2. BufferConsistent'
    BY <1>4, <2>1 DEF IInv, BufferConsistent, Process, RoomInBuffer, Holding
  <2>3. ResumePointPersisted'
    BY <2>1 DEF IInv, ResumePointPersisted, Process, Holding, Loaded
  <2> QED BY <1>3, <2>2, <2>3 DEF IInv
<1>5. CASE ~ (handle /\ RoomInBuffer)
  <2>1. pc' = "idle"
    BY <1>5 DEF Process, Return
  <2> QED BY <1>3, <2>1, ReturnKeepsBuffer DEF IInv, Process
<1> QED BY <1>4, <1>5

(* The bytes after a recv: those kept and a chunk that fits behind them.   *)
LEMMA ChunkFits ==
  ASSUME IInv, pc = "recv", NEW n \in 1 .. Len(wire), n <= BufferSize - size
  PROVE  /\ buffer \o SubSeq(wire, 1, n) \in Seq(Bytes)
         /\ Len(buffer \o SubSeq(wire, 1, n)) <= BufferSize
         /\ SubSeq(wire, n + 1, Len(wire)) \in Seq(Bytes)
<1>1. wire \in Seq(Bytes) /\ buffer \in Seq(Bytes) /\ size = Len(buffer)
  BY DEF IInv, TypeOK, BufferConsistent, RoomInBuffer
<1>2. Len(wire) \in Nat /\ Len(buffer) \in Nat
  BY <1>1, LenProperties
<1>3. /\ SubSeq(wire, 1, n) \in Seq(Bytes)
      /\ Len(SubSeq(wire, 1, n)) = n
  BY <1>1, <1>2, PartOfSeq
<1>4. SubSeq(wire, n + 1, Len(wire)) \in Seq(Bytes)
  BY <1>1, <1>2, PartOfSeq
<1> QED BY <1>1, <1>2, <1>3, <1>4, ConcatProperties, SizeAssumption

LEMMA ReceiveStep ==
  ASSUME IInv, Receive
  PROVE  IInv'
<1>. USE DEF server, client, receive, output
<1>1. ASSUME NEW n \in 1 .. Len(wire), RecvBytes(n)
      PROVE  IInv'
  <2> DEFINE bytes == buffer \o SubSeq(wire, 1, n)
  <2>1. pc = "recv" /\ Scan(bytes) /\ n <= BufferSize - size
    BY <1>1 DEF RecvBytes
  <2>2. /\ bytes \in Seq(Bytes) /\ Len(bytes) <= BufferSize
        /\ wire' \in Seq(Bytes)
    BY <1>1, <2>1, ChunkFits DEF RecvBytes
  <2>. HIDE DEF bytes
  <2>3. UNCHANGED <<published, sent, echoes, conn, handle, callback, due, stored, loop,
                    delivered, told, faults>>
    BY <1>1 DEF RecvBytes
  <2>4. TypeOK'
    BY <2>1, <2>2, <2>3, ScanKeepsIInv DEF IInv, TypeOK
  <2>5. BufferConsistent'
    BY <2>1, <2>2, <2>3, ScanKeepsIInv DEF IInv, BufferConsistent, RoomInBuffer, Holding
  <2>6. ResumePointPersisted'
    BY <2>1, <2>2, <2>3, ScanKeepsIInv
  <2> QED BY <2>4, <2>5, <2>6 DEF IInv
<1>2. CASE RecvClosed
  <2>1. /\ pc = "recv" /\ Scan(buffer)
        /\ UNCHANGED <<published, sent, echoes, wire, conn, handle, callback,
                       due, stored, loop, delivered, told, faults>>
    BY <1>2 DEF RecvClosed
  <2>2. buffer \in Seq(Bytes) /\ Len(buffer) <= BufferSize
    BY <2>1, SizeAssumption DEF IInv, TypeOK, BufferConsistent, RoomInBuffer
  <2>3. TypeOK'
    BY <2>1, <2>2, ScanKeepsIInv DEF IInv, TypeOK
  <2>4. BufferConsistent'
    BY <2>1, <2>2, ScanKeepsIInv DEF IInv, BufferConsistent, RoomInBuffer, Holding
  <2>5. ResumePointPersisted'
    BY <2>1, <2>2, ScanKeepsIInv
  <2> QED BY <2>3, <2>4, <2>5 DEF IInv
<1>3. CASE RecvAgain
  <2>1. echoes' \in Nat
    BY <1>3 DEF IInv, TypeOK, RecvAgain, SendHeartbeatIfDue
  <2>2. due' \in BOOLEAN
    BY <1>3 DEF RecvAgain, SendHeartbeatIfDue
  <2>3. TypeOK'
    BY <1>3, <2>1, <2>2 DEF IInv, TypeOK, RecvAgain, Return, Nothing
  <2> QED BY <1>3, <2>3, ReturnKeepsBuffer DEF IInv, RecvAgain, Return
<1>4. CASE RecvError
  <2>1. told' \in BOOLEAN
    BY <1>4 DEF RecvError
  <2>2. TypeOK'
    BY <1>4, <2>1 DEF IInv, TypeOK, RecvError, Return, Nothing
  <2> QED BY <1>4, <2>2, ReturnKeepsBuffer DEF IInv, RecvError, Return
<1> QED BY <1>1, <1>2, <1>3, <1>4 DEF Receive

(* The steps of a save: memory is as it was, the file is emptied and then  *)
(* holds what memory does.                                                 *)
LEMMA StoreStep ==
  ASSUME IInv, Store
  PROVE  IInv'
<1>. USE DEF server, output
<1>1. /\ UNCHANGED <<published, sent, echoes, wire, conn, handle, callback, lastPushTime,
                     due, buffer, size, found, ret, loop, delivered, told, faults>>
      /\ pc \in {"open", "write"} /\ pc' \in {"write", "notify"}
      /\ \/ pc = "open" /\ pc' = "write" /\ stored' = Torn
         \/ pc = "write" /\ pc' = "notify" /\ stored' = lastPushTime
         \/ "disk" \in faults /\ pc' = "notify" /\ stored' = stored
  BY DEF Store, StoreOpen, StoreWrite
<1>2. TypeOK'
  BY <1>1 DEF IInv, TypeOK
<1>3. BufferConsistent'
  BY <1>1 DEF IInv, BufferConsistent, Holding
<1>4. ResumePointPersisted'
  <2>1. Message(found)' = Message(found)
    BY <1>1 DEF Message
  <2>2. TimeOf(Message(found))' \in {None, lastPushTime'}
    BY <1>1, <2>1 DEF IInv, ResumePointPersisted, Holding
  <2>3. CASE pc = "open" /\ pc' = "write" /\ stored' = Torn
    BY <1>1, <2>2, <2>3 DEF ResumePointPersisted, Loaded
  <2>4. CASE pc = "write" /\ pc' = "notify" /\ stored' = lastPushTime
    BY <1>1, <2>2, <2>4 DEF ResumePointPersisted, Loaded
  <2>5. CASE "disk" \in faults /\ pc' = "notify" /\ stored' = stored
    BY <1>1, <2>2, <2>5 DEF ResumePointPersisted, Loaded
  <2> QED BY <1>1, <2>3, <2>4, <2>5
<1> QED BY <1>2, <1>3, <1>4 DEF IInv

(* Notify takes length + 1 bytes off a buffer that holds at least start +  *)
(* length: one short of it at worst, which is the size of -1.              *)
LEMMA NotifyStep ==
  ASSUME IInv, Notify
  PROVE  IInv'
<1>. USE DEF server, client, receive, output
<1>1. /\ buffer \in Seq(Bytes) /\ Len(buffer) \in Nat /\ size = Len(buffer)
      /\ size <= BufferSize /\ BufferSize \in Nat
      /\ found.start \in Nat /\ found.length \in Nat \ {0}
      /\ found.start + found.length <= size
  BY LenProperties, SizeAssumption DEF IInv, TypeOK, BufferConsistent, Notify, Holding
<1>2. Message(found) \in Seq(Bytes)
  BY <1>1, PartOfSeq DEF Message
<1>3. delivered' \in Seq(Seq(Bytes))
  BY <1>2, AppendProperties DEF IInv, TypeOK, Notify
<1>4. Terminated(found) \in Seq(Bytes) /\ Len(Terminated(found)) = size
  <2>1. \A p \in 1 .. Len(buffer) : buffer[p] \in Bytes
    BY <1>1, ElementOfSeq
  <2>2. NUL \in Bytes
    BY PushAssumption
  <2>3. \A p \in 1 .. Len(buffer) :
          (IF p = found.start + found.length + 1 THEN NUL ELSE buffer[p]) \in Bytes
    BY <2>1, <2>2
  <2> QED BY <1>1, <2>3, IsASeq DEF Terminated
<1> DEFINE left == size - (found.length + 1)
<1>5. /\ pc' = "idle" /\ found' = Nothing /\ ret' \in {0, 1}
      /\ size' = left
      /\ buffer' = IF left > 0 THEN SubSeq(Terminated(found), found.length + 2, size)
                   ELSE <<>>
      /\ UNCHANGED <<server, client, loop, told, faults>>
  BY DEF Left, Notify, Return
<1>6. left \in -1 .. BufferSize
  BY <1>1
<1>7. buffer' \in Seq(Bytes) /\ (left > 0 => Len(buffer') = left)
  BY <1>1, <1>4, <1>5, PartOfSeq
<1>8. TypeOK'
  BY <1>3, <1>5, <1>6, <1>7 DEF IInv, TypeOK, Nothing
<1>9. BufferConsistent'
  <2>1. left > 0 \/ left = 0 \/ left = -1
    BY <1>6
  <2>2. left <= 0 => buffer' = <<>>
    BY <1>5, <1>6
  <2> QED BY <1>5, <1>7, <2>1, <2>2 DEF BufferConsistent, Holding
<1>10. ResumePointPersisted'
  <2>1. pc = "notify"
    BY DEF Notify
  <2> QED BY <1>5, <2>1 DEF IInv, ResumePointPersisted, Holding, Loaded
<1> QED BY <1>8, <1>9, <1>10 DEF IInv

LEMMA SocketExceptionStep ==
  ASSUME IInv, SocketException
  PROVE  IInv'
<1>1. handle' \in BOOLEAN /\ due' \in BOOLEAN /\ told' \in BOOLEAN
  BY DEF SocketException, Disconnect
<1>2. /\ conn' = "none" /\ wire' = <<>> /\ sent' = 0 /\ echoes' = 0
      /\ pc' = "idle" /\ ret' = 0 /\ found' = Nothing
  BY DEF SocketException, Disconnect, Return
<1>3. TypeOK'
  BY <1>1, <1>2, PushLen DEF IInv, TypeOK, SocketException, Nothing
<1> QED BY <1>2, <1>3, ReturnKeepsBuffer DEF IInv, SocketException

LEMMA StutterStep ==
  ASSUME IInv, UNCHANGED vars
  PROVE  IInv'
<1>1. UNCHANGED <<published, sent, echoes, wire, conn, handle, callback,
                  lastPushTime, due, stored, buffer, size, pc, found, ret, loop,
                  delivered, told, faults>>
  BY DEF vars, server, client, receive, output
<1>2. TypeOK'
  BY <1>1 DEF IInv, TypeOK
<1> QED BY <1>1, <1>2, KeepBuffer DEF IInv, BufferConsistent

-----------------------------------------------------------------------------
LEMMA PushInvariant == Spec => []IInv
<1>1. Init => IInv
  BY InitIInv
<1>2. IInv /\ [Next]_vars => IInv'
  BY EnvironmentStep, ApplicationStep, ProcessStep, ReceiveStep, StoreStep, NotifyStep,
     SocketExceptionStep, StutterStep DEF Next
<1> QED BY <1>1, <1>2, PTL DEF Spec

(* The state of the push service always has its type; in particular        *)
(* parse_push_message_size never leaves -1 .. sizeof(buffer).              *)
THEOREM PushTypes == Spec => []TypeOK
<1>1. IInv => TypeOK
  BY DEF IInv
<1> QED BY <1>1, PushInvariant, PTL

(* Whatever chunks arrive, and however often the service is stopped,       *)
(* started or restarted, curl_easy_recv is only called with room in the    *)
(* buffer, and the message given to the callback lies inside it.           *)
THEOREM BufferInStep == Spec => []BufferConsistent
<1>1. IInv => BufferConsistent
  BY DEF IInv
<1> QED BY <1>1, PushInvariant, PTL

(* Wherever the process ends but inside a save, it loads the resume point  *)
(* it had, and that one covers the message the callback was given, as long *)
(* as the disk takes what is saved.                                        *)
THEOREM ResumePointSafe == Spec => []ResumePointPersisted
<1>1. IInv => ResumePointPersisted
  BY DEF IInv
<1> QED BY <1>1, PushInvariant, PTL

=============================================================================

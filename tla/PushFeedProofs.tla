--------------------------- MODULE PushFeedProofs ---------------------------
(***************************************************************************)
(* The push service implements the feed it promises (PushFeed), for every  *)
(* buffer size and every number of pushes: how the stream of bytes stays   *)
(* framed across chunks, and why the callback gets whole pushes in order.  *)
(* Then parse_push: why the list between its callback and the sketch is    *)
(* always a chain that holds the pushes the sketch was not given yet.      *)
(***************************************************************************)
EXTENDS MCYunPush, UnixPushProofs, FiniteSetTheorems

(* What the assumptions say, in parts.                                     *)
LEMMA PushFacts ==
  /\ Push \in Seq(Seq(Bytes)) /\ Times \in Seq(Bytes)
  /\ Len(Times) = Len(Push) /\ None \notin Bytes /\ Torn \notin Bytes \cup {None}
BY Zenon, PushAssumption

LEMMA FeedFacts ==
  /\ \A i \in 1 .. Len(Push) :
       /\ getPushJson(Push[i], Len(Push[i])) = [start |-> 0, length |-> Len(Push[i])]
       /\ \A p \in 1 .. Len(Push[i]) : Push[i][p] # Separator
       /\ TimeOf(Push[i]) = Times[i]
  /\ \A i, j \in 1 .. Len(Times) : Times[i] = Times[j] => i = j
  /\ \A i \in 1 .. Len(Times) : Times[i] # Brace1 /\ Times[i] # Brace2
BY Zenon, FeedAssumption DEF Brace1, Brace2

LEMMA HeartbeatIs ==
  /\ Heartbeat = <<Brace1, Brace2>> /\ Heartbeat \in Seq(Bytes)
  /\ Separator # Brace1 /\ Separator # Brace2
<1>1. "{" \in Bytes /\ "}" \in Bytes
  BY Zenon, PushAssumption
<1>2. Heartbeat \in Seq(Bytes)
  BY <1>1, PairIsSeq DEF Heartbeat
<1>3. Separator # Brace1 /\ Separator # Brace2
  BY Zenon DEF Separator, Brace1, Brace2
<1> QED BY Zenon, <1>2, <1>3 DEF Heartbeat, Brace1, Brace2

(* A heartbeat is one JSON object, and has no time.                        *)
LEMMA HeartbeatJson == getPushJson(Heartbeat, Len(Heartbeat)) = [start |-> 0, length |-> Len(Heartbeat)]
<1>1. Len(Heartbeat) = 2
  BY HeartbeatIs
<1> QED BY <1>1, HeartbeatIs, BracesJson

LEMMA HeartbeatHasNoTime == TimeOf(Heartbeat) = None
<1> DEFINE S == {q \in 0 .. Len(Heartbeat) - 1 :
                   /\ \E i \in 1 .. Len(Times) : Heartbeat[q + 1] = Times[i]
                   /\ Lexed(Heartbeat, 0, Len(Heartbeat))[q].level <= 1}
<1>1. TimeOf(Heartbeat) = IF First(S) = -1 THEN None ELSE Heartbeat[First(S) + 1]
  BY DEF TimeOf
<1>2. \A q \in 0 .. Len(Heartbeat) - 1 : Heartbeat[q + 1] \in {Brace1, Brace2}
  BY HeartbeatIs
<1>3. S = {}
  BY <1>2, FeedFacts
<1>. HIDE DEF S
<1> QED BY <1>1, <1>3, FirstOfNone

(* Each push is in the place of the log that its time has.                 *)
LEMMA IndexOfTime ==
  /\ \A i \in 1 .. Len(Push) : Index(Times[i]) = i /\ Times[i] # None
  /\ Index(None) = 0 /\ Index(Torn) = 0
<1>1. ASSUME NEW i \in 1 .. Len(Push) PROVE Index(Times[i]) = i
  BY PushFacts, FeedFacts DEF Index
<1>2. \A i \in 1 .. Len(Times) : Times[i] \in Bytes
  BY PushFacts, ElementOfSeq
<1>3. \A i \in 1 .. Len(Times) : Times[i] # None /\ Times[i] # Torn
  BY <1>2, PushFacts
<1>4. Index(None) = 0 /\ Index(Torn) = 0
  BY <1>3 DEF Index
<1> QED BY <1>1, <1>3, <1>4, PushFacts

LEMMA PushIndexOfPush == \A i \in 1 .. Len(Push) : PushIndex(Push[i]) = i
<1> SUFFICES ASSUME NEW i \in 1 .. Len(Push) PROVE PushIndex(Push[i]) = i
  OBVIOUS
<1>1. ASSUME NEW j \in 1 .. Len(Push), Push[j] = Push[i] PROVE j = i
  <2>1. Times[j] = Times[i]
    BY <1>1, FeedFacts
  <2> QED BY <2>1, FeedFacts, PushFacts
<1>2. {j \in 1 .. Len(Push) : Push[j] = Push[i]} = {i}
  BY <1>1
<1> QED BY <1>2 DEF PushIndex

LEMMA PushIndexType == ASSUME NEW text PROVE PushIndex(text) \in Nat
BY DEF PushIndex

-----------------------------------------------------------------------------
(* The protocol of the service, in the words of SimpleJsonProofs.          *)
LEMMA MessageType ==
  ASSUME NEW m, m = Heartbeat \/ \E j \in 1 .. Len(Push) : m = Push[j]
  PROVE  /\ m \in Seq(Bytes) /\ Len(m) \in Nat
         /\ getPushJson(m, Len(m)) = [start |-> 0, length |-> Len(m)]
<1>1. m \in Seq(Bytes)
  <2>1. Push \in Seq(Seq(Bytes))
    BY PushFacts
  <2>2. \A j \in 1 .. Len(Push) : Push[j] \in Seq(Bytes)
    BY <2>1, ElementOfSeq
  <2> QED BY <2>2, HeartbeatIs
<1>2. Len(m) \in Nat
  BY <1>1, LenProperties
<1> QED BY <1>1, <1>2, HeartbeatJson, FeedFacts

PushProtocol ==
  [bytes |-> Bytes, separator |-> Separator, count |-> Len(Push),
   text  |-> [j \in 0 .. Len(Push) |-> IF j = 0 THEN Heartbeat ELSE Push[j]]]

LEMMA ProtocolIs ==
  /\ Protocol(PushProtocol)
  /\ PushProtocol.bytes = Bytes /\ PushProtocol.separator = Separator
  /\ PushProtocol.count = Len(Push) /\ PushProtocol.text[0] = Heartbeat
  /\ \A j \in 1 .. Len(Push) : PushProtocol.text[j] = Push[j]
<1>1. /\ PushProtocol.bytes = Bytes /\ PushProtocol.separator = Separator
      /\ PushProtocol.count = Len(Push)
      /\ PushProtocol.text = [j \in 0 .. Len(Push) |-> IF j = 0 THEN Heartbeat ELSE Push[j]]
  BY DEF PushProtocol
<1>2. PICK text : text = PushProtocol.text
  OBVIOUS
<1>3. /\ text[0] = Heartbeat /\ \A j \in 1 .. Len(Push) : text[j] = Push[j]
      /\ \A j \in 0 .. Len(Push) : text[j] = Heartbeat \/ \E k \in 1 .. Len(Push) : text[j] = Push[k]
  <2>1. 0 \in 0 .. Len(Push) /\ \A j \in 0 .. Len(Push) : j = 0 \/ j \in 1 .. Len(Push)
    BY PushLen
  <2> QED BY <1>1, <1>2, <2>1, PushLen
<1>4. \A j \in 0 .. Len(Push) : text[j] \in Seq(Bytes) /\ Whole(text[j])
  BY <1>3, MessageType DEF Whole
<1>5. Separator \in Bytes
  BY Zenon, PushAssumption
<1>6. Protocol(PushProtocol)
  BY <1>1, <1>2, <1>4, <1>5, PushLen DEF Protocol
<1> QED BY <1>1, <1>2, <1>3, <1>6

(* The next message of a stream that holds the pushes after i up to s.     *)
NextMessage(i, s, j, m) ==
  \/ m = Heartbeat /\ j = i
  \/ j = i + 1 /\ j <= s /\ j \in 1 .. Len(Push) /\ m = Push[j]

LEMMA MessageTaken ==
  ASSUME NEW bytes, NEW st, NEW i, NEW s, NEW j, NEW m, Taken(PushProtocol, bytes, st, i, s, j, m)
  PROVE  /\ NextMessage(i, s, j, m) /\ j \in 0 .. Len(Push)
         /\ Len(m) \in Nat /\ Len(m) + 1 <= Len(bytes)
         /\ getPushJson(bytes, Len(bytes)) = [start |-> 0, length |-> Len(m)]
         /\ SubSeq(bytes, 1, Len(m)) = m
         /\ st[Len(m) + 1] = Separator
         /\ Framing(PushProtocol, SubSeq(st, Len(m) + 2, Len(st)), j, s)
<1>1. FirstMessage(PushProtocol, i, s, j, m)
  BY DEF Taken
<1>2. NextMessage(i, s, j, m)
  BY <1>1, ProtocolIs DEF FirstMessage, NextMessage
<1> QED BY <1>2, ProtocolIs DEF Taken

-----------------------------------------------------------------------------
(* The inductive invariant.  The bytes not yet looked at are framed and    *)
(* hold the pushes after the resume point (BacklogOK); the message being   *)
(* handed over is whole, is followed by its separator, and is a heartbeat  *)
(* or the push of the resume point (HandoverOK); the callback has seen no  *)
(* push after the resume point (OrderOK), nor after the one in the store   *)
(* when a restart would go on from it (StoreOK).                           *)
Here == Index(lastPushTime)

Linked == conn \in {"up", "closed"}

Stream == buffer \o wire

Rest == IF Holding THEN SubSeq(Stream, found.length + 2, Len(Stream)) ELSE Stream

LastIndex == IF delivered = <<>> THEN 0 ELSE PushIndex(delivered[Len(delivered)])

BacklogOK == Linked => /\ Framing(PushProtocol, Rest, Here, sent) /\ sent <= published
                       /\ Len(buffer) + Len(wire) <= MaxInFlight

HandoverOK ==
  Holding =>    /\ found.start = 0 /\ found.length + 1 <= Len(buffer)
                   /\ buffer[found.length + 1] = Separator
                   /\ \/ Message(found) = Heartbeat
                      \/ Here >= 1 /\ Message(found) = Push[Here] /\ LastIndex < Here

OrderOK == LastIndex <= Here /\ Here <= published

StoreOK == /\ Index(stored) <= published
           /\ ~ ResumeLost => LastIndex <= Index(stored)

FeedInv == Framed => BacklogOK /\ HandoverOK /\ OrderOK /\ StoreOK

LEMMA StreamType ==
  ASSUME IInv
  PROVE  /\ buffer \in Seq(Bytes) /\ wire \in Seq(Bytes) /\ Stream \in Seq(Bytes)
         /\ Len(buffer) \in Nat /\ Len(wire) \in Nat /\ Len(Stream) = Len(buffer) + Len(wire)
         /\ Here \in 0 .. Len(Push) /\ Len(Push) \in Nat
         /\ sent \in 0 .. Len(Push) /\ published \in 0 .. Len(Push)
         /\ Holding => found.length \in Nat \ {0}
         /\ Index(stored) \in Nat
<1>1. buffer \in Seq(Bytes) /\ wire \in Seq(Bytes)
  BY DEF IInv, TypeOK
<1>2. Holding => found.length \in Nat \ {0}
  BY DEF IInv, TypeOK, BufferConsistent
<1>3. sent \in 0 .. Len(Push) /\ published \in 0 .. Len(Push)
  BY DEF IInv, TypeOK
<1> QED BY <1>1, <1>2, <1>3, PushLen, IndexRange DEF Stream, Here

LEMMA InitFeedInv == Init => FeedInv
<1> SUFFICES ASSUME Init PROVE FeedInv
  OBVIOUS
<1>1. Here = 0
  BY IndexOfTime DEF Init, Here
<1>2. LastIndex = 0 /\ ~ Linked /\ ~ Holding /\ published = 0
  BY DEF Init, LastIndex, Linked, Holding
<1>3. Index(stored) = 0
  BY IndexOfTime DEF Init
<1> QED BY <1>1, <1>2, <1>3 DEF FeedInv, BacklogOK, HandoverOK, OrderOK, StoreOK

(* Steps that look at no bytes and move no push: the calls that return     *)
(* without a message, and the end of a connection.                         *)
LEMMA NothingMoves ==
  ASSUME IInv, FeedInv, published' \in Nat, published <= published',
         UNCHANGED <<buffer, lastPushTime, stored, delivered, faults>>,
         \/ pc' = pc /\ found' = found
         \/ ~ Holding /\ ~ Holding',
         Linked' => Linked /\ wire' = wire /\ sent' = sent
  PROVE  FeedInv'
<1> SUFFICES ASSUME Framed PROVE (BacklogOK /\ HandoverOK /\ OrderOK /\ StoreOK)'
  BY DEF FeedInv, Framed
<1>1. BacklogOK /\ HandoverOK /\ OrderOK /\ StoreOK
  BY DEF FeedInv
<1>2. Here' = Here /\ LastIndex' = LastIndex
  BY DEF Here, LastIndex
<1>3. sent \in Nat /\ published \in Nat /\ Here \in Nat
  BY StreamType
<1>4. OrderOK'
  <2>1. LastIndex <= Here /\ Here <= published
    BY <1>1 DEF OrderOK
  <2>. HIDE DEF Here, LastIndex
  <2> QED BY <1>2, <1>3, <2>1 DEF OrderOK
<1>5. HandoverOK'
  <2> SUFFICES ASSUME Holding' PROVE HandoverOK'
    BY DEF HandoverOK
  <2>1. Holding /\ found' = found
    BY DEF Holding
  <2>2. Message(found)' = Message(found)
    BY <2>1 DEF Message
  <2> QED BY <1>1, <1>2, <2>1, <2>2 DEF HandoverOK
<1>6. BacklogOK'
  <2> SUFFICES ASSUME Linked' PROVE BacklogOK'
    BY DEF BacklogOK
  <2>1. Linked /\ wire' = wire /\ sent' = sent
    OBVIOUS
  <2>2. Rest' = Rest
    BY <2>1 DEF Rest, Stream, Holding
  <2>3. Framing(PushProtocol, Rest, Here, sent) /\ sent <= published /\ Len(buffer) + Len(wire) <= MaxInFlight
    BY <1>1, <2>1 DEF BacklogOK
  <2>4. Framing(PushProtocol, Rest, Here, sent)'
    BY <1>2, <2>1, <2>2, <2>3
  <2>5. sent' <= published'
    BY <1>3, <2>1, <2>3
  <2> QED BY <2>1, <2>3, <2>4, <2>5 DEF BacklogOK
<1>7. StoreOK'
  <2>1. Index(stored)' = Index(stored) /\ (ResumeLost' <=> ResumeLost) /\ Index(stored) \in Nat
    BY StreamType DEF ResumeLost
  <2>. HIDE DEF LastIndex
  <2> QED BY <1>1, <1>2, <1>3, <2>1 DEF StoreOK
<1> QED BY <1>4, <1>5, <1>6, <1>7

(* The server writes a message.                                            *)
LEMMA WriteKeepsFeed ==
  ASSUME IInv, FeedInv, NEW m, Write(m), sent' \in 0 .. Len(Push), sent' <= published,
         (m = Heartbeat /\ sent' = sent) \/ (sent' = sent + 1 /\ m = Push[sent']),
         UNCHANGED <<published, conn, buffer, pc, found, lastPushTime, stored, delivered, faults>>
  PROVE  FeedInv'
<1> SUFFICES ASSUME Framed PROVE (BacklogOK /\ HandoverOK /\ OrderOK /\ StoreOK)'
  BY DEF FeedInv, Framed
<1>1. BacklogOK /\ HandoverOK /\ OrderOK /\ StoreOK
  BY DEF FeedInv
<1>2. Here' = Here /\ LastIndex' = LastIndex /\ Message(found)' = Message(found)
  BY DEF Here, LastIndex, Message
<1>3. HandoverOK' /\ OrderOK' /\ StoreOK'
  <2>1. Holding' <=> Holding
    BY DEF Holding
  <2> QED BY <1>1, <1>2, <2>1 DEF HandoverOK, OrderOK, StoreOK, ResumeLost
<1>. DEFINE tail1 == Append(m, Separator)
<1>4. m \in Seq(Bytes) /\ Len(m) \in Nat
  <2>1. sent' = sent + 1 => sent' \in 1 .. Len(Push)
    BY StreamType
  <2> QED BY <2>1, MessageType
<1>5. tail1 \in Seq(Bytes) /\ Len(tail1) = Len(m) + 1
  <2>1. Separator \in Bytes
    BY Zenon, PushAssumption
  <2> QED BY <1>4, <2>1
<1>6. wire' = wire \o tail1 /\ Linked /\ Len(wire) + Len(buffer) + Len(m) + 1 <= MaxInFlight
  BY DEF Write, Linked
<1>. HIDE DEF tail1
<1>7. Stream' = Stream \o tail1
  <2>1. buffer \in Seq(Bytes) /\ wire \in Seq(Bytes)
    BY StreamType
  <2>2. (buffer \o wire) \o tail1 = buffer \o (wire \o tail1)
    BY <1>5, <2>1, ConcatAssociative
  <2> QED BY <1>6, <2>2 DEF Stream
<1>8. Rest' = Rest \o tail1 /\ Rest \in Seq(Bytes)
  <2>0. Holding' <=> Holding
    BY DEF Holding
  <2>1. CASE ~ Holding
    BY <1>7, <2>0, <2>1, StreamType DEF Rest
  <2>2. CASE Holding
    <3> DEFINE k == found.length
               L == Len(Stream)
    <3>1. k \in Nat /\ k + 1 <= L /\ L \in Nat
      BY <1>1, <2>2, StreamType DEF HandoverOK
    <3>2. Rest = SubSeq(Stream, k + 2, L) /\ Rest' = SubSeq(Stream', k + 2, Len(Stream'))
      BY <2>0, <2>2 DEF Rest
    <3>. HIDE DEF k, L
    <3>3. PICK t : t = Stream
      OBVIOUS
    <3>4. t \in Seq(Bytes) /\ Len(t) = L
      BY <3>3, StreamType DEF L
    <3>5. /\ SubSeq(t \o tail1, k + 2, Len(t \o tail1)) = SubSeq(t, k + 2, L) \o tail1
          /\ SubSeq(t, k + 2, L) \in Seq(Bytes)
      <4>1. k + 2 \in Nat /\ 1 <= k + 2 /\ k + 2 <= Len(t) + 1
        BY <3>1, <3>4
      <4> QED BY <1>5, <3>4, <4>1, SuffixOfConcat
    <3> QED BY <1>7, <3>2, <3>3, <3>5
  <2> QED BY <2>1, <2>2
<1>9. Framing(PushProtocol, Rest, Here, sent)
  BY <1>1, <1>6 DEF BacklogOK
<1>10. Framing(PushProtocol, Rest \o tail1, Here, sent')
  <2>1. sent \in 0 .. Len(Push)
    BY StreamType
  <2> QED
    <3>1. /\ Rest \in Seq(PushProtocol.bytes) /\ sent \in 0 .. PushProtocol.count
          /\ sent' \in 0 .. PushProtocol.count
      BY <1>8, <2>1, ProtocolIs
    <3>2. \/ m = PushProtocol.text[0] /\ sent' = sent
          \/ sent' = sent + 1 /\ m = PushProtocol.text[sent']
      <4>1. sent' = sent + 1 => sent' \in 1 .. Len(Push)
        BY StreamType
      <4> QED BY <4>1, ProtocolIs
    <3>3. PICK st : st = Rest
      OBVIOUS
    <3>4. PICK s2 : s2 = sent'
      OBVIOUS
    <3>5. Framing(PushProtocol, st \o Append(m, PushProtocol.separator), Here, s2)
      BY <1>9, <3>1, <3>2, <3>3, <3>4, ProtocolIs, FramingGrows
    <3> QED BY <3>3, <3>4, <3>5, ProtocolIs DEF tail1
<1>11. Len(buffer') + Len(wire') <= MaxInFlight
  <2>1. Len(wire') = Len(wire) + (Len(m) + 1)
    <3>1. wire \in Seq(Bytes)
      BY StreamType
    <3>2. Len(wire \o tail1) = Len(wire) + Len(tail1)
      BY <1>5, <3>1, ConcatProperties
    <3> QED BY <1>5, <1>6, <3>2
  <2> QED BY <1>4, <1>6, <2>1, StreamType, SizeAssumption
<1>12. BacklogOK'
  BY <1>2, <1>8, <1>10, <1>11 DEF BacklogOK
<1> QED BY <1>3, <1>12

(* A new connection resumes where the last one left off, with nothing in   *)
(* the buffer.                                                             *)
LEMMA StartKeepsFeed ==
  ASSUME IInv, FeedInv, StartConnected
  PROVE  FeedInv'
<1> SUFFICES ASSUME Framed PROVE (BacklogOK /\ HandoverOK /\ OrderOK /\ StoreOK)'
  BY DEF FeedInv, Framed, StartConnected
<1>1. OrderOK /\ StoreOK
  BY DEF FeedInv
<1>2. /\ pc' = "idle" /\ sent' = Here /\ wire' = <<>> /\ size = 0
      /\ UNCHANGED <<buffer, lastPushTime, stored, delivered, published, faults>>
      /\ ~ Holding'
  BY DEF StartConnected, Framed, receive, Here, Holding
<1>3. Here' = Here /\ LastIndex' = LastIndex
  BY <1>2 DEF Here, LastIndex
<1>4. buffer = <<>>
  BY <1>2 DEF IInv, TypeOK, BufferConsistent
<1>5. Rest' = <<>> /\ Len(buffer') + Len(wire') = 0
  BY <1>2, <1>4 DEF Rest, Stream
<1>6. Framing(PushProtocol, <<>>, Here, Here)
  BY StreamType, ProtocolIs, EmptyFraming
<1>7. BacklogOK'
  <2>1. sent' <= published'
    BY <1>1, <1>2 DEF OrderOK
  <2>2. Framing(PushProtocol, Rest, Here, sent)'
    BY <1>2, <1>3, <1>5, <1>6
  <2> QED BY <1>5, <2>1, <2>2, SizeAssumption DEF BacklogOK
<1>8. HandoverOK' /\ OrderOK' /\ StoreOK'
  BY <1>1, <1>2, <1>3 DEF HandoverOK, OrderOK, StoreOK, ResumeLost
<1> QED BY <1>7, <1>8

(* A recv that was CURLE_OK: bytes is what the buffer and the chunk hold,  *)
(* and the first part of the stream.                                       *)
Received(bytes) ==
  /\ pc = "recv" /\ Linked /\ Scan(bytes) /\ ChunkOf(PushProtocol, bytes, Stream)
  /\ bytes \o wire' = Stream /\ wire' \in Seq(Bytes)
  /\ UNCHANGED <<published, sent, conn, stored, delivered, faults>>

LEMMA ReceivedChunk ==
  ASSUME IInv, Framed, (\E n \in 1 .. Len(wire) : RecvBytes(n)) \/ RecvClosed
  PROVE  \E bytes : Received(bytes)
<1>. USE DEF server, client, receive, output
<1>0. /\ buffer \in Seq(Bytes) /\ wire \in Seq(Bytes) /\ Stream \in Seq(Bytes)
      /\ Len(buffer) \in Nat /\ Len(wire) \in Nat
  BY StreamType
<1>1. ASSUME NEW n \in 1 .. Len(wire), RecvBytes(n)
      PROVE  \E bytes : Received(bytes)
  <2> DEFINE bytes == buffer \o SubSeq(wire, 1, n)
  <2>1. /\ pc = "recv" /\ Linked /\ Scan(bytes) /\ wire' = SubSeq(wire, n + 1, Len(wire))
        /\ n < Len(wire) => wire[n + 1] # Separator
        /\ UNCHANGED <<published, sent, conn, stored, delivered, faults>>
    BY <1>1 DEF RecvBytes, Linked, Framed
  <2>2. /\ FirstBytes(bytes, Stream, Separator) /\ bytes \in Seq(Bytes)
        /\ SubSeq(wire, n + 1, Len(wire)) \in Seq(Bytes)
        /\ bytes \o SubSeq(wire, n + 1, Len(wire)) = Stream
    <3>1. CutWell(wire, n, Separator)
      BY <1>0, <2>1 DEF CutWell
    <3>2. Arrived(Bytes, buffer, wire, n, Separator)
      BY <1>0, <3>1, BytesArrive
    <3> QED BY <3>2, Zenon DEF Arrived, Stream
  <2>. HIDE DEF bytes
  <2>3. ChunkOf(PushProtocol, bytes, Stream)
    BY <1>0, <2>2, ProtocolIs DEF ChunkOf
  <2>8. Received(bytes)
    BY <2>1, <2>2, <2>3 DEF Received
  <2> QED BY <2>8
<1>2. CASE RecvClosed
  <2>1. /\ pc = "recv" /\ Linked /\ wire = <<>> /\ wire' = <<>> /\ Scan(buffer)
        /\ UNCHANGED <<published, sent, conn, stored, delivered, faults>>
    BY <1>2 DEF RecvClosed, Linked
  <2>2. Stream = buffer /\ buffer \o wire' = Stream
    BY <1>0, <2>1, ConcatEmptySeq DEF Stream
  <2>3. ChunkOf(PushProtocol, buffer, Stream)
    BY <1>0, <2>2, ProtocolIs DEF ChunkOf, FirstBytes
  <2>4. wire' \in Seq(Bytes)
    BY <2>1
  <2>5. Received(buffer)
    BY <2>1, <2>2, <2>3, <2>4 DEF Received
  <2> QED BY <2>5
<1> QED BY <1>1, <1>2

(* The message taken is to be handed over, and the resume point in memory  *)
(* moves to it if it is a push.                                            *)
LEMMA ScanTakes ==
  ASSUME IInv, NEW bytes, Received(bytes), NEW m, NEW j, Taken(PushProtocol, bytes, Stream, Here, sent, j, m)
  PROVE  /\ buffer' = bytes /\ Holding' /\ pc' # "idle" /\ found'.start = 0 /\ found'.length = Len(m)
         /\ Message(found)' = m /\ Here' = j
<1>. DEFINE json == getPushJson(bytes, Len(bytes))
            time == TimeOf(SubSeq(bytes, json.start + 1, json.start + json.length))
<1>1. \/ /\ json.length > 0
         /\ buffer' = bytes /\ pc' \in {"open", "notify"} /\ found' = json
         /\ lastPushTime' = IF time = None THEN lastPushTime ELSE time
      \/ json.length = -1
  BY DEF Received, Scan, Take
<1>2. /\ NextMessage(Here, sent, j, m) /\ j \in 0 .. Len(Push)
      /\ Len(m) \in Nat /\ Len(m) + 1 <= Len(bytes)
      /\ json = [start |-> 0, length |-> Len(m)]
      /\ SubSeq(bytes, 1, Len(m)) = m
  BY MessageTaken
<1>3. json.start = 0 /\ json.length = Len(m) /\ json.length # -1
  BY <1>2
<1>4. json.start + 1 = 1 /\ json.start + json.length = Len(m)
  BY <1>2, <1>3
<1>5. time = TimeOf(m)
  BY <1>2, <1>4
<1>. HIDE DEF json, time
<1>6. /\ buffer' = bytes /\ Holding' /\ pc' # "idle" /\ found' = json
      /\ lastPushTime' = IF time = None THEN lastPushTime ELSE time
  BY <1>1, <1>3 DEF Holding
<1>7. Message(found)' = m
  <2>1. Message(found)' = SubSeq(bytes, json.start + 1, json.start + json.length)
    BY <1>6 DEF Message
  <2> QED BY <1>2, <1>4, <2>1
<1>8. Here' = j
  <2>1. CASE m = Heartbeat /\ j = Here
    <3>1. time = None
      BY <1>5, <2>1, HeartbeatHasNoTime
    <3> QED BY <1>6, <2>1, <3>1 DEF Here
  <2>2. CASE j = Here + 1 /\ j <= sent /\ j \in 1 .. Len(Push) /\ m = Push[j]
    <3>1. time = Times[j] /\ time # None
      BY <1>5, <2>2, FeedFacts, IndexOfTime
    <3> QED BY <1>6, <2>2, <3>1, IndexOfTime DEF Here
  <2> QED BY <1>2, <2>1, <2>2 DEF NextMessage
<1> QED BY <1>3, <1>6, <1>7, <1>8

(* What a scan comes to: no message is complete yet and nothing moves, or  *)
(* the first message of the stream is taken.                               *)
LEMMA ScanComesTo ==
  ASSUME IInv, FeedInv, Framed, NEW bytes, Received(bytes)
  PROVE  \/ buffer' = bytes /\ pc' = "recv" /\ lastPushTime' = lastPushTime
         \/ \E m, j : Taken(PushProtocol, bytes, Stream, Here, sent, j, m)
<1>1. ChunkOf(PushProtocol, bytes, Stream) /\ pc = "recv" /\ Linked /\ Scan(bytes)
  BY DEF Received
<1>2. Framing(PushProtocol, Stream, Here, sent) /\ Len(buffer) + Len(wire) <= MaxInFlight
  BY <1>1 DEF FeedInv, BacklogOK, Rest, Holding
<1>3. /\ Len(bytes) \in Nat /\ Len(Stream) \in Nat /\ Len(Stream) <= BufferSize
      /\ BufferSize \in Nat \ {0}
  <2>1. bytes \in Seq(Bytes) /\ Len(Stream) = Len(buffer) + Len(wire)
    BY <1>1, StreamType, ProtocolIs DEF ChunkOf
  <2> QED BY <1>2, <2>1, SizeAssumption, LenProperties, StreamType
<1>4. CASE /\ getPushJson(bytes, Len(bytes)).length = -1
           /\ Len(bytes) < Len(Stream) \/ Len(Stream) = 0
  <2>1. Len(bytes) # BufferSize
    <3>1. Len(bytes) <= Len(Stream)
      BY <1>1 DEF ChunkOf, FirstBytes
    <3> QED BY <1>3, <1>4, <3>1
  <2> QED BY <1>1, <1>4, <2>1 DEF Scan
<1> QED BY <1>1, <1>2, <1>4, ProtocolIs, ScanFramed

LEMMA ScanKeepsFeed ==
  ASSUME IInv, FeedInv, Framed, NEW bytes, Received(bytes)
  PROVE  FeedInv'
<1>. /\ bytes \in Seq(Bytes) /\ Stream \in Seq(Bytes) /\ Len(bytes) <= Len(Stream)
     /\ \A p \in 1 .. Len(bytes) : bytes[p] = Stream[p]
  BY ProtocolIs DEF Received, ChunkOf, FirstBytes
<1>. /\ bytes \o wire' = Stream /\ wire' \in Seq(Bytes) /\ pc = "recv" /\ Linked
     /\ UNCHANGED <<published, sent, conn, stored, delivered, faults>>
  BY DEF Received
<1>1. /\ Framing(PushProtocol, Stream, Here, sent) /\ sent <= published /\ LastIndex <= Here /\ Here <= published
      /\ Len(buffer) + Len(wire) <= MaxInFlight /\ StoreOK
  BY DEF FeedInv, BacklogOK, OrderOK, Rest, Holding
<1>2. LastIndex' = LastIndex
  BY DEF LastIndex
<1>3. Linked' /\ Framed' /\ StoreOK'
  BY <1>1, <1>2 DEF Linked, Framed, StoreOK, ResumeLost
<1>4. buffer' = bytes => Len(buffer') + Len(wire') <= MaxInFlight
  <2>1. Len(bytes \o wire') = Len(bytes) + Len(wire')
    BY ConcatProperties
  <2> QED BY <1>1, <2>1, StreamType
<1>5. CASE buffer' = bytes /\ pc' = "recv" /\ lastPushTime' = lastPushTime
  <2>1. Here' = Here /\ Rest' = Stream /\ ~ Holding'
    BY <1>5 DEF Here, Rest, Stream, Holding
  <2>2. Framing(PushProtocol, Rest, Here, sent)'
    BY <1>1, <2>1
  <2> QED BY <1>1, <1>2, <1>3, <1>4, <1>5, <2>1, <2>2 DEF FeedInv, BacklogOK, HandoverOK, OrderOK
<1>6. ASSUME NEW m, NEW j, Taken(PushProtocol, bytes, Stream, Here, sent, j, m) PROVE FeedInv'
  <2>1. /\ NextMessage(Here, sent, j, m) /\ j \in 0 .. Len(Push)
        /\ Len(m) \in Nat /\ Len(m) + 1 <= Len(bytes)
        /\ Stream[Len(m) + 1] = Separator
        /\ Framing(PushProtocol, SubSeq(Stream, Len(m) + 2, Len(Stream)), j, sent)
    BY <1>6, MessageTaken
  <2>2. /\ buffer' = bytes /\ Holding' /\ found'.start = 0 /\ found'.length = Len(m)
        /\ Message(found)' = m /\ Here' = j
    BY <1>6, ScanTakes
  <2>3. /\ Here <= j /\ j <= published
        /\ m = Heartbeat \/ (j >= 1 /\ m = Push[j] /\ Here < j)
    BY <1>1, <2>1, StreamType DEF NextMessage
  <2>4. Rest' = SubSeq(Stream, Len(m) + 2, Len(Stream))
    BY <2>2 DEF Rest, Stream
  <2>5. Framing(PushProtocol, Rest, Here, sent)'
    BY <2>1, <2>2, <2>4
  <2>6. BacklogOK'
    BY <1>1, <1>4, <2>2, <2>5 DEF BacklogOK
  <2>7. buffer'[found'.length + 1] = Separator /\ found'.length + 1 <= Len(buffer')
    <3>1. Len(m) + 1 \in 1 .. Len(bytes)
      BY <2>1, LenProperties
    <3> QED BY <2>1, <2>2, <3>1
  <2>8. OrderOK' /\ HandoverOK'
    <3>1. LastIndex \in Int
      BY DEF LastIndex, PushIndex
    <3>2. Here \in Int /\ j \in Int
      BY <2>1, StreamType
    <3>3. LastIndex <= j /\ (Here < j => LastIndex < j)
      <4>. HIDE DEF LastIndex, Here
      <4> QED BY <1>1, <2>3, <3>1, <3>2
    <3>. HIDE DEF Here
    <3> QED BY <1>2, <2>2, <2>3, <2>7, <3>3 DEF OrderOK, HandoverOK
  <2> QED BY <1>3, <2>6, <2>8 DEF FeedInv
<1> QED BY <1>5, <1>6, ScanComesTo

LEMMA ReceiveKeepsFeed ==
  ASSUME IInv, FeedInv, Receive
  PROVE  FeedInv'
<1>. USE DEF server, client, receive, output
<1>0. published \in Nat
  BY StreamType
<1>1. CASE (\E n \in 1 .. Len(wire) : RecvBytes(n)) \/ RecvClosed
  <2> SUFFICES ASSUME Framed PROVE FeedInv'
    BY <1>1 DEF FeedInv, Framed, RecvBytes, RecvClosed
  <2> QED BY <1>1, ReceivedChunk, ScanKeepsFeed
<1>2. CASE RecvAgain
  <2>1. /\ ~ Holding /\ ~ Holding'
        /\ UNCHANGED <<published, sent, wire, conn, buffer, lastPushTime, stored, delivered, faults>>
    BY <1>2 DEF RecvAgain, Return, Holding
  <2>2. Linked' = Linked
    BY <2>1 DEF Linked
  <2> QED BY <1>0, <2>1, <2>2, NothingMoves
<1>3. CASE RecvError
  <2>1. /\ ~ Holding /\ ~ Holding'
        /\ UNCHANGED <<published, sent, wire, conn, buffer, lastPushTime, stored, delivered, faults>>
    BY <1>3 DEF RecvError, Return, Holding
  <2>2. Linked' = Linked
    BY <2>1 DEF Linked
  <2> QED BY <1>0, <2>1, <2>2, NothingMoves
<1> QED BY <1>1, <1>2, <1>3 DEF Receive

(* The callback: a heartbeat is not handed over, a push is one that comes  *)
(* after all the callback has seen.                                        *)
LEMMA NotifyDelivers ==
  ASSUME IInv, FeedInv, Framed, Notify
  PROVE  \/ delivered' = delivered
         \/ /\ delivered' = Append(delivered, Push[Here])
            /\ Here \in 1 .. published /\ LastIndex < Here /\ LastIndex \in Nat
<1>1. HandoverOK /\ OrderOK /\ Holding
  BY DEF FeedInv, Notify, Holding
<1>2. CASE Message(found) = Heartbeat
  <2>1. SubSeq(Heartbeat, 1, 2) = Heartbeat
    <3>1. Heartbeat \in Seq(Bytes) /\ Len(Heartbeat) = 2
      BY HeartbeatIs
    <3>2. PICK h : h = Heartbeat
      OBVIOUS
    <3>3. SubSeq(h, 1, 2) = h
      BY <3>1, <3>2
    <3> QED BY <3>2, <3>3
  <2> QED BY <1>2, <2>1 DEF Notify
<1>3. CASE Here >= 1 /\ Message(found) = Push[Here] /\ LastIndex < Here
  <2>1. LastIndex \in Nat
    BY DEF LastIndex, PushIndex
  <2>2. delivered' = delivered \/ delivered' = Append(delivered, Push[Here])
    BY <1>3 DEF Notify
  <2>3. Here \in 1 .. published
    BY <1>1, <1>3, StreamType DEF OrderOK
  <2> QED BY <1>3, <2>1, <2>2, <2>3
<1> QED BY <1>1, <1>2, <1>3 DEF HandoverOK

LEMMA NotifyKeepsFeed ==
  ASSUME IInv, FeedInv, Notify
  PROVE  FeedInv'
<1> SUFFICES ASSUME Framed PROVE FeedInv'
  BY DEF FeedInv, Framed, Notify
<1>1. BacklogOK /\ HandoverOK /\ OrderOK /\ StoreOK
  BY DEF FeedInv
<1>2. /\ Holding /\ ~ Holding' /\ pc = "notify" /\ pc' = "idle"
      /\ UNCHANGED <<published, sent, wire, conn, lastPushTime, stored, faults>>
  BY DEF Notify, Return, Holding, server, client
<1>3. Here' = Here /\ Linked' = Linked
  BY <1>2 DEF Here, Linked
<1>4. OrderOK'
  <2>1. CASE delivered' = delivered
    BY <1>1, <1>2, <1>3, <2>1 DEF OrderOK, LastIndex
  <2>2. CASE delivered' = Append(delivered, Push[Here]) /\ Here \in 1 .. published
    <3>1. delivered \in Seq(Seq(Bytes)) /\ Here \in 1 .. Len(Push)
      BY <2>2, StreamType DEF IInv, TypeOK
    <3>2. delivered' # <<>> /\ delivered'[Len(delivered')] = Push[Here]
      BY <2>2, <3>1
    <3>3. LastIndex' = Here
      BY <3>1, <3>2, PushIndexOfPush DEF LastIndex
    <3> QED BY <1>1, <1>2, <1>3, <3>1, <3>3 DEF OrderOK
  <2> QED BY <2>1, <2>2, NotifyDelivers
<1>5. BacklogOK'
  <2> SUFFICES ASSUME Linked PROVE BacklogOK'
    BY <1>3 DEF BacklogOK
  <2>1. PICK k \in Nat : k = found.length /\ k + 1 <= Len(buffer)
    BY <1>1, <1>2, StreamType DEF HandoverOK
  <2>2. PICK n \in Nat : n = Len(buffer) /\ n = size
    BY <1>2, StreamType DEF IInv, TypeOK, BufferConsistent
  <2>3. found.start = 0 /\ buffer \in Seq(Bytes) /\ wire \in Seq(Bytes)
    BY <1>1, <1>2, StreamType DEF HandoverOK
  <2>4. buffer' = Remains(buffer, k, NUL)
    <3>1. Terminated(found) = [p \in 1 .. n |-> IF p = k + 1 THEN NUL ELSE buffer[p]]
      BY <2>1, <2>2, <2>3 DEF Terminated
    <3>2. buffer' = IF n - (k + 1) > 0 THEN SubSeq(Terminated(found), k + 2, n) ELSE <<>>
      BY <2>1, <2>2, <2>3 DEF Notify, Left
    <3> QED BY <2>2, <3>1, <3>2, Zenon DEF Remains
  <2>5. /\ buffer' \o wire = SubSeq(Stream, k + 2, Len(Stream))
        /\ Len(buffer') = n - (k + 1)
    <3>1. /\ Remains(buffer, k, NUL) \o wire = SubSeq(buffer \o wire, k + 2, Len(buffer \o wire))
          /\ Len(Remains(buffer, k, NUL)) = Len(buffer) - (k + 1)
      <4>1. PICK t \in Seq(Bytes) : t = buffer
        BY <2>3
      <4>2. PICK u \in Seq(Bytes) : u = wire
        BY <2>3
      <4>3. k + 1 <= Len(t)
        BY <2>1, <4>1
      <4>4. /\ Remains(t, k, NUL) \o u = SubSeq(t \o u, k + 2, Len(t \o u))
            /\ Len(Remains(t, k, NUL)) = Len(t) - (k + 1)
        BY <4>3, MessageComesOff
      <4> QED BY <4>1, <4>2, <4>4, Zenon
    <3> QED BY <2>2, <2>4, <3>1, Zenon DEF Stream
  <2>6. Rest' = Rest
    BY <1>2, <2>1, <2>5 DEF Rest, Stream
  <2>7. Len(buffer') + Len(wire') <= MaxInFlight
    <3>1. Len(buffer) + Len(wire) <= MaxInFlight /\ Len(wire) \in Nat
      BY <1>1, StreamType DEF BacklogOK
    <3>2. Len(buffer') \in Nat /\ Len(buffer') <= Len(buffer) /\ Len(buffer) \in Nat /\ wire' = wire
      BY <1>2, <2>1, <2>2, <2>5
    <3> QED BY <3>1, <3>2, SizeAssumption
  <2>8. Framing(PushProtocol, Rest, Here, sent) /\ sent <= published
    BY <1>1 DEF BacklogOK
  <2>9. Framing(PushProtocol, Rest, Here, sent)'
    BY <1>2, <1>3, <2>6, <2>8
  <2> QED BY <1>2, <2>7, <2>8, <2>9 DEF BacklogOK
<1>6. HandoverOK'
  BY <1>2 DEF HandoverOK
<1>7. StoreOK'
  <2>1. Index(stored)' = Index(stored) /\ (ResumeLost' <=> ResumeLost)
    BY <1>2 DEF ResumeLost
  <2>2. ~ ResumeLost => stored = lastPushTime
    BY <1>2 DEF IInv, ResumePointPersisted, ResumeLost, Loaded
  <2>3. LastIndex' <= Here
    BY <1>3, <1>4 DEF OrderOK
  <2>. HIDE DEF LastIndex
  <2> QED BY <1>1, <1>2, <2>1, <2>2, <2>3 DEF StoreOK, Here
<1> QED BY <1>4, <1>5, <1>6, <1>7 DEF FeedInv

(* A save moves no push: the file is emptied, which a restart notices, and *)
(* then holds the resume point of memory.                                  *)
LEMMA StoreKeepsFeed ==
  ASSUME IInv, FeedInv, Store
  PROVE  FeedInv'
<1>. USE DEF server, client, receive, output
<1>1. /\ UNCHANGED <<published, sent, wire, conn, lastPushTime, buffer, found, delivered, faults>>
      /\ Holding /\ Holding'
      /\ stored' = Torn \/ stored' = lastPushTime \/ (stored' = stored /\ "disk" \in faults)
  BY DEF Store, StoreOpen, StoreWrite, Holding
<1> SUFFICES ASSUME Framed PROVE (BacklogOK /\ HandoverOK /\ OrderOK /\ StoreOK)'
  BY <1>1 DEF FeedInv, Framed
<1>2. BacklogOK /\ HandoverOK /\ OrderOK /\ StoreOK
  BY DEF FeedInv
<1>3. Here' = Here /\ LastIndex' = LastIndex /\ Message(found)' = Message(found) /\ Rest' = Rest
  BY <1>1 DEF Here, LastIndex, Message, Rest, Stream
<1>4. (BacklogOK /\ HandoverOK /\ OrderOK)'
  <2>1. Framing(PushProtocol, Rest, Here, sent)' <=> Framing(PushProtocol, Rest, Here, sent)
    BY <1>1, <1>3
  <2>2. BacklogOK'
    BY <1>1, <1>2, <2>1 DEF BacklogOK, Linked
  <2>3. (HandoverOK /\ OrderOK)'
    BY <1>1, <1>2, <1>3 DEF HandoverOK, OrderOK
  <2> QED BY <2>2, <2>3
<1>5. StoreOK'
  <2>. HIDE DEF LastIndex
  <2>1. CASE stored' = Torn
    <3>1. Index(stored)' = 0 /\ ResumeLost'
      BY <2>1, IndexOfTime DEF ResumeLost
    <3> QED BY <1>1, <3>1, StreamType DEF StoreOK
  <2>2. CASE stored' = lastPushTime
    <3>1. Index(stored)' = Here
      BY <2>2 DEF Here
    <3> QED BY <1>1, <1>2, <1>3, <3>1 DEF StoreOK, OrderOK
  <2>3. CASE stored' = stored /\ "disk" \in faults
    BY <1>1, <1>2, <2>3 DEF StoreOK, ResumeLost
  <2> QED BY <1>1, <2>1, <2>2, <2>3
<1> QED BY <1>4, <1>5

(* The process starts again: from the resume point in the store, or from   *)
(* none, and then the callback has seen nothing since.                     *)
LEMMA RestartKeepsFeed ==
  ASSUME IInv, FeedInv, Restart
  PROVE  FeedInv'
<1> SUFFICES ASSUME Framed PROVE (BacklogOK /\ HandoverOK /\ OrderOK /\ StoreOK)'
  BY DEF FeedInv, Framed, Restart
<1>1. StoreOK
  BY DEF FeedInv
<1>2. /\ conn' = "none" /\ ~ Holding' /\ lastPushTime' \in Loaded(stored)
      /\ delivered' = IF ResumeLost THEN <<>> ELSE delivered
      /\ UNCHANGED <<published, stored, faults>>
  BY DEF Restart, Disconnect, Return, Holding
<1>3. Here' = Index(stored)
  <2>1. CASE stored = Torn
    BY <1>2, <2>1, IndexOfTime DEF Here, Loaded
  <2>2. CASE stored # Torn
    BY <1>2, <2>2 DEF Here, Loaded
  <2> QED BY <2>1, <2>2
<1>4. LastIndex' <= Index(stored)
  <2>1. CASE ResumeLost
    BY <1>2, <2>1, StreamType DEF LastIndex
  <2>2. CASE ~ ResumeLost
    BY <1>1, <1>2, <2>2 DEF LastIndex, StoreOK
  <2> QED BY <2>1, <2>2
<1>5. (ResumeLost' <=> ResumeLost) /\ Index(stored)' = Index(stored)
  BY <1>2 DEF ResumeLost
<1>6. (OrderOK /\ StoreOK)'
  <2>. HIDE DEF LastIndex, Here
  <2> QED BY <1>1, <1>2, <1>3, <1>4, <1>5 DEF OrderOK, StoreOK
<1> QED BY <1>2, <1>6 DEF BacklogOK, HandoverOK, Linked

LEMMA EnvironmentKeepsFeed ==
  ASSUME IInv, FeedInv, Environment
  PROVE  FeedInv'
<1>. USE DEF server, client, receive, output
<1>0. published \in 0 .. Len(Push) /\ sent \in 0 .. Len(Push) /\ Len(Push) \in Nat
  BY StreamType
<1>1. CASE Publish
  <2>1. published' \in Nat /\ published <= published'
    BY <1>0, <1>1 DEF Publish
  <2>2. UNCHANGED <<buffer, lastPushTime, stored, delivered, faults, pc, found, conn, wire, sent>>
    BY <1>1 DEF Publish
  <2>3. Linked' = Linked
    BY <2>2 DEF Linked
  <2> QED BY <2>1, <2>2, <2>3, NothingMoves
<1>2. CASE Transmit
  <2>1. Write(Push[sent + 1]) /\ sent' = sent + 1 /\ sent < published
    BY <1>2 DEF Transmit
  <2>2. sent' \in 0 .. Len(Push) /\ sent' <= published
    BY <1>0, <2>1
  <2>3. UNCHANGED <<published, conn, buffer, pc, found, lastPushTime, stored, delivered, faults>>
    BY <1>2 DEF Transmit
  <2> QED BY <2>1, <2>2, <2>3, WriteKeepsFeed
<1>3. CASE Echo
  <2>1. Write(Heartbeat) /\ sent' = sent /\ conn = "up"
    BY <1>3 DEF Echo, Write
  <2>2. UNCHANGED <<published, conn, buffer, pc, found, lastPushTime, stored, delivered, faults>>
    BY <1>3 DEF Echo
  <2>3. CASE Framed
    <3>1. sent' <= published
      BY <2>1, <2>3 DEF FeedInv, BacklogOK, Linked
    <3> QED BY <1>0, <2>1, <2>2, <3>1, WriteKeepsFeed
  <2>4. CASE ~ Framed
    BY <2>2, <2>4 DEF FeedInv, Framed
  <2> QED BY <2>3, <2>4
<1>4. CASE PeerClose
  <2>1. /\ conn = "up" /\ UNCHANGED <<published, sent, wire, buffer, pc, found, lastPushTime, stored, delivered, faults>>
    BY <1>4 DEF PeerClose
  <2>2. Linked
    BY <2>1 DEF Linked
  <2> QED BY <1>0, <2>1, <2>2, NothingMoves
<1>5. CASE PeerFail
  <2>1. UNCHANGED <<published, buffer, pc, found, lastPushTime, stored, delivered, faults>> /\ ~ Linked'
    BY <1>5 DEF PeerFail, Linked
  <2> QED BY <1>0, <2>1, NothingMoves
<1>6. CASE Tick
  <2>1. UNCHANGED <<published, sent, wire, conn, buffer, pc, found, lastPushTime, stored, delivered, faults>>
    BY <1>6 DEF Tick
  <2>2. Linked' = Linked
    BY <2>1 DEF Linked
  <2> QED BY <1>0, <2>1, <2>2, NothingMoves
<1> QED BY <1>1, <1>2, <1>3, <1>4, <1>5, <1>6, RestartKeepsFeed DEF Environment

LEMMA ApplicationKeepsFeed ==
  ASSUME IInv, FeedInv, Application
  PROVE  FeedInv'
<1>. USE DEF server, client, receive, output
<1>0. published \in Nat
  BY StreamType
<1>1. CASE \/ \E set \in BOOLEAN : parseSetPushCallback(set)
           \/ StartFailed \/ parseRunPushLoop
  <2>1. UNCHANGED <<published, sent, wire, conn, buffer, pc, found, lastPushTime, stored, delivered, faults>>
    BY <1>1 DEF parseSetPushCallback, StartFailed, parseRunPushLoop
  <2>2. Linked' = Linked
    BY <2>1 DEF Linked
  <2> QED BY <1>0, <2>1, <2>2, NothingMoves
<1>2. CASE parseStopPushService
  <2>1. UNCHANGED <<published, buffer, pc, found, lastPushTime, stored, delivered, faults>> /\ ~ Linked'
    BY <1>2 DEF parseStopPushService, Disconnect, Linked
  <2> QED BY <1>0, <2>1, NothingMoves
<1> QED BY <1>1, <1>2, StartKeepsFeed DEF Application, parseStartPushService

LEMMA CallKeepsFeed ==
  ASSUME IInv, FeedInv, Process \/ SocketException
  PROVE  FeedInv'
<1>. USE DEF server, client, receive, output
<1>0. published \in Nat
  BY StreamType
<1>1. CASE Process
  <2>1. /\ UNCHANGED <<published, sent, wire, conn, buffer, lastPushTime, stored, delivered, faults>>
        /\ ~ Holding /\ ~ Holding'
    BY <1>1 DEF Process, Return, Holding
  <2>2. Linked' = Linked
    BY <2>1 DEF Linked
  <2> QED BY <1>0, <2>1, <2>2, NothingMoves
<1>2. CASE SocketException
  <2>1. /\ UNCHANGED <<published, buffer, lastPushTime, stored, delivered, faults>>
        /\ ~ Holding /\ ~ Holding' /\ ~ Linked'
    BY <1>2 DEF SocketException, Disconnect, Return, Linked, Holding
  <2> QED BY <1>0, <2>1, NothingMoves
<1> QED BY <1>1, <1>2

LEMMA StutterKeepsFeed ==
  ASSUME IInv, FeedInv, UNCHANGED vars
  PROVE  FeedInv'
<1>0. published \in Nat
  BY StreamType
<1>1. UNCHANGED <<published, sent, wire, conn, buffer, pc, found, lastPushTime, stored, delivered, faults>>
  BY DEF vars, server, client, receive, output
<1>2. Linked' = Linked
  BY <1>1 DEF Linked
<1> QED BY <1>0, <1>1, <1>2, NothingMoves

LEMMA FeedInvariant == Spec => []FeedInv
<1>1. Init => FeedInv
  BY InitFeedInv
<1>2. IInv /\ FeedInv /\ [Next]_vars => FeedInv'
  BY EnvironmentKeepsFeed, ApplicationKeepsFeed, CallKeepsFeed, ReceiveKeepsFeed,
     StoreKeepsFeed, NotifyKeepsFeed, StutterKeepsFeed DEF Next
<1> QED BY <1>1, <1>2, PushInvariant, PTL DEF Spec

-----------------------------------------------------------------------------
(* The refinement.                                                         *)
Seen == IF Framed THEN [k \in 1 .. Len(delivered) |-> PushIndex(delivered[k])] ELSE <<>>

LEMMA SeenGrows ==
  ASSUME IInv, Framed, NEW text, text \in Seq(Bytes), delivered' = Append(delivered, text),
         UNCHANGED faults
  PROVE  /\ Seen' = Append(Seen, PushIndex(text))
         /\ LastIndex = IF Seen = <<>> THEN 0 ELSE Seen[Len(Seen)]
<1>1. delivered \in Seq(Seq(Bytes)) /\ Len(delivered) \in Nat
  BY LenProperties DEF IInv, TypeOK
<1>2. PICK n \in Nat : n = Len(delivered)
  BY <1>1
<1>3. /\ Len(delivered') = n + 1 /\ delivered'[n + 1] = text
      /\ \A k \in 1 .. n : delivered'[k] = delivered[k]
  BY <1>1, <1>2
<1>4. Seen = [k \in 1 .. n |-> PushIndex(delivered[k])]
  BY <1>2 DEF Seen
<1>5. Seen' = [k \in 1 .. n + 1 |-> PushIndex(delivered'[k])]
  BY <1>3 DEF Seen, Framed, PushIndex
<1>6. \A k \in 1 .. n : PushIndex(delivered[k]) \in Nat
  BY DEF PushIndex
<1>7. Seen \in Seq(Nat) /\ Len(Seen) = n
  BY <1>4, <1>6
<1>8. PICK x \in Nat : x = PushIndex(text)
  BY DEF PushIndex
<1>9. PICK a : a = Append(Seen, x)
  OBVIOUS
<1>. HIDE DEF Seen
<1>10. Seen' = Append(Seen, PushIndex(text))
  <2>1. /\ a \in Seq(Nat) /\ Len(a) = n + 1 /\ a[n + 1] = x
        /\ \A k \in 1 .. n : a[k] = Seen[k]
    BY <1>7, <1>9, AppendProperties
  <2>2. PICK d : d = delivered'
    OBVIOUS
  <2>3. PICK y : y = Seen'
    OBVIOUS
  <2>4. y \in Seq(Nat) /\ Len(y) = n + 1 /\ \A k \in 1 .. n + 1 : y[k] = PushIndex(delivered'[k])
    <3>1. y = [k \in 1 .. n + 1 |-> PushIndex(d[k])]
      BY <1>5, <2>2, <2>3
    <3>2. \A k \in 1 .. n + 1 : PushIndex(d[k]) \in Nat
      BY PushIndexType
    <3>3. n + 1 \in Nat
      OBVIOUS
    <3>4. y \in Seq(Nat) /\ Len(y) = n + 1
      BY <3>1, <3>2, <3>3, IsASeq
    <3> QED BY <2>2, <3>1, <3>4
  <2>5. ASSUME NEW k \in 1 .. Len(a) PROVE a[k] = y[k]
    <3>1. k \in 1 .. n + 1 /\ (k = n + 1 \/ k \in 1 .. n)
      BY <2>1
    <3> QED BY <1>3, <1>4, <1>8, <2>1, <2>4, <3>1
  <2>6. a = y
    BY <2>1, <2>4, <2>5, SeqEqual
  <2> QED BY <1>8, <1>9, <2>3, <2>6
<1>11. LastIndex = IF Seen = <<>> THEN 0 ELSE Seen[Len(Seen)]
  <2>1. CASE n = 0
    <3>1. delivered = <<>> /\ Seen = <<>>
      BY <1>1, <1>2, <1>7, <2>1, EmptySeq
    <3> QED BY <3>1 DEF LastIndex
  <2>2. CASE n > 0
    <3>1. delivered # <<>> /\ Seen # <<>> /\ n \in 1 .. n
      BY <1>1, <1>2, <1>7, <2>2
    <3> QED BY <1>2, <1>4, <1>7, <3>1 DEF LastIndex
  <2> QED BY <1>2, <2>1, <2>2
<1> QED BY <1>10, <1>11

Saved == Framed /\ ~ ResumeLost

LEMMA FeedStep ==
  ASSUME IInv, FeedInv, [Next]_vars
  PROVE  \/ /\ published < Len(Push) /\ published' = published + 1 /\ Seen' = Seen
            /\ Saved' = Saved
         \/ published' = published /\ Seen' = Seen
         \/ published' = published /\ ~ Saved /\ Seen' = <<>> /\ Saved' = Saved
         \/ /\ published' = published /\ Seen' = Append(Seen, Here) /\ Saved' = Saved
            /\ Here \in LastIndex + 1 .. published
            /\ LastIndex = IF Seen = <<>> THEN 0 ELSE Seen[Len(Seen)]
<1>. USE DEF server, client, receive, output
<1>1. CASE Notify
  <2>1. published' = published /\ UNCHANGED faults /\ Saved' = Saved
    BY <1>1 DEF Notify, Saved, ResumeLost, Framed
  <2>2. CASE ~ Framed \/ delivered' = delivered
    <3>1. CASE ~ Framed
      BY <2>1, <3>1 DEF Seen, Framed
    <3>2. CASE delivered' = delivered
      BY <2>1, <3>2 DEF Seen, Framed, PushIndex
    <3> QED BY <2>2, <3>1, <3>2
  <2>3. CASE Framed /\ delivered' # delivered
    <3>1. /\ delivered' = Append(delivered, Push[Here])
          /\ Here \in 1 .. published /\ LastIndex < Here /\ LastIndex \in Nat
      BY <1>1, <2>3, NotifyDelivers
    <3>2. Here \in 1 .. Len(Push)
      BY <3>1, StreamType
    <3>3. Push[Here] \in Seq(Bytes) /\ PushIndex(Push[Here]) = Here
      BY <3>2, PushFacts, ElementOfSeq, PushIndexOfPush
    <3>4. /\ Seen' = Append(Seen, PushIndex(Push[Here]))
          /\ LastIndex = IF Seen = <<>> THEN 0 ELSE Seen[Len(Seen)]
      BY <2>1, <2>3, <3>1, <3>3, SeenGrows
    <3>5. Here \in LastIndex + 1 .. published
      BY <3>1, StreamType
    <3> QED BY <2>1, <3>3, <3>4, <3>5
  <2> QED BY <2>2, <2>3
<1>2. CASE Publish
  BY <1>2 DEF Publish, Seen, Saved, ResumeLost, Framed, PushIndex
<1>4. CASE Restart
  <2>1. /\ UNCHANGED <<published, stored, faults>>
        /\ delivered' = IF ResumeLost THEN <<>> ELSE delivered
    BY <1>4 DEF Restart
  <2>2. Saved' = Saved /\ (Framed' <=> Framed)
    BY <2>1 DEF Saved, ResumeLost, Framed
  <2>3. CASE Framed /\ ResumeLost
    <3>1. delivered' = <<>>
      BY <2>1, <2>3
    <3>2. Seen' = [k \in 1 .. 0 |-> PushIndex(delivered'[k])]
      BY <2>2, <2>3, <3>1 DEF Seen, PushIndex
    <3>3. Seen' = <<>>
      BY <3>2
    <3> QED BY <2>1, <2>2, <2>3, <3>3 DEF Saved
  <2>4. CASE ~ Framed
    BY <2>1, <2>2, <2>4 DEF Seen
  <2>5. CASE Framed /\ ~ ResumeLost
    <3>1. delivered' = delivered
      BY <2>1, <2>5
    <3>2. PICK d : d = delivered
      OBVIOUS
    <3>3. Seen = [k \in 1 .. Len(d) |-> PushIndex(d[k])]
      BY <2>5, <3>2 DEF Seen
    <3>4. Seen' = [k \in 1 .. Len(d) |-> PushIndex(d[k])]
      BY <2>2, <2>5, <3>1, <3>2 DEF Seen, PushIndex
    <3> QED BY <2>1, <3>3, <3>4
  <2> QED BY <2>3, <2>4, <2>5
<1>3. CASE ~ Notify /\ ~ Publish /\ ~ Restart
  <2>1. published' = published /\ delivered' = delivered /\ faults' = faults
    <3>1. CASE Environment
      BY <1>3, <3>1 DEF Environment, Transmit, Echo, PeerClose, PeerFail, Tick
    <3>2. CASE Application
      BY <3>2 DEF Application, parseSetPushCallback, parseStartPushService, StartConnected,
                  StartFailed, parseStopPushService, parseRunPushLoop
    <3>3. CASE Process \/ SocketException \/ Store
      BY <3>3 DEF Process, SocketException, Store, StoreOpen, StoreWrite
    <3>4. CASE Receive
      BY <3>4 DEF Receive, RecvBytes, RecvClosed, RecvAgain, RecvError
    <3>5. CASE UNCHANGED vars
      BY <3>5 DEF vars
    <3> QED BY <1>3, <3>1, <3>2, <3>3, <3>4, <3>5 DEF Next
  <2> QED BY <2>1 DEF Seen, Framed, PushIndex
<1> QED BY <1>1, <1>2, <1>3, <1>4

(* Whatever the chunks, and across stops and closed connections, the       *)
(* callback gets whole pushes in the order of the server, each at most     *)
(* once, as long as no chunk ends between a message and its separator and  *)
(* none is left in part by an earlier connection.  So it is across a       *)
(* restart of the process at any point of a call but one, between the      *)
(* emptying of the key file and the write of the new time, or with a disk  *)
(* that took all of the writes; after any other restart pushes come again, *)
(* from the first or the last one saved on, in order.                      *)
THEOREM PushImplementsFeed == Spec => ImplementsFeed
<1>1. Init => Feed!Init
  <2> SUFFICES ASSUME Init PROVE Feed!Init
    OBVIOUS
  <2>1. published = 0 /\ Seen = <<>> /\ Saved \in BOOLEAN
    <3>1. delivered = <<>>
      BY DEF Init
    <3>2. Seen = <<>>
      BY <3>1 DEF Seen
    <3> QED BY <3>2 DEF Init, Saved
  <2> QED BY <2>1, Zenon DEF Feed!Init, Seen, Saved
<1>2. IInv /\ FeedInv /\ [Next]_vars => [Feed!Next]_(Feed!vars)
  <2> SUFFICES ASSUME IInv, FeedInv, [Next]_vars PROVE [Feed!Next]_(Feed!vars)
    OBVIOUS
  <2>. USE DEF Feed!Next, Feed!vars, Feed!Publish, Feed!Deliver, Feed!Save, Feed!Forget,
               Feed!LastDelivered, Seen, Saved
  <2>1. CASE /\ published < Len(Push) /\ published' = published + 1 /\ Seen' = Seen
             /\ Saved' = Saved
    BY <2>1, Zenon
  <2>2. CASE published' = published /\ Seen' = Seen
    <3>1. Saved' = Saved \/ Saved' = ~ Saved
      OBVIOUS
    <3>2. CASE Saved' = Saved
      BY <2>2, <3>2, Zenon
    <3>3. CASE Saved' = ~ Saved
      BY <2>2, <3>3, Zenon
    <3> QED BY <3>1, <3>2, <3>3
  <2>3. CASE published' = published /\ ~ Saved /\ Seen' = <<>> /\ Saved' = Saved
    BY <2>3, Zenon
  <2>4. CASE /\ published' = published /\ Seen' = Append(Seen, Here) /\ Saved' = Saved
             /\ Here \in LastIndex + 1 .. published
             /\ LastIndex = IF Seen = <<>> THEN 0 ELSE Seen[Len(Seen)]
    BY <2>4, Zenon
  <2>. HIDE DEF Seen, Saved
  <2> QED BY <2>1, <2>2, <2>3, <2>4, FeedStep
<1> QED BY <1>1, <1>2, PushInvariant, FeedInvariant, PTL DEF Spec, ImplementsFeed, Feed!Spec

-----------------------------------------------------------------------------
(* The pushes in a framed stream.  The recursion of Split has a solution,  *)
(* as that of Lexed has.                                                   *)
SplitState(pushes, open) == [pushes |-> pushes, open |-> open]

After(state, b) ==
  IF b # Separator
  THEN [state EXCEPT !.open = Append(@, b)]
  ELSE [pushes |-> IF state.open = Heartbeat THEN state.pushes
                   ELSE Append(state.pushes, state.open),
        open   |-> <<>>]

Splits(g, st, n) ==
  g = [p \in 0 .. n |-> IF p = 0 THEN SplitState(<<>>, <<>>) ELSE After(g[p - 1], st[p])]

LEMMA SplitExists ==
  ASSUME NEW st, NEW n \in Nat
  PROVE  \E g : Splits(g, st, n)
<1> DEFINE T == {j \in Nat : \E g : Splits(g, st, j)}
<1>1. 0 \in T
  <2> DEFINE g == [p \in 0 .. 0 |-> SplitState(<<>>, <<>>)]
  <2>1. Splits(g, st, 0)
    BY DEF Splits
  <2> QED BY <2>1
<1>2. ASSUME NEW j \in Nat, j \in T PROVE j + 1 \in T
  <2>1. PICK g : Splits(g, st, j)
    BY <1>2
  <2> DEFINE h == [p \in 0 .. j + 1 |-> IF p <= j THEN g[p] ELSE After(g[p - 1], st[p])]
  <2>2. \A p \in 0 .. j : g[p] = IF p = 0 THEN SplitState(<<>>, <<>>) ELSE After(g[p - 1], st[p])
    BY <2>1 DEF Splits
  <2>3. \A p \in 0 .. j : h[p] = g[p]
    OBVIOUS
  <2>4. ASSUME NEW p \in 0 .. j + 1
        PROVE  h[p] = IF p = 0 THEN SplitState(<<>>, <<>>) ELSE After(h[p - 1], st[p])
    <3>1. CASE p <= j
      <4>1. p # 0 => p - 1 \in 0 .. j
        BY <3>1
      <4> QED BY <2>2, <2>3, <3>1, <4>1
    <3>2. CASE p = j + 1
      <4>1. p # 0 /\ p - 1 \in 0 .. j /\ ~ (p <= j)
        BY <3>2
      <4> QED BY <2>3, <3>2, <4>1
    <3> QED BY <3>1, <3>2
  <2>5. Splits(h, st, j + 1)
    BY <2>4 DEF Splits
  <2> QED BY <2>5
<1>. HIDE DEF T
<1>3. n \in T
  BY <1>1, <1>2, InductionSet
<1> QED BY <1>3 DEF T

LEMMA SplitDef ==
  ASSUME NEW st, Len(st) \in Nat
  PROVE  \E g : Splits(g, st, Len(st)) /\ Split(st) = g[Len(st)]
<1> DEFINE g == CHOOSE f : Splits(f, st, Len(st))
<1>1. Splits(g, st, Len(st))
  BY SplitExists
<1>2. Split(st) = g[Len(st)]
  BY DEF Split, Splits, SplitState, After
<1> QED BY <1>1, <1>2

LEMMA SplitStep ==
  ASSUME NEW g, NEW st, NEW n \in Nat, Splits(g, st, n)
  PROVE  /\ g[0] = SplitState(<<>>, <<>>)
         /\ \A p \in 1 .. n : g[p] = After(g[p - 1], st[p])
<1>1. PICK h : h = g
  OBVIOUS
<1>2. h = [p \in 0 .. n |-> IF p = 0 THEN SplitState(<<>>, <<>>) ELSE After(g[p - 1], st[p])]
  BY <1>1 DEF Splits
<1>3. /\ h[0] = SplitState(<<>>, <<>>)
      /\ \A p \in 1 .. n : h[p] = After(g[p - 1], st[p])
  BY <1>2
<1> QED BY <1>1, <1>3

(* One message more of the stream.                                         *)
LEMMA SplitPiece ==
  ASSUME NEW g, NEW st, NEW n \in Nat, Splits(g, st, n),
         NEW a \in Nat, NEW c \in Nat, NEW m \in Seq(Bytes), NEW pushes,
         Piece(PushProtocol, st, a, c, m), c <= n, \A p \in 1 .. Len(m) : m[p] # Separator,
         g[a] = SplitState(pushes, <<>>)
  PROVE  g[c] = SplitState(IF m = Heartbeat THEN pushes ELSE Append(pushes, m), <<>>)
<1>1. PICK k \in Nat : k = Len(m)
  BY LenProperties
<1>2. c = a + k + 1 /\ (\A p \in 1 .. k : st[a + p] = m[p]) /\ st[c] = Separator
  BY <1>1, ProtocolIs DEF Piece
<1>3. \A p \in 1 .. n : g[p] = After(g[p - 1], st[p])
  BY SplitStep
<1> DEFINE T == {j \in Nat : j <= k => g[a + j] = SplitState(pushes, SubSeq(m, 1, j))}
<1>4. 0 \in T
  <2>1. SubSeq(m, 1, 0) = <<>> /\ a + 0 = a
    BY SubSeqEmpty
  <2> QED BY <2>1
<1>5. ASSUME NEW j \in Nat, j \in T PROVE j + 1 \in T
  <2> SUFFICES ASSUME j + 1 <= k PROVE g[a + (j + 1)] = SplitState(pushes, SubSeq(m, 1, j + 1))
    OBVIOUS
  <2>1. g[a + j] = SplitState(pushes, SubSeq(m, 1, j))
    BY <1>5
  <2>2. a + (j + 1) \in 1 .. n /\ (a + (j + 1)) - 1 = a + j /\ j + 1 \in 1 .. k
    BY <1>2
  <2>3. g[a + (j + 1)] = After(g[a + j], m[j + 1]) /\ m[j + 1] # Separator
    BY <1>1, <1>2, <1>3, <2>2
  <2>4. PICK o : o = SubSeq(m, 1, j)
    OBVIOUS
  <2>5. Append(o, m[j + 1]) = SubSeq(m, 1, j + 1)
    <3>1. /\ o \in Seq(Bytes) /\ Len(o) = j /\ \A q \in 1 .. j : o[q] = m[q]
      BY <1>1, <2>2, <2>4
    <3>2. PICK x : x = SubSeq(m, 1, j + 1)
      OBVIOUS
    <3>3. /\ x \in Seq(Bytes) /\ Len(x) = j + 1 /\ \A q \in 1 .. j + 1 : x[q] = m[q]
      BY <1>1, <2>2, <3>2
    <3>4. PICK y : y = Append(o, m[j + 1])
      OBVIOUS
    <3>5. m[j + 1] \in Bytes
      BY <1>1, <2>2, ElementOfSeq
    <3>6. /\ y \in Seq(Bytes) /\ Len(y) = j + 1 /\ y[j + 1] = m[j + 1]
          /\ \A q \in 1 .. j : y[q] = o[q]
      BY <3>1, <3>4, <3>5, AppendProperties
    <3>7. ASSUME NEW q \in 1 .. Len(y) PROVE y[q] = x[q]
      <4>1. q \in 1 .. j \/ q = j + 1
        BY <3>6
      <4> QED BY <3>1, <3>3, <3>6, <4>1
    <3> QED BY <3>2, <3>3, <3>4, <3>6, <3>7, SeqEqual
  <2>6. After(SplitState(pushes, o), m[j + 1]) = SplitState(pushes, Append(o, m[j + 1]))
    BY <2>3 DEF After, SplitState
  <2> QED BY <2>1, <2>3, <2>4, <2>5, <2>6
<1>6. k \in T
  <2>. HIDE DEF T
  <2> QED BY <1>4, <1>5, InductionSet
<1>7. g[a + k] = SplitState(pushes, m)
  <2>1. SubSeq(m, 1, k) = m
    BY <1>1, SubSeqFull
  <2>2. g[a + k] = SplitState(pushes, SubSeq(m, 1, k))
    BY <1>6
  <2> QED BY <2>1, <2>2
<1>8. c \in 1 .. n /\ c - 1 = a + k
  BY <1>2
<1>9. g[c] = After(SplitState(pushes, m), Separator)
  BY <1>2, <1>3, <1>7, <1>8
<1> QED BY <1>9 DEF After, SplitState

(* A push is not a heartbeat, and no message has a separator in it.        *)
LEMMA PushIsNoHeartbeat == \A j \in 1 .. Len(Push) : Push[j] # Heartbeat
BY FeedFacts, IndexOfTime, HeartbeatHasNoTime, PushFacts

LEMMA NoSeparatorInside ==
  ASSUME NEW m, m = Heartbeat \/ \E j \in 1 .. Len(Push) : m = Push[j]
  PROVE  \A p \in 1 .. Len(m) : m[p] # Separator
<1>1. \A p \in 1 .. Len(Heartbeat) : Heartbeat[p] # Separator
  <2>1. Len(Heartbeat) = 2 /\ Heartbeat[1] = Brace1 /\ Heartbeat[2] = Brace2
    BY HeartbeatIs
  <2>2. \A p \in 1 .. 2 : p = 1 \/ p = 2
    OBVIOUS
  <2> QED BY <2>1, <2>2, HeartbeatIs
<1> QED BY <1>1, FeedFacts

LEMMA LogGrows ==
  ASSUME NEW i \in Nat, NEW j \in Nat, i <= j, j + 1 <= Len(Push)
  PROVE  Append(SubSeq(Push, i + 1, j), Push[j + 1]) = SubSeq(Push, i + 1, j + 1)
<1>. Push \in Seq(Seq(Bytes)) /\ Len(Push) \in Nat
  BY PushFacts, PushLen
<1>1. PICK x : x = SubSeq(Push, i + 1, j)
  OBVIOUS
<1>2. PICK y : y = SubSeq(Push, i + 1, j + 1)
  OBVIOUS
<1>3. PICK z : z = Append(x, Push[j + 1])
  OBVIOUS
<1>4. PICK d \in Nat : d = j - i
  BY j - i \in Nat
<1>5. x \in Seq(Seq(Bytes)) /\ Len(x) = d /\ \A q \in 1 .. d : x[q] = Push[i + q]
  BY <1>1, <1>4
<1>6. y \in Seq(Seq(Bytes)) /\ Len(y) = d + 1 /\ \A q \in 1 .. d + 1 : y[q] = Push[i + q]
  BY <1>2, <1>4
<1>7. Push[j + 1] \in Seq(Bytes)
  <2>1. j + 1 \in 1 .. Len(Push)
    OBVIOUS
  <2> QED BY <2>1, ElementOfSeq
<1>8. /\ z \in Seq(Seq(Bytes)) /\ Len(z) = d + 1 /\ z[d + 1] = Push[j + 1]
      /\ \A q \in 1 .. d : z[q] = x[q]
  BY <1>3, <1>5, <1>7, AppendProperties
<1>9. ASSUME NEW q \in 1 .. Len(z) PROVE z[q] = y[q]
  <2>1. CASE q \in 1 .. d
    BY <1>5, <1>6, <1>8, <2>1
  <2>2. CASE q = d + 1
    <3>1. i + (d + 1) = j + 1 /\ d + 1 \in 1 .. d + 1
      BY <1>4
    <3> QED BY <1>6, <1>8, <2>2, <3>1
  <2> QED BY <1>8, <2>1, <2>2
<1>10. z = y
  BY <1>6, <1>8, <1>9, SeqEqual
<1> QED BY <1>1, <1>2, <1>3, <1>10

LEMMA SplitOfFraming ==
  ASSUME NEW st \in Seq(Bytes), NEW i, NEW s, Framing(PushProtocol, st, i, s)
  PROVE  Split(st) = SplitState(SubSeq(Push, i + 1, s), <<>>)
<1>. Len(st) \in Nat /\ Len(Push) \in Nat
  BY LenProperties, PushLen
<1>1. PICK g : Splits(g, st, Len(st)) /\ Split(st) = g[Len(st)]
  BY SplitDef
<1>2. PICK K, cut, idx : Frames(PushProtocol, st, i, s, K, cut, idx)
  BY DEF Framing
<1>3. /\ K \in Nat /\ cut \in [0 .. K -> Nat] /\ idx \in [0 .. K -> 0 .. Len(Push)]
      /\ cut[0] = 0 /\ cut[K] = Len(st) /\ idx[0] = i /\ idx[K] = s
      /\ \A k \in 1 .. K : idx[k] = idx[k - 1] \/ idx[k] = idx[k - 1] + 1
      /\ \A k \in 1 .. K : Piece(PushProtocol, st, cut[k - 1], cut[k], Msg(PushProtocol, idx, k))
      /\ \A j, k \in 0 .. K : j <= k => idx[j] <= idx[k] /\ cut[j] <= cut[k]
  BY <1>2, ProtocolIs DEF Frames
<1>. DEFINE P(k) == SubSeq(Push, i + 1, idx[k])
            T == {k \in Nat : k <= K => g[cut[k]] = SplitState(P(k), <<>>)}
<1>4. i \in Nat /\ i <= Len(Push)
  <2>1. 0 \in 0 .. K
    BY <1>3
  <2> QED BY <1>3, <2>1
<1>5. 0 \in T
  <2>1. g[0] = SplitState(<<>>, <<>>)
    BY <1>1, SplitStep
  <2>2. P(0) = <<>>
    <3>1. SubSeq(Push, i + 1, i) = <<>>
      BY <1>4, SubSeqEmpty
    <3> QED BY <1>3, <3>1
  <2> QED BY <1>3, <2>1, <2>2
<1>6. ASSUME NEW j \in Nat, j \in T PROVE j + 1 \in T
  <2> SUFFICES ASSUME j + 1 <= K PROVE g[cut[j + 1]] = SplitState(P(j + 1), <<>>)
    OBVIOUS
  <2>1. PICK k \in 1 .. K : k = j + 1
    BY <1>3
  <2>2. k - 1 = j /\ k - 1 \in 0 .. K /\ k \in 0 .. K /\ j \in 0 .. K /\ K \in 0 .. K /\ 0 \in 0 .. K
    BY <1>3, <2>1
  <2>3. g[cut[k - 1]] = SplitState(P(k - 1), <<>>)
    BY <1>6, <2>2
  <2>4. PICK m : m = Msg(PushProtocol, idx, k)
    OBVIOUS
  <2>5. m = Heartbeat \/ \E q \in 1 .. Len(Push) : m = Push[q]
    BY <1>3, <2>2, <2>4, ProtocolIs DEF Msg
  <2>6. m \in Seq(Bytes) /\ \A p \in 1 .. Len(m) : m[p] # Separator
    BY <2>5, MessageType, NoSeparatorInside
  <2>7. PICK a \in Nat : a = cut[k - 1]
    BY <1>3, <2>2
  <2>8. PICK c \in Nat : c = cut[k]
    BY <1>3, <2>2
  <2>9. Piece(PushProtocol, st, a, c, m) /\ c <= Len(st)
    BY <1>3, <2>2, <2>4, <2>7, <2>8
  <2>10. PICK before : before = P(k - 1)
    OBVIOUS
  <2>11. g[a] = SplitState(before, <<>>)
    BY <2>3, <2>7, <2>10
  <2>12. g[c] = SplitState(IF m = Heartbeat THEN before ELSE Append(before, m), <<>>)
    BY <1>1, <2>6, <2>9, <2>11, SplitPiece
  <2>13. (IF m = Heartbeat THEN before ELSE Append(before, m)) = P(k)
    <3>1. CASE idx[k] = idx[k - 1]
      BY <2>4, <2>10, <3>1, ProtocolIs DEF Msg
    <3>2. CASE idx[k] = idx[k - 1] + 1
      <4>1. PICK q \in Nat : q = idx[k - 1]
        BY <1>3, <2>2
      <4>2. idx[k] = q + 1 /\ q + 1 <= Len(Push) /\ i <= q
        BY <1>3, <2>2, <3>2, <4>1
      <4>3. m = Push[q + 1]
        BY <2>4, <4>1, <4>2, ProtocolIs DEF Msg
      <4>4. m # Heartbeat
        BY <4>2, <4>3, PushIsNoHeartbeat
      <4>5. Append(SubSeq(Push, i + 1, q), Push[q + 1]) = SubSeq(Push, i + 1, q + 1)
        BY <1>4, <4>2, LogGrows
      <4> QED BY <2>10, <4>1, <4>2, <4>3, <4>4, <4>5
    <3> QED BY <1>3, <3>1, <3>2
  <2> QED BY <2>1, <2>8, <2>12, <2>13
<1>7. K \in T
  <2>. HIDE DEF T
  <2> QED BY <1>3, <1>5, <1>6, InductionSet
<1>8. g[cut[K]] = SplitState(P(K), <<>>)
  BY <1>3, <1>7
<1> QED BY <1>1, <1>3, <1>8

(* What the client has yet to look at is always cut at a message boundary, *)
(* and is exactly the heartbeats and the pushes after the resume point, as *)
(* long as no message is parted from its separator.                        *)
THEOREM BacklogFramed == Spec => []FramedBacklog
<1>1. IInv /\ FeedInv => FramedBacklog
  <2> SUFFICES ASSUME IInv, FeedInv, Framed, Linked PROVE FramedBacklog
    BY DEF FramedBacklog, Linked
  <2>1. Framing(PushProtocol, Rest, Here, sent) /\ HandoverOK
    BY DEF FeedInv, BacklogOK
  <2>2. Rest \in Seq(Bytes)
    <3>1. CASE ~ Holding
      BY <3>1, StreamType DEF Rest
    <3>2. CASE Holding
      <4>1. PICK k \in Nat : k = found.length
        BY <3>2, StreamType
      <4>2. PICK t \in Seq(Bytes) : t = Stream
        BY StreamType
      <4>3. k + 2 \in Int /\ 1 <= k + 2 /\ Len(t) \in Int /\ Len(t) <= Len(t)
        BY LenProperties
      <4>4. SubSeq(t, k + 2, Len(t)) \in Seq(Bytes)
        BY <4>3, PartOfSeq
      <4> QED BY <3>2, <4>1, <4>2, <4>4 DEF Rest
    <3> QED BY <3>1, <3>2
  <2>3. Split(Rest) = SplitState(SubSeq(Push, Here + 1, sent), <<>>)
    BY <2>1, <2>2, SplitOfFraming
  <2>4. Holding => found.start = 0 /\ Stream[found.length + 1] = Separator
    <3> SUFFICES ASSUME Holding PROVE found.start = 0 /\ Stream[found.length + 1] = Separator
      OBVIOUS
    <3>1. PICK k \in Nat : k = found.length /\ k + 1 \in 1 .. Len(buffer)
      BY <2>1, StreamType DEF HandoverOK
    <3>2. buffer \in Seq(Bytes) /\ wire \in Seq(Bytes) /\ Len(buffer) \in Nat
      BY StreamType
    <3>3. (buffer \o wire)[k + 1] = buffer[k + 1]
      BY <3>1, <3>2
    <3> QED BY <2>1, <3>1, <3>3 DEF HandoverOK, Stream
  <2>5. Split(Rest).open = <<>> /\ Split(Rest).pushes = SubSeq(Push, Here + 1, sent)
    <3>1. PICK x : x = Split(Rest)
      OBVIOUS
    <3>2. PICK y : y = SubSeq(Push, Here + 1, sent)
      OBVIOUS
    <3>3. x = SplitState(y, <<>>)
      BY <2>3, <3>1, <3>2
    <3>4. x.open = <<>> /\ x.pushes = y
      BY <3>3 DEF SplitState
    <3> QED BY <3>1, <3>2, <3>4
  <2> QED BY <2>4, <2>5 DEF FramedBacklog, Rest, Stream, Here
<1> QED BY <1>1, PushInvariant, FeedInvariant, PTL

-----------------------------------------------------------------------------
(* parse_push is one of the applications: everything it does to the push   *)
(* service is a step of an application, or no step of the service.         *)
LEMMA ParsePushStep == PushNext \/ UNCHANGED <<vars, yunVars>> => [Next]_vars
<1> SUFFICES ASSUME PushNext \/ UNCHANGED <<vars, yunVars>> PROVE [Next]_vars
  OBVIOUS
<1>1. CASE UNCHANGED <<vars, yunVars>>
  BY <1>1
<1>2. CASE Next
  BY <1>2
<1>3. CASE YunNext
  <2>1. CASE YunSetCallback
    BY <2>1 DEF YunSetCallback, Next, Application
  <2>2. CASE YunStart
    BY <2>2 DEF YunStart, Next, Application, parseStartPushService
  <2>3. CASE SelectError
    BY <2>3 DEF SelectError, parseStopPushService, Next, Application
  <2>4. CASE SelectFetch \/ SelectOther \/ YunExited
    BY <2>4 DEF SelectFetch, SelectOther, YunExited
  <2>5. CASE YunProcess \/ YunNotify
    BY <2>5 DEF YunProcess, YunNotify, Next
  <2>6. CASE YunRecvError \/ YunReceive
    BY <2>6 DEF YunRecvError, YunReceive, Receive, Next
  <2>7. CASE YunServer
    BY <2>7 DEF YunServer, Environment, Next
  <2> QED BY <1>3, <2>1, <2>2, <2>3, <2>4, <2>5, <2>6, <2>7 DEF YunNext
<1> QED BY <1>1, <1>2, <1>3 DEF PushNext

(* What is proved of the push service holds while parse_push runs it: the  *)
(* service does not notice that its callback queues the pushes, nor that   *)
(* main never looks at what parseProcessNextPushNotification returns.      *)
THEOREM ParsePushRunsService == PushSpec => Spec
<1>1. PushInit => Init
  BY DEF PushInit
<1>2. [PushNext]_<<vars, yunVars>> => [Next]_vars
  BY ParsePushStep
<1> QED BY <1>1, <1>2, PTL DEF PushSpec, Spec

-----------------------------------------------------------------------------
(* The queue of parse_push.  The recursion of Texts has a solution, as     *)
(* that of Split has; two solutions that were alike stay alike over the    *)
(* same data, wherever it stands.                                          *)
Kept(t, d) == IF d = None THEN t ELSE Append(t, d)

Keeps(g, s, n) == g = [k \in 0 .. n |-> IF k = 0 THEN <<>> ELSE Kept(g[k - 1], s[k])]

LEMMA KeepsExists ==
  ASSUME NEW s, NEW n \in Nat
  PROVE  \E g : Keeps(g, s, n)
<1> DEFINE T == {j \in Nat : \E g : Keeps(g, s, j)}
<1>1. 0 \in T
  <2> DEFINE g == [p \in 0 .. 0 |-> <<>>]
  <2>1. Keeps(g, s, 0)
    BY DEF Keeps
  <2> QED BY <2>1
<1>2. ASSUME NEW j \in Nat, j \in T PROVE j + 1 \in T
  <2>1. PICK g : Keeps(g, s, j)
    BY <1>2
  <2> DEFINE h == [p \in 0 .. j + 1 |-> IF p <= j THEN g[p] ELSE Kept(g[p - 1], s[p])]
  <2>2. \A p \in 0 .. j : g[p] = IF p = 0 THEN <<>> ELSE Kept(g[p - 1], s[p])
    BY <2>1 DEF Keeps
  <2>3. \A p \in 0 .. j : h[p] = g[p]
    OBVIOUS
  <2>4. ASSUME NEW p \in 0 .. j + 1
        PROVE  h[p] = IF p = 0 THEN <<>> ELSE Kept(h[p - 1], s[p])
    <3>1. CASE p <= j
      <4>1. p # 0 => p - 1 \in 0 .. j
        BY <3>1
      <4> QED BY <2>2, <2>3, <3>1, <4>1
    <3>2. CASE p = j + 1
      <4>1. p # 0 /\ p - 1 \in 0 .. j /\ ~ (p <= j)
        BY <3>2
      <4> QED BY <2>3, <3>2, <4>1
    <3> QED BY <3>1, <3>2
  <2>5. Keeps(h, s, j + 1)
    BY <2>4 DEF Keeps
  <2> QED BY <2>5
<1>. HIDE DEF T
<1>3. n \in T
  BY <1>1, <1>2, InductionSet
<1> QED BY <1>3 DEF T

LEMMA TextsDef ==
  ASSUME NEW s, Len(s) \in Nat
  PROVE  \E g : Keeps(g, s, Len(s)) /\ Texts(s) = g[Len(s)]
<1> DEFINE g == CHOOSE f : Keeps(f, s, Len(s))
<1>1. Keeps(g, s, Len(s))
  BY KeepsExists
<1>2. Texts(s) = g[Len(s)]
  BY DEF Texts, Keeps, Kept
<1> QED BY <1>1, <1>2

LEMMA KeepsStep ==
  ASSUME NEW g, NEW s, NEW n \in Nat, Keeps(g, s, n)
  PROVE  g[0] = <<>> /\ \A k \in 1 .. n : g[k] = Kept(g[k - 1], s[k])
<1>1. PICK h : h = g
  OBVIOUS
<1>2. h = [k \in 0 .. n |-> IF k = 0 THEN <<>> ELSE Kept(g[k - 1], s[k])]
  BY <1>1 DEF Keeps
<1>3. h[0] = <<>> /\ \A k \in 1 .. n : h[k] = Kept(g[k - 1], s[k])
  BY <1>2
<1> QED BY <1>1, <1>3

SamePart(s, a, t, c, d) == \A i \in 1 .. d : s[a + i] = t[c + i]

LEMMA KeepsAgree ==
  ASSUME NEW g, NEW s, NEW n \in Nat, Keeps(g, s, n),
         NEW h, NEW t, NEW m \in Nat, Keeps(h, t, m),
         NEW a \in Nat, NEW c \in Nat, NEW d \in Nat, a + d <= n, c + d <= m,
         g[a] = h[c], SamePart(s, a, t, c, d)
  PROVE  g[a + d] = h[c + d]
<1> DEFINE T == {j \in Nat : j <= d => g[a + j] = h[c + j]}
<1>1. 0 \in T
  <2>1. a + 0 = a /\ c + 0 = c
    OBVIOUS
  <2> QED BY <2>1
<1>2. ASSUME NEW j \in Nat, j \in T PROVE j + 1 \in T
  <2> SUFFICES ASSUME j + 1 <= d PROVE g[a + (j + 1)] = h[c + (j + 1)]
    OBVIOUS
  <2>1. g[a + j] = h[c + j]
    BY <1>2
  <2>2. /\ a + (j + 1) \in 1 .. n /\ (a + (j + 1)) - 1 = a + j
        /\ c + (j + 1) \in 1 .. m /\ (c + (j + 1)) - 1 = c + j /\ j + 1 \in 1 .. d
    OBVIOUS
  <2>3. g[a + (j + 1)] = Kept(g[a + j], s[a + (j + 1)])
    BY <2>2, KeepsStep
  <2>4. h[c + (j + 1)] = Kept(h[c + j], t[c + (j + 1)])
    BY <2>2, KeepsStep
  <2>5. s[a + (j + 1)] = t[c + (j + 1)]
    BY <2>2 DEF SamePart
  <2> QED BY <2>1, <2>3, <2>4, <2>5
<1>3. d \in T
  <2>. HIDE DEF T
  <2> QED BY <1>1, <1>2, InductionSet
<1> QED BY <1>3

Texted == Bytes \cup {None}

LEMMA TextsOfNone == Texts(<<>>) = <<>>
<1>1. PICK e : e = <<>>
  OBVIOUS
<1>2. Len(e) = 0 /\ Len(e) \in Nat
  BY <1>1
<1>3. PICK g : Keeps(g, e, Len(e)) /\ Texts(e) = g[Len(e)]
  BY <1>2, TextsDef
<1>4. g[0] = <<>>
  BY <1>2, <1>3, KeepsStep
<1> QED BY <1>1, <1>2, <1>3, <1>4

(* One piece of data more.                                                 *)
LEMMA TextsGrow ==
  ASSUME NEW s \in Seq(Texted), NEW d \in Texted
  PROVE  Texts(Append(s, d)) = Kept(Texts(s), d)
<1>1. PICK n \in Nat : n = Len(s)
  BY LenProperties
<1>2. PICK t : t = Append(s, d)
  OBVIOUS
<1>3. Len(t) = n + 1 /\ t[n + 1] = d /\ \A i \in 1 .. n : t[i] = s[i]
  BY <1>1, <1>2, AppendProperties
<1>4. PICK g : Keeps(g, s, n) /\ Texts(s) = g[n]
  BY <1>1, TextsDef
<1>5. PICK h : Keeps(h, t, n + 1) /\ Texts(t) = h[n + 1]
  BY <1>3, TextsDef
<1>6. h[n] = g[n]
  <2>1. SamePart(s, 0, t, 0, n)
    BY <1>3 DEF SamePart
  <2>2. g[0] = h[0]
    BY <1>4, <1>5, KeepsStep, n + 1 \in Nat
  <2>3. 0 + n <= n /\ 0 + n <= n + 1 /\ 0 \in Nat /\ n + 1 \in Nat
    OBVIOUS
  <2>4. g[0 + n] = h[0 + n]
    BY <1>4, <1>5, <2>1, <2>2, <2>3, KeepsAgree
  <2> QED BY <2>4
<1>7. h[n + 1] = Kept(h[n], t[n + 1])
  <2>1. n + 1 \in 1 .. n + 1 /\ (n + 1) - 1 = n /\ n + 1 \in Nat
    OBVIOUS
  <2>2. h[n + 1] = Kept(h[(n + 1) - 1], t[n + 1])
    BY <1>5, <2>1, KeepsStep
  <2> QED BY <2>1, <2>2
<1> QED BY <1>2, <1>3, <1>4, <1>5, <1>6, <1>7

(* An empty text, at m, taken out.                                         *)
TakenOut(s, t, m) ==
  /\ m \in 1 .. Len(s) /\ s[m] = None /\ Len(t) = Len(s) - 1
  /\ \A i \in 1 .. m - 1 : t[i] = s[i]
  /\ \A i \in m .. Len(s) - 1 : t[i] = s[i + 1]

LEMMA TextsOfTakenOut ==
  ASSUME NEW s, NEW t, NEW m, Len(s) \in Nat, TakenOut(s, t, m)
  PROVE  Texts(t) = Texts(s)
<1>1. PICK n \in Nat : n = Len(s)
  OBVIOUS
<1>2. /\ m \in 1 .. n /\ s[m] = None /\ Len(t) = n - 1
      /\ \A i \in 1 .. m - 1 : t[i] = s[i]
      /\ \A i \in m .. n - 1 : t[i] = s[i + 1]
  BY <1>1 DEF TakenOut
<1>3. PICK g : Keeps(g, s, n) /\ Texts(s) = g[n]
  BY <1>1, TextsDef
<1>4. n - 1 \in Nat /\ m - 1 \in Nat /\ n - m \in Nat
  BY <1>2
<1>5. PICK h : Keeps(h, t, n - 1) /\ Texts(t) = h[n - 1]
  BY <1>2, <1>4, TextsDef
<1>6. g[m - 1] = h[m - 1]
  <2>1. SamePart(s, 0, t, 0, m - 1)
    BY <1>2 DEF SamePart
  <2>2. g[0] = h[0]
    BY <1>3, <1>4, <1>5, KeepsStep
  <2>3. 0 + (m - 1) <= n /\ 0 + (m - 1) <= n - 1 /\ 0 \in Nat
    BY <1>2
  <2>4. g[0 + (m - 1)] = h[0 + (m - 1)]
    BY <1>3, <1>4, <1>5, <2>1, <2>2, <2>3, KeepsAgree
  <2> QED BY <1>4, <2>4
<1>7. g[m] = g[m - 1]
  BY <1>2, <1>3, KeepsStep DEF Kept
<1>8. g[m + (n - m)] = h[(m - 1) + (n - m)]
  <2>1. SamePart(s, m, t, m - 1, n - m)
    <3>1. ASSUME NEW i \in 1 .. n - m PROVE s[m + i] = t[(m - 1) + i]
      <4>1. (m - 1) + i \in m .. n - 1 /\ ((m - 1) + i) + 1 = m + i
        BY <1>2
      <4> QED BY <1>2, <4>1
    <3> QED BY <3>1 DEF SamePart
  <2>2. m + (n - m) <= n /\ (m - 1) + (n - m) <= n - 1 /\ m \in Nat
    BY <1>2
  <2> QED BY <1>3, <1>4, <1>5, <1>6, <1>7, <2>1, <2>2, KeepsAgree
<1>9. m + (n - m) = n /\ (m - 1) + (n - m) = n - 1
  BY <1>2
<1> QED BY <1>3, <1>5, <1>8, <1>9

-----------------------------------------------------------------------------
(* The list is a chain of n nodes behind head: c lists them, head first.   *)
Chain(n, c, nxt, pd, last) ==
  /\ n \in 0 .. MaxNodes /\ c \in [0 .. n -> Nodes] /\ c[0] = HeadNode
  /\ \A j, k \in 0 .. n : c[j] = c[k] => j = k
  /\ \A k \in 0 .. n - 1 : nxt[c[k]] = c[k + 1]
  /\ nxt[c[n]] = NULL /\ last = c[n]
  /\ DOMAIN nxt = {c[k] : k \in 0 .. n} /\ DOMAIN pd = {c[k] : k \in 0 .. n}

ChainOf(n, c) == Chain(n, c, next, push_data, tail)

Walks(g) ==
  g = [k \in 0 .. MaxNodes + 1 |->
         IF k = 0 THEN HeadNode ELSE IF g[k - 1] = NULL THEN NULL ELSE next[g[k - 1]]]

LEMMA WalkOfChain ==
  ASSUME NEW n, NEW c, ChainOf(n, c)
  PROVE  \A k \in 0 .. MaxNodes + 1 : Walk[k] = IF k <= n THEN c[k] ELSE NULL
<1>. MaxNodes \in Nat
  BY NodesAssumption
<1>1. /\ n \in 0 .. MaxNodes /\ c \in [0 .. n -> Nodes] /\ c[0] = HeadNode
      /\ \A k \in 0 .. n - 1 : next[c[k]] = c[k + 1]
      /\ next[c[n]] = NULL
  BY DEF ChainOf, Chain
<1>2. \A k \in 0 .. n : c[k] # NULL
  BY <1>1 DEF Nodes, NULL
<1> DEFINE g == [k \in 0 .. MaxNodes + 1 |-> IF k <= n THEN c[k] ELSE NULL]
           w == CHOOSE f : Walks(f)
<1>3. Walks(g)
  <2>1. ASSUME NEW k \in 0 .. MaxNodes + 1
        PROVE  g[k] = IF k = 0 THEN HeadNode ELSE IF g[k - 1] = NULL THEN NULL ELSE next[g[k - 1]]
    <3>1. CASE k = 0
      BY <1>1, <3>1
    <3>2. CASE k \in 1 .. n
      <4>1. k - 1 \in 0 .. n - 1 /\ (k - 1) + 1 = k /\ k - 1 \in 0 .. n /\ k - 1 \in 0 .. MaxNodes + 1 /\ k <= n /\ k - 1 <= n
        BY <1>1, <3>2
      <4> QED BY <1>1, <1>2, <3>2, <4>1
    <3>3. CASE k = n + 1
      <4>1. k - 1 = n /\ n \in 0 .. n /\ n \in 0 .. MaxNodes + 1 /\ ~ (k <= n) /\ k # 0
        BY <1>1, <3>3
      <4> QED BY <1>1, <1>2, <3>3, <4>1
    <3>4. CASE k > n + 1
      <4>1. k - 1 \in 0 .. MaxNodes + 1 /\ ~ (k - 1 <= n) /\ ~ (k <= n) /\ k # 0
        BY <1>1, <3>4
      <4> QED BY <4>1
    <3> QED BY <1>1, <3>1, <3>2, <3>3, <3>4
  <2>. HIDE DEF g
  <2>2. g = [k \in 0 .. MaxNodes + 1 |-> g[k]]
    BY DEF g
  <2> QED BY <2>1, <2>2 DEF Walks
<1>4. Walk = w
  BY DEF Walk, Walks
<1>5. Walks(w)
  <2>. HIDE DEF g
  <2> QED BY <1>3
<1>. HIDE DEF g, w
<1>6. PICK v : v = Walk
  OBVIOUS
<1>7. \A k \in 0 .. MaxNodes + 1 :
         v[k] = IF k = 0 THEN HeadNode ELSE IF v[k - 1] = NULL THEN NULL ELSE next[v[k - 1]]
  <2>1. v = [k \in 0 .. MaxNodes + 1 |->
               IF k = 0 THEN HeadNode ELSE IF w[k - 1] = NULL THEN NULL ELSE next[w[k - 1]]]
    BY <1>4, <1>5, <1>6 DEF Walks
  <2>2. v = w
    BY <1>4, <1>6
  <2>3. PICK u : u = w
    OBVIOUS
  <2>4. v = [k \in 0 .. MaxNodes + 1 |->
               IF k = 0 THEN HeadNode ELSE IF u[k - 1] = NULL THEN NULL ELSE next[u[k - 1]]]
    BY <2>1, <2>3
  <2>5. \A k \in 0 .. MaxNodes + 1 :
          v[k] = IF k = 0 THEN HeadNode ELSE IF u[k - 1] = NULL THEN NULL ELSE next[u[k - 1]]
    BY <2>4
  <2> QED BY <2>2, <2>3, <2>5
<1> DEFINE T == {j \in Nat : j <= MaxNodes + 1 => v[j] = IF j <= n THEN c[j] ELSE NULL}
<1>8. 0 \in T
  BY <1>1, <1>7
<1>9. ASSUME NEW j \in Nat, j \in T PROVE j + 1 \in T
  <2> SUFFICES ASSUME j + 1 <= MaxNodes + 1
               PROVE  v[j + 1] = IF j + 1 <= n THEN c[j + 1] ELSE NULL
    OBVIOUS
  <2>1. PICK k \in 0 .. MaxNodes + 1 : k = j + 1
    OBVIOUS
  <2>2. v[k] = IF v[j] = NULL THEN NULL ELSE next[v[j]]
    <3>1. k # 0 /\ k - 1 = j
      BY <2>1
    <3> QED BY <1>7, <3>1
  <2>3. v[j] = IF j <= n THEN c[j] ELSE NULL
    BY <1>9
  <2>4. CASE j + 1 <= n
    <3>1. j \in 0 .. n - 1 /\ j \in 0 .. n /\ j <= n
      BY <1>1, <2>4
    <3> QED BY <1>1, <1>2, <2>1, <2>2, <2>3, <2>4, <3>1
  <2>5. CASE j = n
    <3>1. j \in 0 .. n /\ j <= n /\ ~ (j + 1 <= n)
      BY <1>1, <2>5
    <3> QED BY <1>1, <1>2, <2>1, <2>2, <2>3, <2>5, <3>1
  <2>6. CASE j > n
    <3>1. ~ (j <= n) /\ ~ (j + 1 <= n)
      BY <1>1, <2>6
    <3> QED BY <2>1, <2>2, <2>3, <3>1
  <2> QED BY <1>1, <2>4, <2>5, <2>6
<1>10. \A j \in Nat : j \in T
  <2>. HIDE DEF T
  <2> QED BY <1>8, <1>9, InductionSet
<1>11. ASSUME NEW k \in 0 .. MaxNodes + 1
       PROVE  v[k] = IF k <= n THEN c[k] ELSE NULL
  BY <1>10
<1> QED BY <1>6, <1>11

LEMMA QueueOfChain ==
  ASSUME NEW n, NEW c, ChainOf(n, c)
  PROVE  Queue = [k \in 1 .. n |-> c[k]]
<1>. MaxNodes \in Nat
  BY NodesAssumption
<1>1. n \in 0 .. MaxNodes /\ c \in [0 .. n -> Nodes]
  BY DEF ChainOf, Chain
<1>2. PICK v : v = Walk
  OBVIOUS
<1>3. \A k \in 0 .. MaxNodes + 1 : v[k] = IF k <= n THEN c[k] ELSE NULL
  BY <1>2, WalkOfChain
<1>4. \A k \in 0 .. n : c[k] # NULL
  BY <1>1 DEF Nodes, NULL
<1>5. v[n] # NULL /\ v[n + 1] = NULL
  <2>1. n \in 0 .. MaxNodes + 1 /\ n + 1 \in 0 .. MaxNodes + 1 /\ n \in 0 .. n
    BY <1>1
  <2> QED BY <1>1, <1>3, <1>4, <2>1
<1>6. ASSUME NEW k \in 0 .. MaxNodes, v[k] # NULL, v[k + 1] = NULL PROVE k = n
  <2>1. k \in 0 .. MaxNodes + 1 /\ k + 1 \in 0 .. MaxNodes + 1
    OBVIOUS
  <2>2. k <= n
    BY <1>3, <1>6, <2>1
  <2>3. ~ (k + 1 <= n)
    BY <1>1, <1>3, <1>4, <1>6, <2>1
  <2> QED BY <1>1, <2>2, <2>3
<1>7. (CHOOSE k \in 0 .. MaxNodes : v[k] # NULL /\ v[k + 1] = NULL) = n
  BY <1>1, <1>5, <1>6
<1>8. Queue = [k \in 1 .. n |-> v[k]]
  BY <1>2, <1>7 DEF Queue
<1>9. \A k \in 1 .. n : v[k] = c[k]
  <2>1. \A k \in 1 .. n : k \in 0 .. MaxNodes + 1 /\ k <= n
    BY <1>1
  <2> QED BY <1>3, <2>1
<1> QED BY <1>8, <1>9

(* The chain covers Nodes only when it has all of them.                    *)
LEMMA ChainFits ==
  ASSUME NEW n \in Nat, NEW c \in [0 .. n -> Nodes], \A j, k \in 0 .. n : c[j] = c[k] => j = k
  PROVE  n <= MaxNodes
<1>. MaxNodes \in Nat
  BY NodesAssumption
<1> SUFFICES ASSUME n > MaxNodes PROVE FALSE
  OBVIOUS
<1>1. IsFiniteSet(0 .. n) /\ Cardinality(0 .. n) = n + 1
  BY FS_Interval
<1>2. IsFiniteSet(Nodes) /\ Cardinality(Nodes) = MaxNodes + 1
  BY FS_Interval DEF Nodes
<1>3. \E x, y \in 0 .. n : x # y /\ c[x] = c[y]
  BY <1>1, <1>2, FS_PigeonHole
<1> QED BY <1>3

(* A node more at the end.                                                 *)
Fresh(node, nxt) == node = CHOOSE m \in Nodes : m \notin DOMAIN nxt

Extends(c, n, node) == [k \in 0 .. n + 1 |-> IF k <= n THEN c[k] ELSE node]

LEMMA ChainGrows ==
  ASSUME NEW n, NEW c, NEW nxt, NEW pd, NEW last, NEW node, NEW d,
         Chain(n, c, nxt, pd, last), DOMAIN nxt # Nodes, Fresh(node, nxt)
  PROVE  /\ Chain(n + 1, Extends(c, n, node),
                  With([m \in DOMAIN nxt |-> IF m = last THEN node ELSE nxt[m]], node, NULL),
                  With(pd, node, d), node)
         /\ node \notin DOMAIN pd
<1>. MaxNodes \in Nat
  BY NodesAssumption
<1>1. /\ n \in 0 .. MaxNodes /\ c \in [0 .. n -> Nodes] /\ c[0] = HeadNode
      /\ \A j, k \in 0 .. n : c[j] = c[k] => j = k
      /\ \A k \in 0 .. n - 1 : nxt[c[k]] = c[k + 1]
      /\ nxt[c[n]] = NULL /\ last = c[n]
      /\ DOMAIN nxt = {c[k] : k \in 0 .. n} /\ DOMAIN pd = {c[k] : k \in 0 .. n}
  BY DEF Chain
<1>2. node \in Nodes /\ node \notin DOMAIN nxt
  <2>1. \E m \in Nodes : m \notin DOMAIN nxt
    BY <1>1
  <2> QED BY <2>1 DEF Fresh
<1>3. PICK c2 : c2 = Extends(c, n, node)
  OBVIOUS
<1>4. c2 \in [0 .. n + 1 -> Nodes] /\ c2[n + 1] = node /\ \A k \in 0 .. n : c2[k] = c[k]
  <2>1. c2 = [k \in 0 .. n + 1 |-> IF k <= n THEN c[k] ELSE node]
    BY <1>3 DEF Extends
  <2> QED BY <1>1, <1>2, <2>1
<1>5. \A k \in 0 .. n : c[k] # node
  BY <1>1, <1>2
<1>6. \A k \in 0 .. n + 1 : k = n + 1 \/ k \in 0 .. n
  BY <1>1
<1>7. \A j, k \in 0 .. n + 1 : c2[j] = c2[k] => j = k
  <2> SUFFICES ASSUME NEW j \in 0 .. n + 1, NEW k \in 0 .. n + 1, c2[j] = c2[k] PROVE j = k
    OBVIOUS
  <2>1. CASE j \in 0 .. n /\ k \in 0 .. n
    BY <1>1, <1>4, <2>1
  <2>2. CASE j = n + 1 /\ k \in 0 .. n
    BY <1>4, <1>5, <2>2
  <2>3. CASE k = n + 1 /\ j \in 0 .. n
    BY <1>4, <1>5, <2>3
  <2> QED BY <1>6, <2>1, <2>2, <2>3
<1>8. n + 1 \in 0 .. MaxNodes
  <2>1. n + 1 \in Nat
    BY <1>1
  <2>2. n + 1 <= MaxNodes
    BY <1>4, <1>7, <2>1, ChainFits
  <2> QED BY <2>1, <2>2
<1>9. PICK nxt2 : nxt2 = With([m \in DOMAIN nxt |-> IF m = last THEN node ELSE nxt[m]], node, NULL)
  OBVIOUS
<1>10. nxt2 = [m \in DOMAIN nxt \cup {node} |-> IF m = node THEN NULL ELSE IF m = last THEN node ELSE nxt[m]]
  BY <1>2, <1>9 DEF With
<1>11. {c2[k] : k \in 0 .. n + 1} = {c[k] : k \in 0 .. n} \cup {node}
  <2>1. ASSUME NEW k \in 0 .. n + 1 PROVE c2[k] \in {c[j] : j \in 0 .. n} \cup {node}
    BY <1>4, <1>6
  <2>2. \A k \in 0 .. n : k \in 0 .. n + 1 /\ c2[k] = c[k]
    BY <1>1, <1>4
  <2>3. n + 1 \in 0 .. n + 1
    BY <1>1
  <2> QED BY <1>4, <2>1, <2>2, <2>3
<1>12. DOMAIN nxt2 = {c2[k] : k \in 0 .. n + 1}
  BY <1>1, <1>10, <1>11
<1>13. DOMAIN With(pd, node, d) = {c2[k] : k \in 0 .. n + 1}
  BY <1>1, <1>11 DEF With
<1>14. nxt2[c2[n + 1]] = NULL
  BY <1>4, <1>10
<1>15. ASSUME NEW k \in 0 .. (n + 1) - 1 PROVE nxt2[c2[k]] = c2[k + 1]
  <2>1. k \in 0 .. n /\ c2[k] = c[k] /\ c[k] \in DOMAIN nxt /\ c[k] # node
    BY <1>1, <1>4, <1>5
  <2>2. CASE k = n
    BY <1>1, <1>4, <1>10, <2>1, <2>2
  <2>3. CASE k \in 0 .. n - 1
    <3>1. k + 1 \in 0 .. n /\ n \in 0 .. n /\ k # n
      BY <1>1, <2>3
    <3>2. c[k] # last
      BY <1>1, <2>1, <3>1
    <3> QED BY <1>1, <1>4, <1>10, <2>1, <2>3, <3>1, <3>2
  <2> QED BY <1>1, <2>1, <2>2, <2>3
<1>16. c2[0] = HeadNode
  BY <1>1, <1>4
<1>17. Chain(n + 1, c2, nxt2, With(pd, node, d), node)
  BY <1>4, <1>7, <1>8, <1>12, <1>13, <1>14, <1>15, <1>16 DEF Chain
<1> QED BY <1>1, <1>2, <1>3, <1>9, <1>17

(* The first node taken off.                                               *)
Shrinks(c, n) == [k \in 0 .. n - 1 |-> IF k = 0 THEN HeadNode ELSE c[k + 1]]

LEMMA ChainShrinks ==
  ASSUME NEW n, NEW c, NEW nxt, NEW pd, NEW last,
         Chain(n, c, nxt, pd, last), nxt[HeadNode] # NULL
  PROVE  /\ n \in 1 .. MaxNodes /\ c[1] = nxt[HeadNode] /\ c[1] # HeadNode
         /\ Chain(n - 1, Shrinks(c, n),
                  [Without(nxt, c[1]) EXCEPT ![HeadNode] = nxt[c[1]]],
                  Without(pd, c[1]), IF nxt[c[1]] = NULL THEN HeadNode ELSE last)
<1>. MaxNodes \in Nat
  BY NodesAssumption
<1>1. /\ n \in 0 .. MaxNodes /\ c \in [0 .. n -> Nodes] /\ c[0] = HeadNode
      /\ \A j, k \in 0 .. n : c[j] = c[k] => j = k
      /\ \A k \in 0 .. n - 1 : nxt[c[k]] = c[k + 1]
      /\ nxt[c[n]] = NULL /\ last = c[n]
      /\ DOMAIN nxt = {c[k] : k \in 0 .. n} /\ DOMAIN pd = {c[k] : k \in 0 .. n}
  BY DEF Chain
<1>2. n >= 1
  BY <1>1
<1>3. 0 \in 0 .. n - 1 /\ 0 + 1 = 1 /\ 0 \in 0 .. n /\ 1 \in 0 .. n /\ n \in 0 .. n
  BY <1>1, <1>2
<1>4. c[1] = nxt[HeadNode] /\ c[1] # HeadNode
  BY <1>1, <1>3
<1>5. PICK c2 : c2 = Shrinks(c, n)
  OBVIOUS
<1>6. /\ c2 \in [0 .. n - 1 -> Nodes] /\ c2[0] = HeadNode
      /\ \A k \in 1 .. n - 1 : c2[k] = c[k + 1]
  <2>1. c2 = [k \in 0 .. n - 1 |-> IF k = 0 THEN HeadNode ELSE c[k + 1]]
    BY <1>5 DEF Shrinks
  <2>2. \A k \in 0 .. n - 1 : k + 1 \in 0 .. n
    BY <1>1
  <2>3. HeadNode \in Nodes
    BY DEF HeadNode, Nodes
  <2> QED BY <1>1, <1>3, <2>1, <2>2, <2>3
<1>7. PICK old : old = c[1]
  OBVIOUS
<1>8. PICK nxt2 : nxt2 = [Without(nxt, old) EXCEPT ![HeadNode] = nxt[old]]
  OBVIOUS
<1>9. nxt2 = [m \in DOMAIN nxt \ {old} |-> IF m = HeadNode THEN nxt[old] ELSE nxt[m]]
  BY <1>8 DEF Without
<1>10. \A k \in 0 .. n - 1 : k = 0 \/ k \in 1 .. n - 1
  OBVIOUS
<1>11. \A k \in 1 .. n - 1 : k + 1 \in 0 .. n /\ k + 1 # 0 /\ k + 1 # 1
  BY <1>1
<1>12. \A k \in 1 .. n - 1 : c2[k] # HeadNode /\ c2[k] # old /\ c2[k] \in DOMAIN nxt
  BY <1>1, <1>3, <1>6, <1>7, <1>11
<1>13. \A j, k \in 0 .. n - 1 : c2[j] = c2[k] => j = k
  <2> SUFFICES ASSUME NEW j \in 0 .. n - 1, NEW k \in 0 .. n - 1, c2[j] = c2[k] PROVE j = k
    OBVIOUS
  <2>1. CASE j \in 1 .. n - 1 /\ k \in 1 .. n - 1
    <3>1. c[j + 1] = c[k + 1] /\ j + 1 \in 0 .. n /\ k + 1 \in 0 .. n
      BY <1>6, <1>11, <2>1
    <3>2. j + 1 = k + 1
      BY <1>1, <3>1
    <3> QED BY <3>2
  <2>2. CASE j = 0 \/ k = 0
    BY <1>6, <1>10, <1>12, <2>2
  <2> QED BY <1>10, <2>1, <2>2
<1>14. DOMAIN nxt \ {old} = {c2[k] : k \in 0 .. n - 1}
  <2>1. ASSUME NEW m \in DOMAIN nxt, m # old PROVE \E k \in 0 .. n - 1 : m = c2[k]
    <3>1. PICK j \in 0 .. n : m = c[j]
      BY <1>1
    <3>2. j # 1
      BY <1>7, <2>1, <3>1
    <3>3. CASE j = 0
      BY <1>1, <1>3, <1>6, <3>1, <3>3
    <3>4. CASE j # 0
      <4>1. j - 1 \in 1 .. n - 1 /\ (j - 1) + 1 = j /\ j - 1 \in 0 .. n - 1
        BY <1>1, <3>2, <3>4
      <4> QED BY <1>6, <3>1, <4>1
    <3> QED BY <3>3, <3>4
  <2>2. ASSUME NEW k \in 0 .. n - 1 PROVE c2[k] \in DOMAIN nxt \ {old}
    <3>1. HeadNode \in DOMAIN nxt /\ HeadNode # old
      BY <1>1, <1>3, <1>4, <1>7
    <3> QED BY <1>6, <1>10, <1>12, <3>1
  <2> QED BY <2>1, <2>2
<1>15. DOMAIN nxt2 = {c2[k] : k \in 0 .. n - 1} /\ DOMAIN Without(pd, old) = {c2[k] : k \in 0 .. n - 1}
  BY <1>1, <1>9, <1>14 DEF Without
<1>16. nxt2[HeadNode] = nxt[old] /\ \A k \in 1 .. n - 1 : nxt2[c2[k]] = nxt[c[k + 1]]
  <2>1. HeadNode \in DOMAIN nxt \ {old}
    BY <1>1, <1>3, <1>4, <1>7
  <2> QED BY <1>6, <1>9, <1>12, <2>1
<1>17. ASSUME NEW k \in 0 .. (n - 1) - 1 PROVE nxt2[c2[k]] = c2[k + 1]
  <2>1. k + 1 \in 1 .. n - 1 /\ k + 1 \in 0 .. n - 1 /\ c2[k + 1] = c[(k + 1) + 1]
    BY <1>1, <1>6
  <2>2. nxt[c[k + 1]] = c[(k + 1) + 1]
    BY <1>1, <2>1
  <2>3. CASE k = 0
    <3>1. nxt2[c2[k]] = nxt[c[k + 1]]
      BY <1>6, <1>7, <1>16, <2>3
    <3> QED BY <2>1, <2>2, <3>1
  <2>4. CASE k \in 1 .. n - 1
    BY <1>16, <2>1, <2>2, <2>4
  <2>5. k = 0 \/ k \in 1 .. n - 1
    BY <1>1
  <2> QED BY <2>3, <2>4, <2>5
<1>18. /\ nxt2[c2[n - 1]] = NULL
       /\ c2[n - 1] = IF nxt[old] = NULL THEN HeadNode ELSE last
  <2>1. CASE n = 1
    <3>1. n - 1 = 0 /\ old = c[n]
      BY <1>7, <2>1
    <3>2. nxt[old] = NULL
      BY <1>1, <3>1
    <3> QED BY <1>6, <1>16, <3>1, <3>2
  <2>2. CASE n > 1
    <3>1. n - 1 \in 1 .. n - 1 /\ (n - 1) + 1 = n /\ 1 \in 0 .. n - 1 /\ 1 + 1 \in 0 .. n
      BY <1>1, <2>2
    <3>2. c2[n - 1] = c[n] /\ nxt2[c2[n - 1]] = nxt[c[n]]
      BY <1>6, <1>16, <3>1
    <3>3. nxt[old] = c[1 + 1] /\ c[1 + 1] \in Nodes
      BY <1>1, <1>7, <3>1
    <3>4. nxt[old] # NULL
      BY <3>3 DEF Nodes, NULL
    <3> QED BY <1>1, <3>2, <3>4
  <2> QED BY <1>1, <1>2, <2>1, <2>2
<1>19. n - 1 \in 0 .. MaxNodes
  BY <1>1, <1>2
<1>20. Chain(n - 1, c2, nxt2, Without(pd, old), IF nxt[old] = NULL THEN HeadNode ELSE last)
  BY <1>6, <1>13, <1>15, <1>17, <1>18, <1>19 DEF Chain
<1> QED BY <1>1, <1>2, <1>4, <1>5, <1>7, <1>8, <1>20

(* What was fetched, and the data of the chain behind it.                  *)
DataIs(x, f, n, c, pd) ==
  /\ x \in Seq(Texted) /\ f \in Seq(Bytes) /\ Len(x) = Len(f) + n
  /\ \A i \in 1 .. Len(f) : x[i] = f[i]
  /\ \A k \in 1 .. n : x[Len(f) + k] = pd[c[k]]

LEMMA DataGrows ==
  ASSUME NEW x, NEW f, NEW n \in Nat, NEW c, NEW pd, NEW node, NEW d \in Texted,
         DataIs(x, f, n, c, pd), node \notin DOMAIN pd, \A k \in 0 .. n : c[k] \in DOMAIN pd
  PROVE  DataIs(Append(x, d), f, n + 1, Extends(c, n, node), With(pd, node, d))
<1>1. /\ x \in Seq(Texted) /\ f \in Seq(Bytes) /\ Len(x) = Len(f) + n
      /\ \A i \in 1 .. Len(f) : x[i] = f[i]
      /\ \A k \in 1 .. n : x[Len(f) + k] = pd[c[k]]
  BY DEF DataIs
<1>2. PICK l \in Nat : l = Len(f)
  BY <1>1, LenProperties
<1>3. PICK y : y = Append(x, d)
  OBVIOUS
<1>4. /\ y \in Seq(Texted) /\ Len(y) = l + n + 1 /\ y[l + n + 1] = d
      /\ \A i \in 1 .. l + n : y[i] = x[i]
  BY <1>1, <1>2, <1>3, AppendProperties
<1>5. PICK c2 : c2 = Extends(c, n, node)
  OBVIOUS
<1>6. c2[n + 1] = node /\ \A k \in 1 .. n : c2[k] = c[k]
  BY <1>5 DEF Extends
<1>7. PICK pd2 : pd2 = With(pd, node, d)
  OBVIOUS
<1>8. pd2[node] = d /\ \A m \in DOMAIN pd : pd2[m] = pd[m]
  BY <1>7 DEF With
<1>9. ASSUME NEW k \in 1 .. n + 1 PROVE y[l + k] = pd2[c2[k]]
  <2>1. CASE k = n + 1
    <3>1. l + k = l + n + 1
      BY <2>1
    <3> QED BY <1>4, <1>6, <1>8, <2>1, <3>1
  <2>2. CASE k \in 1 .. n
    <3>1. l + k \in 1 .. l + n /\ k \in 0 .. n
      BY <2>2
    <3>2. y[l + k] = pd[c[k]]
      BY <1>1, <1>2, <1>4, <2>2, <3>1
    <3>3. c2[k] = c[k] /\ c[k] \in DOMAIN pd
      BY <1>6, <2>2, <3>1
    <3> QED BY <1>8, <3>2, <3>3
  <2> QED BY <2>1, <2>2
<1>10. \A i \in 1 .. l : y[i] = f[i]
  BY <1>1, <1>2, <1>4
<1>11. Len(y) = l + (n + 1)
  BY <1>4
<1>12. DataIs(y, f, n + 1, c2, pd2)
  BY <1>1, <1>2, <1>4, <1>9, <1>10, <1>11 DEF DataIs
<1> QED BY <1>3, <1>5, <1>7, <1>12

(* The first of the queue is fetched; an empty text leaves no trace.       *)
LEMMA DataMoves ==
  ASSUME NEW x, NEW f, NEW n \in Nat, NEW c, NEW pd, NEW old,
         DataIs(x, f, n, c, pd), n >= 1, old = c[1],
         \A k \in 0 .. n : c[k] \in DOMAIN pd, \A j, k \in 0 .. n : c[j] = c[k] => j = k
  PROVE  \E y : /\ DataIs(y, Kept(f, pd[old]), n - 1, Shrinks(c, n), Without(pd, old))
                /\ Texts(y) = Texts(x)
<1>1. /\ x \in Seq(Texted) /\ f \in Seq(Bytes) /\ Len(x) = Len(f) + n
      /\ \A i \in 1 .. Len(f) : x[i] = f[i]
      /\ \A k \in 1 .. n : x[Len(f) + k] = pd[c[k]]
  BY DEF DataIs
<1>2. PICK l \in Nat : l = Len(f)
  BY <1>1, LenProperties
<1>3. PICK c2 : c2 = Shrinks(c, n)
  OBVIOUS
<1>4. \A k \in 1 .. n - 1 : c2[k] = c[k + 1]
  BY <1>3 DEF Shrinks
<1>5. PICK pd2 : pd2 = Without(pd, old)
  OBVIOUS
<1>6. \A k \in 1 .. n - 1 : pd2[c2[k]] = pd[c[k + 1]]
  <2> SUFFICES ASSUME NEW k \in 1 .. n - 1 PROVE pd2[c2[k]] = pd[c[k + 1]]
    OBVIOUS
  <2>1. k + 1 \in 0 .. n /\ 1 \in 0 .. n /\ k + 1 # 1
    OBVIOUS
  <2>2. c[k + 1] # old /\ c[k + 1] \in DOMAIN pd
    BY <2>1
  <2> QED BY <1>4, <1>5, <2>2 DEF Without
<1>7. PICK d : d = pd[old]
  OBVIOUS
<1>8. x[l + 1] = d /\ d \in Texted /\ Len(x) = l + n
  <2>1. 1 \in 1 .. n /\ l + 1 \in 1 .. Len(x)
    BY <1>1, <1>2
  <2> QED BY <1>1, <1>2, <1>7, <2>1, ElementOfSeq
<1>9. CASE d = None
  <2> DEFINE y == [i \in 1 .. l + n - 1 |-> IF i <= l THEN x[i] ELSE x[i + 1]]
  <2>1. y \in Seq(Texted) /\ Len(y) = l + n - 1
    <3>1. l + n - 1 \in Nat
      OBVIOUS
    <3>2. ASSUME NEW i \in 1 .. l + n - 1 PROVE (IF i <= l THEN x[i] ELSE x[i + 1]) \in Texted
      <4>1. i \in 1 .. Len(x) /\ i + 1 \in 1 .. Len(x)
        BY <1>8
      <4> QED BY <1>1, <4>1, ElementOfSeq
    <3> QED BY <3>1, <3>2, IsASeq
  <2>2. \A i \in 1 .. l + n - 1 : y[i] = IF i <= l THEN x[i] ELSE x[i + 1]
    OBVIOUS
  <2>. HIDE DEF y
  <2>3. TakenOut(x, y, l + 1)
    <3>1. l + 1 \in 1 .. Len(x) /\ Len(y) = Len(x) - 1
      BY <1>8, <2>1
    <3>2. ASSUME NEW i \in 1 .. (l + 1) - 1 PROVE y[i] = x[i]
      BY <2>2
    <3>3. ASSUME NEW i \in l + 1 .. Len(x) - 1 PROVE y[i] = x[i + 1]
      BY <1>8, <2>2
    <3> QED BY <1>8, <1>9, <3>1, <3>2, <3>3 DEF TakenOut
  <2>4. Texts(y) = Texts(x)
    <3>1. Len(x) \in Nat
      BY <1>8
    <3> QED BY <2>3, <3>1, TextsOfTakenOut
  <2>5. \A i \in 1 .. l : y[i] = f[i]
    BY <1>1, <1>2, <2>2
  <2>6. ASSUME NEW k \in 1 .. n - 1 PROVE y[l + k] = pd2[c2[k]]
    <3>1. l + k \in 1 .. l + n - 1 /\ ~ (l + k <= l) /\ (l + k) + 1 = l + (k + 1) /\ k + 1 \in 1 .. n
      OBVIOUS
    <3>2. y[l + k] = x[l + (k + 1)]
      BY <2>2, <3>1
    <3> QED BY <1>1, <1>2, <1>6, <3>1, <3>2
  <2>7. Len(y) = l + (n - 1)
    BY <2>1
  <2>8. DataIs(y, f, n - 1, c2, pd2)
    BY <1>1, <1>2, <2>1, <2>5, <2>6, <2>7 DEF DataIs
  <2>9. Kept(f, pd[old]) = f
    BY <1>7, <1>9 DEF Kept
  <2> QED BY <1>3, <1>5, <2>4, <2>8, <2>9
<1>10. CASE d # None
  <2>1. d \in Bytes
    BY <1>8, <1>10 DEF Texted
  <2>2. PICK f2 : f2 = Append(f, d)
    OBVIOUS
  <2>3. /\ f2 \in Seq(Bytes) /\ Len(f2) = l + 1 /\ f2[l + 1] = d
        /\ \A i \in 1 .. l : f2[i] = f[i]
    BY <1>1, <1>2, <2>1, <2>2, AppendProperties
  <2>4. Len(x) = (l + 1) + (n - 1)
    BY <1>8
  <2>5. ASSUME NEW i \in 1 .. l + 1 PROVE x[i] = f2[i]
    <3>1. i \in 1 .. l \/ i = l + 1
      OBVIOUS
    <3> QED BY <1>1, <1>2, <1>8, <2>3, <3>1
  <2>6. ASSUME NEW k \in 1 .. n - 1 PROVE x[(l + 1) + k] = pd2[c2[k]]
    <3>1. (l + 1) + k = l + (k + 1) /\ k + 1 \in 1 .. n
      OBVIOUS
    <3> QED BY <1>1, <1>2, <1>6, <3>1
  <2>7. DataIs(x, f2, n - 1, c2, pd2)
    BY <1>1, <2>3, <2>4, <2>5, <2>6 DEF DataIs
  <2>8. Kept(f, pd[old]) = f2
    BY <1>7, <1>10, <2>2 DEF Kept
  <2> QED BY <1>3, <1>5, <2>7, <2>8
<1> QED BY <1>9, <1>10

(* With nothing in the queue, what is printed goes behind what was.        *)
LEMMA DataPrinted ==
  ASSUME NEW x, NEW f, NEW c, NEW pd, NEW d \in Bytes, DataIs(x, f, 0, c, pd)
  PROVE  DataIs(Append(x, d), Append(f, d), 0, c, pd)
<1>1. /\ x \in Seq(Texted) /\ f \in Seq(Bytes) /\ Len(x) = Len(f) + 0
      /\ \A i \in 1 .. Len(f) : x[i] = f[i]
  BY DEF DataIs
<1>2. PICK l \in Nat : l = Len(f)
  BY <1>1, LenProperties
<1>3. PICK y : y = Append(x, d)
  OBVIOUS
<1>4. PICK g : g = Append(f, d)
  OBVIOUS
<1>5. /\ y \in Seq(Texted) /\ Len(y) = l + 1 /\ y[l + 1] = d
      /\ \A i \in 1 .. l : y[i] = x[i]
  <2>1. d \in Texted /\ Len(x) = l
    BY <1>1, <1>2 DEF Texted
  <2> QED BY <1>1, <1>3, <2>1, AppendProperties
<1>6. /\ g \in Seq(Bytes) /\ Len(g) = l + 1 /\ g[l + 1] = d
      /\ \A i \in 1 .. l : g[i] = f[i]
  BY <1>1, <1>2, <1>4, AppendProperties
<1>7. ASSUME NEW i \in 1 .. l + 1 PROVE y[i] = g[i]
  <2>1. i \in 1 .. l \/ i = l + 1
    OBVIOUS
  <2> QED BY <1>1, <1>2, <1>5, <1>6, <2>1
<1>8. DataIs(y, g, 0, c, pd)
  BY <1>5, <1>6, <1>7 DEF DataIs
<1> QED BY <1>3, <1>4, <1>8

(* A push is longer than a heartbeat and does not begin with one, which is *)
(* what the test of its first two bytes before the callback relies on.     *)
LEMMA PushBeginsOtherwise ==
  ASSUME NEW j \in 1 .. Len(Push)
  PROVE  SubSeq(Push[j], 1, 2) # Heartbeat
<1>1. PICK m : m = Push[j]
  OBVIOUS
<1>2. /\ m \in Seq(Bytes) /\ Len(m) \in Nat
      /\ getPushJson(m, Len(m)) = [start |-> 0, length |-> Len(m)]
  BY <1>1, MessageType
<1>3. PICK n \in Nat : n = Len(m)
  BY <1>2
<1> DEFINE b == First(Begins(m, 0, n))
           e == First(Ends(m, b, n))
<1>4. getPushJson(m, n) = IF b = -1 THEN [start |-> -1, length |-> -1]
                          ELSE IF e = -1 THEN [start |-> b, length |-> -1]
                          ELSE [start |-> b, length |-> e - b + 1]
  BY PushJsonIs
<1>5. b \in Begins(m, 0, n) \cup {-1} /\ e \in Ends(m, b, n) \cup {-1}
  BY FirstRange
<1>6. \A p \in Begins(m, 0, n) : p \in 0 .. n - 1 /\ m[p + 1] = Brace1
  BY DEF Begins
<1>7. b # -1 => \A p \in Ends(m, b, n) : p \in b .. n - 1 /\ m[p + 1] = Brace2
  BY DEF Ends
<1>. HIDE DEF b, e
<1>8. b = 0 /\ e = n - 1 /\ m[1] = Brace1 /\ m[n] = Brace2 /\ n >= 1
  <2>1. PICK g : g = getPushJson(m, n)
    OBVIOUS
  <2>2. g.start = 0 /\ g.length = n
    BY <1>2, <1>3, <2>1
  <2>3. b # -1
    BY <1>4, <2>1, <2>2
  <2>4. b \in 0 .. n - 1 /\ m[b + 1] = Brace1
    BY <1>5, <1>6, <2>3
  <2>5. e # -1
    BY <1>4, <2>1, <2>2, <2>3
  <2>6. b = 0 /\ n = e - b + 1
    BY <1>4, <2>1, <2>2, <2>3, <2>5
  <2>7. e \in b .. n - 1 /\ m[e + 1] = Brace2
    BY <1>5, <1>7, <2>3, <2>5
  <2>8. e = n - 1 /\ e + 1 = n
    BY <2>6, <2>7
  <2>9. n >= 1 /\ b + 1 = 1
    BY <2>4, <2>6
  <2> QED BY <2>4, <2>6, <2>7, <2>8, <2>9
<1>9. n >= 2
  BY <1>8, BracesDiffer
<1>10. SUFFICES ASSUME SubSeq(m, 1, 2) = Heartbeat PROVE FALSE
  BY <1>1
<1>11. PICK h : h = Heartbeat
  OBVIOUS
<1>12. Len(h) = 2 /\ h \in Seq(Bytes) /\ getPushJson(h, 2) = [start |-> 0, length |-> 2]
  BY <1>11, HeartbeatIs, HeartbeatJson
<1>13. \A i \in 1 .. 2 : h[i] = m[i]
  <2>1. \A i \in 1 .. 2 : SubSeq(m, 1, 2)[i] = m[1 + i - 1]
    BY <1>2, <1>3, <1>9
  <2>2. \A i \in 1 .. 2 : 1 + i - 1 = i
    OBVIOUS
  <2> QED BY <1>10, <1>11, <2>1, <2>2
<1>14. Grows(h, 2, m, n)
  BY <1>9, <1>13 DEF Grows
<1>15. Stays(getPushJson(h, 2), getPushJson(m, n))
  BY <1>14, PushJsonStable
<1>16. n = 2
  BY <1>2, <1>3, <1>12, <1>15 DEF Stays
<1>17. m = h
  BY <1>2, <1>3, <1>12, <1>13, <1>16, SeqEqual
<1> QED BY <1>1, <1>11, <1>17, PushIsNoHeartbeat

-----------------------------------------------------------------------------
(* The inductive invariant of parse_push.  main has a callback when it     *)
(* processes pushes and never does so without a node to queue one in; the  *)
(* list is a chain, and what was fetched and the data in it are the pushes *)
(* up to the resume point, but for the one that is being handed over.      *)
InHand == Holding /\ DataOf(Message(found)) # None

SeenCount == Here - (IF InHand THEN 1 ELSE 0)

MainOK ==
  /\ phase # "init" => callback
  /\ phase \in {"init", "start", "call"} => pc = "idle"
  /\ phase = "call" \/ pc # "idle" => DOMAIN next # Nodes

Holds(n, c, x) ==
  /\ ChainOf(n, c) /\ DataIs(x, fetched, n, c, push_data)
  /\ commandLine => n = 0

HoldsFeed == \E n, c, x : Holds(n, c, x) /\ Texts(x) = SubSeq(Times, 1, SeenCount)

QueueInv == Framed /\ "yun" \in faults => MainOK /\ HoldsFeed

LEMMA QueueInit == PushInit => QueueInv
<1> SUFFICES ASSUME PushInit PROVE MainOK /\ HoldsFeed
  BY DEF QueueInv
<1>1. /\ pc = "idle" /\ phase = "init" /\ fetched = <<>> /\ tail = HeadNode
      /\ next = [k \in {HeadNode} |-> NULL] /\ push_data = [k \in {HeadNode} |-> None]
      /\ lastPushTime = None
  BY DEF PushInit, Init, YunInit
<1>2. MainOK
  BY <1>1 DEF MainOK
<1>3. SeenCount = 0
  <2>1. Here = 0
    BY <1>1, IndexOfTime DEF Here
  <2>2. ~ Holding
    BY <1>1 DEF Holding
  <2>3. (IF InHand THEN 1 ELSE 0) = 0
    BY <2>2, Zenon DEF InHand
  <2>4. SeenCount = 0 - 0
    BY <2>1, <2>3, Zenon DEF SeenCount
  <2> QED BY <2>4
<1>4. SubSeq(Times, 1, 0) = <<>>
  BY PushFacts, SubSeqEmpty
<1> DEFINE c == [k \in 0 .. 0 |-> HeadNode]
<1>5. ChainOf(0, c)
  <2>1. \A k \in 0 .. 0 : k = 0
    OBVIOUS
  <2>2. 0 \in 0 .. MaxNodes /\ HeadNode \in Nodes
    BY NodesAssumption DEF HeadNode, Nodes
  <2>3. c[0] = HeadNode /\ c \in [0 .. 0 -> Nodes] /\ {c[k] : k \in 0 .. 0} = {HeadNode}
    BY <2>1, <2>2
  <2>4. ~ \E k \in 0 .. 0 - 1 : TRUE
    OBVIOUS
  <2>. HIDE DEF c
  <2> QED BY <1>1, <2>1, <2>2, <2>3, <2>4 DEF ChainOf, Chain
<1>6. DataIs(<<>>, fetched, 0, c, push_data)
  <2>1. <<>> \in Seq(Texted) /\ <<>> \in Seq(Bytes) /\ Len(<<>>) = 0
    OBVIOUS
  <2>2. PICK e : e = <<>>
    OBVIOUS
  <2>3. Len(e) = Len(fetched) + 0 /\ Len(fetched) = 0 /\ fetched \in Seq(Bytes) /\ e \in Seq(Texted)
    BY <1>1, <2>1, <2>2
  <2>. HIDE DEF c
  <2>4. DataIs(e, fetched, 0, c, push_data)
    BY <2>3 DEF DataIs
  <2> QED BY <2>2, <2>4
<1>7. Holds(0, c, <<>>)
  BY <1>5, <1>6 DEF Holds
<1>8. HoldsFeed
  <2>. HIDE DEF c
  <2> QED BY <1>3, <1>4, <1>7, TextsOfNone DEF HoldsFeed
<1> QED BY <1>2, <1>8

(* Steps that leave the queue and the number of pushes seen alone.         *)
LEMMA QueueUntouched ==
  ASSUME HoldsFeed, UNCHANGED <<commandLine, queueVars, fetched>>, SeenCount' = SeenCount
  PROVE  HoldsFeed'
<1>1. PICK n, c, x : Holds(n, c, x) /\ Texts(x) = SubSeq(Times, 1, SeenCount)
  BY DEF HoldsFeed
<1>2. ChainOf(n, c)'
  BY <1>1 DEF Holds, ChainOf, queueVars
<1>3. DataIs(x, fetched, n, c, push_data)'
  BY <1>1 DEF Holds, DataIs, queueVars
<1>4. Holds(n, c, x)'
  BY <1>1, <1>2, <1>3 DEF Holds
<1> QED BY <1>1, <1>4 DEF HoldsFeed

LEMMA SeenStays ==
  ASSUME UNCHANGED lastPushTime,
         \/ (Holding' <=> Holding) /\ UNCHANGED <<found, buffer>>
         \/ pc' = pc /\ UNCHANGED <<found, buffer>>
         \/ ~ Holding /\ ~ Holding'
  PROVE  SeenCount' = SeenCount
<1>1. Here' = Here
  BY DEF Here
<1>2. InHand' = InHand
  <2>1. CASE (Holding' <=> Holding) /\ UNCHANGED <<found, buffer>>
    <3>1. Message(found)' = Message(found)
      BY <2>1 DEF Message
    <3>2. DataOf(Message(found))' = DataOf(Message(found))
      BY <3>1 DEF DataOf
    <3> QED BY <2>1, <3>2 DEF InHand
  <2>2. CASE ~ Holding /\ ~ Holding'
    BY <2>2 DEF InHand
  <2> QED BY <2>1, <2>2 DEF Holding
<1> QED BY <1>1, <1>2 DEF SeenCount

LEMMA DataOfMessage ==
  /\ DataOf(Heartbeat) = None
  /\ \A j \in 1 .. Len(Push) : DataOf(Push[j]) = Times[j] /\ Times[j] # None /\ Times[j] \in Bytes
<1>1. \A j \in 1 .. Len(Times) : Times[j] \in Bytes
  BY PushFacts, ElementOfSeq
<1> QED BY <1>1, HeartbeatHasNoTime, FeedFacts, IndexOfTime, PushFacts DEF DataOf

LEMMA SeenAfterReceive ==
  ASSUME IInv, FeedInv, Framed, NEW bytes, Received(bytes)
  PROVE  SeenCount' = SeenCount /\ pc = "recv" /\ pc' # "idle"
<1>1. pc = "recv" /\ ~ InHand
  BY DEF Received, InHand, Holding
<1>2. CASE buffer' = bytes /\ pc' = "recv" /\ lastPushTime' = lastPushTime
  BY <1>1, <1>2, SeenStays DEF Holding
<1>3. ASSUME NEW m, NEW j, Taken(PushProtocol, bytes, Stream, Here, sent, j, m)
      PROVE  SeenCount' = SeenCount /\ pc' # "idle"
  <2>1. Holding' /\ pc' # "idle" /\ Message(found)' = m /\ Here' = j
    BY <1>3, ScanTakes
  <2>2. InHand' <=> DataOf(m) # None
    BY <2>1 DEF InHand, DataOf
  <2>3. Here \in Nat
    BY StreamType
  <2>4. CASE m = Heartbeat /\ j = Here
    BY <1>1, <2>1, <2>2, <2>4, DataOfMessage DEF SeenCount
  <2>5. CASE j = Here + 1 /\ j \in 1 .. Len(Push) /\ m = Push[j]
    <3>1. InHand'
      BY <2>2, <2>5, DataOfMessage
    <3> QED BY <1>1, <2>1, <2>3, <2>5, <3>1 DEF SeenCount
  <2> QED BY <1>3, <2>1, <2>4, <2>5, MessageTaken DEF NextMessage
<1> QED BY <1>1, <1>2, <1>3, ScanComesTo

(* A heartbeat is not seen, and a push is given to the callback.           *)
LEMMA SeenAfterNotify ==
  ASSUME IInv, FeedInv, Framed, callback, Notify
  PROVE  \/ delivered' = delivered /\ SeenCount' = SeenCount
         \/ /\ delivered' # delivered /\ DataOf(Message(found)) = Times[Here]
            /\ Here \in 1 .. Len(Push) /\ SeenCount = Here - 1 /\ SeenCount' = Here
<1>1. /\ pc = "notify" /\ pc' = "idle" /\ lastPushTime' = lastPushTime
      /\ delivered' = IF SubSeq(Message(found), 1, 2) = Heartbeat \/ ~ callback
                      THEN delivered ELSE Append(delivered, Message(found))
  BY DEF Notify, Return, client
<1>2. Here' = Here /\ ~ InHand' /\ Holding /\ Here \in 0 .. Len(Push) /\ Len(Push) \in Nat
  BY <1>1, StreamType DEF Here, InHand, Holding
<1>3. SeenCount' = Here
  BY <1>2 DEF SeenCount
<1>4. CASE Message(found) = Heartbeat
  <2>1. SubSeq(Heartbeat, 1, 2) = Heartbeat
    <3>1. PICK h : h = Heartbeat
      OBVIOUS
    <3>2. h \in Seq(Bytes) /\ Len(h) = 2
      BY <3>1, HeartbeatIs
    <3>3. SubSeq(h, 1, 2) = h
      BY <3>2
    <3> QED BY <3>1, <3>3
  <2>2. delivered' = delivered
    BY <1>1, <1>4, <2>1
  <2>3. ~ InHand
    BY <1>4, DataOfMessage DEF InHand
  <2> QED BY <1>2, <1>3, <2>2, <2>3 DEF SeenCount
<1>5. CASE Here >= 1 /\ Message(found) = Push[Here]
  <2>1. Here \in 1 .. Len(Push)
    BY <1>2, <1>5
  <2>2. DataOf(Message(found)) = Times[Here] /\ InHand
    BY <1>2, <1>5, <2>1, DataOfMessage DEF InHand
  <2>3. delivered' = Append(delivered, Push[Here])
    BY <1>1, <1>5, <2>1, PushBeginsOtherwise
  <2>4. delivered' # delivered
    <3>1. delivered \in Seq(Seq(Bytes)) /\ Push[Here] \in Seq(Bytes)
      BY <2>1, PushFacts, ElementOfSeq DEF IInv, TypeOK
    <3>2. Len(delivered') = Len(delivered) + 1 /\ Len(delivered) \in Nat
      BY <2>3, <3>1, AppendProperties, LenProperties
    <3> QED BY <3>2
  <2>5. SeenCount = Here - 1
    BY <2>2 DEF SeenCount
  <2> QED BY <1>3, <2>1, <2>2, <2>4, <2>5
<1>6. HandoverOK
  BY DEF FeedInv
<1> QED BY <1>2, <1>4, <1>5, <1>6 DEF HandoverOK

(* The callback puts what it is given behind everything else.              *)
LEMMA HandlerHolds ==
  ASSUME NEW n, NEW c, NEW x, Holds(n, c, x), NEW d \in Texted, NEW isError \in BOOLEAN,
         isError => d = None, newPushHandler(d, isError), DOMAIN next # Nodes,
         UNCHANGED commandLine
  PROVE  \E n2, c2, x2 : Holds(n2, c2, x2)' /\ Texts(x2) = Kept(Texts(x), d)
<1>1. /\ Chain(n, c, next, push_data, tail) /\ DataIs(x, fetched, n, c, push_data)
      /\ commandLine => n = 0
  BY DEF Holds, ChainOf
<1>2. n \in Nat /\ \A k \in 0 .. n : c[k] \in DOMAIN push_data
  BY <1>1, NodesAssumption DEF Chain
<1>3. CASE commandLine
  <2>1. fetched' = Kept(fetched, d) /\ UNCHANGED <<next, push_data, tail>> /\ n = 0
    BY <1>1, <1>3 DEF newPushHandler, Printed, Kept, queueVars
  <2>2. CASE d = None
    <3>1. fetched' = fetched /\ Kept(Texts(x), d) = Texts(x)
      BY <2>1, <2>2 DEF Kept
    <3>2. Holds(n, c, x)'
      BY <1>1, <2>1, <3>1 DEF Holds, ChainOf
    <3> QED BY <3>1, <3>2
  <2>3. CASE d # None
    <3>1. d \in Bytes /\ fetched' = Append(fetched, d)
      BY <2>1, <2>3 DEF Kept, Texted
    <3>2. DataIs(Append(x, d), Append(fetched, d), 0, c, push_data)
      BY <1>1, <2>1, <3>1, DataPrinted
    <3>3. Holds(n, c, Append(x, d))'
      BY <1>1, <2>1, <3>1, <3>2 DEF Holds, ChainOf
    <3>4. Texts(Append(x, d)) = Kept(Texts(x), d)
      BY <1>1, TextsGrow DEF DataIs
    <3> QED BY <3>3, <3>4
  <2> QED BY <2>2, <2>3
<1>4. CASE ~ commandLine
  <2>1. enqueuePush(d) /\ fetched' = fetched
    BY <1>4 DEF newPushHandler
  <2>2. PICK node : /\ Fresh(node, next)
                    /\ next' = With([m \in DOMAIN next |-> IF m = tail THEN node ELSE next[m]], node, NULL)
                    /\ push_data' = With(push_data, node, d)
                    /\ tail' = node
    BY <2>1 DEF enqueuePush, Fresh
  <2>3. PICK c2 : c2 = Extends(c, n, node)
    OBVIOUS
  <2>4. Chain(n + 1, c2, next', push_data', tail') /\ node \notin DOMAIN push_data
    BY <1>1, <2>2, <2>3, ChainGrows
  <2>5. DataIs(Append(x, d), fetched, n + 1, c2, push_data')
    BY <1>1, <1>2, <2>2, <2>3, <2>4, DataGrows
  <2>6. Holds(n + 1, c2, Append(x, d))'
    BY <1>4, <2>1, <2>4, <2>5 DEF Holds, ChainOf
  <2>7. Texts(Append(x, d)) = Kept(Texts(x), d)
    BY <1>1, TextsGrow DEF DataIs
  <2> QED BY <2>6, <2>7
<1> QED BY <1>3, <1>4

(* The sketch fetches the first: nothing is lost, and a node is free.      *)
LEMMA FetchHolds ==
  ASSUME NEW n, NEW c, NEW x, Holds(n, c, x), arduinoPushFetchHandler, ~ commandLine,
         UNCHANGED commandLine
  PROVE  /\ \E n2, c2, x2 : Holds(n2, c2, x2)' /\ Texts(x2) = Texts(x)
         /\ DOMAIN next' # Nodes
<1>1. Chain(n, c, next, push_data, tail) /\ DataIs(x, fetched, n, c, push_data)
  BY DEF Holds, ChainOf
<1>2. /\ n \in 0 .. MaxNodes /\ c \in [0 .. n -> Nodes]
      /\ \A j, k \in 0 .. n : c[j] = c[k] => j = k
      /\ \A k \in 0 .. n : c[k] \in DOMAIN push_data
  BY <1>1 DEF Chain
<1>3. PICK old : old = next[HeadNode]
  OBVIOUS
<1>4. /\ old # NULL /\ fetched' = Kept(fetched, push_data[old])
      /\ next' = [Without(next, old) EXCEPT ![HeadNode] = next[old]]
      /\ push_data' = Without(push_data, old)
      /\ tail' = IF next[old] = NULL THEN HeadNode ELSE tail
  BY <1>3 DEF arduinoPushFetchHandler, Printed, Kept
<1>5. PICK c2 : c2 = Shrinks(c, n)
  OBVIOUS
<1>6. next[HeadNode] # NULL
  BY <1>3, <1>4
<1>7. /\ n \in 1 .. MaxNodes /\ c[1] = old
      /\ Chain(n - 1, c2, [Without(next, old) EXCEPT ![HeadNode] = next[old]],
               Without(push_data, old), IF next[old] = NULL THEN HeadNode ELSE tail)
  <2>1. /\ n \in 1 .. MaxNodes /\ c[1] = next[HeadNode]
        /\ Chain(n - 1, Shrinks(c, n),
                 [Without(next, c[1]) EXCEPT ![HeadNode] = next[c[1]]],
                 Without(push_data, c[1]), IF next[c[1]] = NULL THEN HeadNode ELSE tail)
    BY <1>1, <1>6, ChainShrinks
  <2>2. c[1] = old
    BY <1>3, <2>1
  <2> QED BY <1>5, <2>1, <2>2
<1>8. Chain(n - 1, c2, next', push_data', tail')
  BY <1>4, <1>7
<1>9. n \in Nat /\ n >= 1
  BY <1>7, NodesAssumption
<1>10. PICK y : /\ DataIs(y, Kept(fetched, push_data[old]), n - 1, c2, Without(push_data, old))
                /\ Texts(y) = Texts(x)
  <2>1. old = c[1]
    BY <1>7
  <2>2. \E y : /\ DataIs(y, Kept(fetched, push_data[old]), n - 1, Shrinks(c, n), Without(push_data, old))
               /\ Texts(y) = Texts(x)
    BY <1>1, <1>2, <1>9, <2>1, DataMoves
  <2> QED BY <1>5, <2>2
<1>11. Holds(n - 1, c2, y)'
  <2>1. DataIs(y, fetched', n - 1, c2, push_data')
    BY <1>4, <1>10
  <2> QED BY <1>8, <2>1 DEF Holds, ChainOf
<1>12. DOMAIN next' # Nodes
  <2>1. old \in Nodes
    <3>1. 1 \in 0 .. n
      BY <1>9
    <3> QED BY <1>2, <1>7, <3>1
  <2>2. old \notin DOMAIN next'
    BY <1>4 DEF Without
  <2> QED BY <2>1, <2>2
<1> QED BY <1>10, <1>11, <1>12

LEMMA TimesGrow ==
  ASSUME NEW i \in 1 .. Len(Push)
  PROVE  Append(SubSeq(Times, 1, i - 1), Times[i]) = SubSeq(Times, 1, i)
<1>. Times \in Seq(Bytes) /\ Len(Times) = Len(Push) /\ Len(Push) \in Nat
  BY PushFacts, PushLen
<1>1. PICK x : x = SubSeq(Times, 1, i - 1)
  OBVIOUS
<1>2. PICK y : y = SubSeq(Times, 1, i)
  OBVIOUS
<1>3. PICK z : z = Append(x, Times[i])
  OBVIOUS
<1>4. x \in Seq(Bytes) /\ Len(x) = i - 1 /\ \A q \in 1 .. i - 1 : x[q] = Times[q]
  BY <1>1
<1>5. y \in Seq(Bytes) /\ Len(y) = i /\ \A q \in 1 .. i : y[q] = Times[q]
  BY <1>2
<1>6. Times[i] \in Bytes
  BY ElementOfSeq
<1>7. z \in Seq(Bytes) /\ Len(z) = i /\ z[i] = Times[i] /\ \A q \in 1 .. i - 1 : z[q] = x[q]
  <2>1. /\ z \in Seq(Bytes) /\ Len(z) = Len(x) + 1 /\ z[Len(x) + 1] = Times[i]
        /\ \A q \in 1 .. Len(x) : z[q] = x[q]
    BY <1>3, <1>4, <1>6, AppendProperties
  <2>2. Len(x) + 1 = i
    BY <1>4
  <2> QED BY <1>4, <2>1, <2>2
<1>8. ASSUME NEW q \in 1 .. Len(z) PROVE z[q] = y[q]
  <2>1. q \in 1 .. i /\ (q = i \/ q \in 1 .. i - 1)
    BY <1>7
  <2> QED BY <1>4, <1>5, <1>7, <2>1
<1>9. z = y
  BY <1>5, <1>7, <1>8, SeqEqual
<1> QED BY <1>1, <1>2, <1>3, <1>9

(* The steps of parse_push, one by one.                                    *)
LEMMA YunStepKeeps ==
  ASSUME IInv, FeedInv, Framed, MainOK, HoldsFeed, YunNext
  PROVE  MainOK' /\ HoldsFeed'
<1>. USE DEF server, client, receive, output
<1>1. PICK n, c, x : Holds(n, c, x) /\ Texts(x) = SubSeq(Times, 1, SeenCount)
  BY DEF HoldsFeed
<1>2. CASE YunSetCallback
  <2>1. /\ phase' = "start" /\ callback' /\ pc = "idle" /\ pc' = pc
        /\ UNCHANGED <<lastPushTime, commandLine, queueVars, fetched>>
    BY <1>2 DEF YunSetCallback, parseSetPushCallback
  <2>2. SeenCount' = SeenCount
    BY <2>1, SeenStays DEF Holding
  <2> QED BY <2>1, <2>2, QueueUntouched DEF MainOK
<1>3. CASE YunStart
  <2>1. /\ phase = "start" /\ phase' \in {"select", "exited"} /\ pc = "idle" /\ pc' = pc
        /\ callback' = callback /\ UNCHANGED <<lastPushTime, commandLine, queueVars, fetched>>
    BY <1>3 DEF YunStart, StartConnected, StartFailed
  <2>2. SeenCount' = SeenCount
    BY <2>1, SeenStays DEF Holding
  <2> QED BY <2>1, <2>2, QueueUntouched DEF MainOK
<1>4. CASE SelectError
  <2>1. /\ phase = "select" /\ phase' = "exited" /\ pc = "idle" /\ pc' = pc
        /\ callback' = callback /\ UNCHANGED <<lastPushTime, commandLine, queueVars, fetched>>
    BY <1>4 DEF SelectError
  <2>2. SeenCount' = SeenCount
    BY <2>1, SeenStays DEF Holding
  <2> QED BY <2>1, <2>2, QueueUntouched DEF MainOK
<1>5. CASE SelectFetch
  <2>1. /\ phase = "select" /\ phase' = "call" /\ pc = "idle" /\ pc' = pc
        /\ callback' = callback /\ UNCHANGED <<lastPushTime, commandLine>>
        /\ ~ commandLine /\ arduinoPushFetchHandler
    BY <1>5 DEF SelectFetch, vars
  <2>2. SeenCount' = SeenCount
    BY <2>1, SeenStays DEF Holding
  <2>3. PICK n2, c2, x2 : Holds(n2, c2, x2)' /\ Texts(x2) = Texts(x)
    BY <1>1, <2>1, FetchHolds
  <2>4. DOMAIN next' # Nodes
    BY <1>1, <2>1, FetchHolds
  <2>5. HoldsFeed'
    BY <1>1, <2>2, <2>3 DEF HoldsFeed
  <2> QED BY <2>1, <2>4, <2>5 DEF MainOK
<1>6. CASE SelectOther
  <2>1. /\ phase = "select" /\ phase' = "call" /\ pc = "idle" /\ pc' = pc /\ DOMAIN next # Nodes
        /\ callback' = callback /\ UNCHANGED <<lastPushTime, commandLine, queueVars, fetched>>
    BY <1>6 DEF SelectOther, vars
  <2>2. SeenCount' = SeenCount
    BY <2>1, SeenStays DEF Holding
  <2> QED BY <2>1, <2>2, QueueUntouched DEF MainOK, queueVars
<1>7. CASE YunProcess
  <2>1. /\ phase = "call" /\ phase' = "select" /\ pc = "idle" /\ ~ Holding /\ ~ Holding'
        /\ callback' = callback /\ UNCHANGED <<lastPushTime, commandLine, queueVars, fetched>>
    BY <1>7 DEF YunProcess, Process, Return, Holding
  <2>2. SeenCount' = SeenCount
    BY <2>1, SeenStays DEF Holding
  <2> QED BY <2>1, <2>2, QueueUntouched DEF MainOK, queueVars
<1>8. CASE YunNotify
  <2>1. /\ Notify /\ pc = "notify" /\ pc' = "idle" /\ callback' = callback
        /\ UNCHANGED <<commandLine, phase>>
        /\ delivered' = delivered => UNCHANGED <<queueVars, fetched>>
        /\ delivered' # delivered => newPushHandler(DataOf(Message(found)), FALSE)
    BY <1>8 DEF YunNotify, Notify, Return
  <2>2. phase \notin {"init", "start", "call"} /\ callback /\ DOMAIN next # Nodes
    BY <2>1 DEF MainOK
  <2>3. MainOK'
    BY <2>1, <2>2 DEF MainOK
  <2>4. CASE delivered' = delivered /\ SeenCount' = SeenCount
    BY <2>1, <2>3, <2>4, QueueUntouched
  <2>5. CASE /\ delivered' # delivered /\ DataOf(Message(found)) = Times[Here]
             /\ Here \in 1 .. Len(Push) /\ SeenCount = Here - 1 /\ SeenCount' = Here
    <3>1. PICK d : d = Times[Here]
      OBVIOUS
    <3>2. newPushHandler(d, FALSE) /\ d \in Texted /\ d # None
      BY <2>1, <2>5, <3>1, DataOfMessage DEF Texted
    <3>3. PICK n2, c2, x2 : Holds(n2, c2, x2)' /\ Texts(x2) = Kept(Texts(x), d)
      BY <1>1, <2>1, <2>2, <3>2, HandlerHolds
    <3>4. Texts(x2) = SubSeq(Times, 1, Here)
      <4>1. PICK i \in 1 .. Len(Push) : i = Here
        BY <2>5
      <4>2. Append(SubSeq(Times, 1, i - 1), Times[i]) = SubSeq(Times, 1, i)
        BY TimesGrow
      <4>3. Kept(Texts(x), d) = Append(Texts(x), d)
        BY <3>2 DEF Kept
      <4> QED BY <1>1, <2>5, <3>1, <3>3, <4>1, <4>2, <4>3
    <3>5. HoldsFeed'
      BY <2>5, <3>3, <3>4 DEF HoldsFeed
    <3> QED BY <2>3, <3>5
  <2> QED BY <2>1, <2>2, <2>4, <2>5, SeenAfterNotify
<1>9. CASE YunRecvError
  <2>1. /\ pc = "recv" /\ pc' = "idle" /\ callback' = callback
        /\ UNCHANGED <<lastPushTime, commandLine, phase>>
        /\ newPushHandler(None, TRUE)
    BY <1>9 DEF YunRecvError, RecvError, Return
  <2>2. phase \notin {"init", "start", "call"} /\ callback /\ DOMAIN next # Nodes
    BY <2>1 DEF MainOK
  <2>3. SeenCount' = SeenCount
    BY <2>1, SeenStays DEF Holding
  <2>4. PICK n2, c2, x2 : Holds(n2, c2, x2)' /\ Texts(x2) = Kept(Texts(x), None)
    <3>1. None \in Texted
      BY DEF Texted
    <3> QED BY <1>1, <2>1, <2>2, <3>1, HandlerHolds
  <2>5. HoldsFeed'
    BY <1>1, <2>3, <2>4 DEF HoldsFeed, Kept
  <2> QED BY <2>1, <2>2, <2>5 DEF MainOK
<1>10. CASE YunReceive
  <2>1. UNCHANGED <<commandLine, phase, queueVars, fetched>>
    BY <1>10 DEF YunReceive, yunVars
  <2>2. CASE (\E k \in 1 .. Len(wire) : RecvBytes(k)) \/ RecvClosed
    <3>1. PICK bytes : Received(bytes)
      BY <2>2, ReceivedChunk
    <3>2. SeenCount' = SeenCount /\ pc = "recv" /\ pc' # "idle"
      BY <3>1, SeenAfterReceive
    <3>3. callback' = callback
      BY <2>2 DEF RecvBytes, RecvClosed
    <3> QED BY <2>1, <3>2, <3>3, QueueUntouched DEF MainOK, queueVars
  <2>3. CASE RecvAgain
    <3>1. pc = "recv" /\ pc' = "idle" /\ callback' = callback /\ lastPushTime' = lastPushTime
      BY <2>3 DEF RecvAgain, Return
    <3>2. SeenCount' = SeenCount
      BY <3>1, SeenStays DEF Holding
    <3> QED BY <2>1, <3>1, <3>2, QueueUntouched DEF MainOK, queueVars
  <2>4. CASE Store
    <3>1. /\ pc # "idle" /\ UNCHANGED <<callback, lastPushTime, found, buffer>>
          /\ Holding /\ Holding'
      BY <2>4 DEF Store, StoreOpen, StoreWrite, Holding
    <3>2. SeenCount' = SeenCount
      BY <3>1, SeenStays
    <3>3. pc' # "idle"
      BY <3>1 DEF Holding
    <3> QED BY <2>1, <3>1, <3>2, <3>3, QueueUntouched DEF MainOK, queueVars
  <2> QED BY <1>10, <2>2, <2>3, <2>4 DEF YunReceive
<1>11. CASE YunServer
  <2>1. UNCHANGED <<commandLine, phase, queueVars, fetched, pc, found, buffer, callback, lastPushTime>>
    BY <1>11 DEF YunServer, yunVars, Publish, Transmit, Echo, PeerClose, PeerFail, Tick
  <2>2. SeenCount' = SeenCount
    BY <2>1, SeenStays
  <2> QED BY <2>1, <2>2, QueueUntouched DEF MainOK, queueVars
<1>12. CASE YunExited
  <2>1. UNCHANGED <<commandLine, phase, queueVars, fetched, pc, found, buffer, callback, lastPushTime>>
    BY <1>12 DEF YunExited, yunVars, vars
  <2>2. SeenCount' = SeenCount
    BY <2>1, SeenStays
  <2> QED BY <2>1, <2>2, QueueUntouched DEF MainOK, queueVars
<1> QED BY <1>2, <1>3, <1>4, <1>5, <1>6, <1>7, <1>8, <1>9, <1>10, <1>11, <1>12 DEF YunNext

LEMMA QueueStep == IInv /\ FeedInv /\ QueueInv /\ [PushNext]_<<vars, yunVars>> => QueueInv'
<1> SUFFICES ASSUME IInv, FeedInv, QueueInv, [PushNext]_<<vars, yunVars>> PROVE QueueInv'
  OBVIOUS
<1>1. CASE UNCHANGED <<vars, yunVars>>
  <2>1. UNCHANGED <<commandLine, phase, queueVars, fetched, pc, found, buffer, callback, lastPushTime, faults>>
    BY <1>1 DEF yunVars, vars, client, receive
  <2>2. SeenCount' = SeenCount
    BY <2>1, SeenStays
  <2> QED BY <2>1, <2>2, QueueUntouched DEF QueueInv, Framed, MainOK, queueVars
<1>2. CASE PushNext
  <2>1. faults' = faults
    <3>1. [Next]_vars
      BY <1>2, ParsePushStep
    <3>. USE DEF server, client, receive, output
    <3>2. CASE Environment
      BY <3>2 DEF Environment, Publish, Transmit, Echo, PeerClose, PeerFail, Tick, Restart
    <3>3. CASE Application
      BY <3>3 DEF Application, parseSetPushCallback, parseStartPushService, StartConnected,
                  StartFailed, parseStopPushService, parseRunPushLoop
    <3>4. CASE Process \/ SocketException \/ Notify \/ Store
      BY <3>4 DEF Process, SocketException, Notify, Store, StoreOpen, StoreWrite
    <3>5. CASE Receive
      BY <3>5 DEF Receive, RecvBytes, RecvClosed, RecvAgain, RecvError
    <3>6. CASE UNCHANGED vars
      BY <3>6 DEF vars
    <3> QED BY <3>1, <3>2, <3>3, <3>4, <3>5, <3>6 DEF Next
  <2> SUFFICES ASSUME Framed, "yun" \in faults PROVE MainOK' /\ HoldsFeed'
    BY <2>1 DEF QueueInv, Framed
  <2>2. YunNext
    BY <1>2 DEF PushNext
  <2> QED BY <2>2, YunStepKeeps DEF QueueInv
<1> QED BY <1>1, <1>2

(* What the invariant says of the list.                                    *)
LEMMA QueueInvHolds ==
  ASSUME IInv, QueueInv, Framed
  PROVE  QueueHoldsFeed
<1> SUFFICES ASSUME "yun" \in faults PROVE QueueHoldsFeed
  BY DEF QueueHoldsFeed
<1>1. PICK n, c, x : Holds(n, c, x) /\ Texts(x) = SubSeq(Times, 1, SeenCount)
  BY DEF QueueInv, HoldsFeed
<1>2. ChainOf(n, c) /\ DataIs(x, fetched, n, c, push_data)
  BY <1>1 DEF Holds
<1>3. /\ n \in Nat /\ c \in [0 .. n -> Nodes] /\ c[0] = HeadNode /\ tail = c[n]
      /\ DOMAIN next = {c[k] : k \in 0 .. n}
  BY <1>2, NodesAssumption DEF ChainOf, Chain
<1>4. /\ x \in Seq(Texted) /\ fetched \in Seq(Bytes) /\ Len(x) = Len(fetched) + n
      /\ \A i \in 1 .. Len(fetched) : x[i] = fetched[i]
      /\ \A k \in 1 .. n : x[Len(fetched) + k] = push_data[c[k]]
  BY <1>2 DEF DataIs
<1>5. PICK q : q = Queue
  OBVIOUS
<1>6. q = [k \in 1 .. n |-> c[k]]
  BY <1>2, <1>5, QueueOfChain
<1>7. q \in Seq(Nodes) /\ Len(q) = n /\ DOMAIN q = 1 .. n /\ \A k \in 1 .. n : q[k] = c[k]
  <2>1. \A k \in 1 .. n : c[k] \in Nodes
    BY <1>3
  <2> QED BY <1>3, <1>6, <2>1, IsASeq
<1>8. PICK l \in Nat : l = Len(fetched)
  BY <1>4, LenProperties
<1>9. PICK d : d = [k \in DOMAIN q |-> push_data[q[k]]]
  OBVIOUS
<1>10. d \in Seq(Texted) /\ Len(d) = n /\ \A k \in 1 .. n : d[k] = push_data[c[k]]
  <2>1. d = [k \in 1 .. n |-> push_data[c[k]]]
    BY <1>7, <1>9
  <2>2. ASSUME NEW k \in 1 .. n PROVE push_data[c[k]] \in Texted
    <3>1. l + k \in 1 .. Len(x)
      BY <1>3, <1>4, <1>8
    <3> QED BY <1>4, <1>8, <3>1, ElementOfSeq
  <2> QED BY <1>3, <2>1, <2>2, IsASeq
<1>11. fetched \o d = x
  <2>1. fetched \in Seq(Texted)
    <3>1. \A i \in 1 .. l : fetched[i] \in Texted
      BY <1>4, <1>8, ElementOfSeq DEF Texted
    <3>2. fetched = [i \in 1 .. l |-> fetched[i]]
      BY <1>4, <1>8
    <3>3. [i \in 1 .. l |-> fetched[i]] \in Seq(Texted)
      BY <3>1, IsASeq
    <3> QED BY <3>2, <3>3
  <2>2. PICK y : y = fetched \o d
    OBVIOUS
  <2>3. /\ y \in Seq(Texted) /\ Len(y) = l + n
        /\ \A i \in 1 .. l + n : y[i] = IF i <= l THEN fetched[i] ELSE d[i - l]
    BY <1>8, <1>10, <2>1, <2>2, ConcatProperties
  <2>4. ASSUME NEW i \in 1 .. Len(y) PROVE y[i] = x[i]
    <3>1. CASE i <= l
      BY <1>3, <1>4, <1>8, <2>3, <3>1
    <3>2. CASE ~ (i <= l)
      <4>1. i - l \in 1 .. n /\ l + (i - l) = i /\ i \in 1 .. l + n
        BY <1>3, <2>3, <3>2
      <4> QED BY <1>4, <1>8, <1>10, <2>3, <3>2, <4>1
    <3> QED BY <3>1, <3>2
  <2>5. y = x
    BY <1>4, <1>8, <2>3, <2>4, SeqEqual
  <2> QED BY <2>2, <2>5
<1>12. tail = Last(<<HeadNode>> \o q)
  <2>1. <<HeadNode>> \in Seq(Nodes) /\ Len(<<HeadNode>>) = 1 /\ <<HeadNode>>[1] = HeadNode
    BY NodesAssumption DEF HeadNode, Nodes
  <2>2. PICK h : h = <<HeadNode>>
    OBVIOUS
  <2>3. PICK y : y = h \o q
    OBVIOUS
  <2>4. Len(y) = 1 + n /\ \A i \in 1 .. 1 + n : y[i] = IF i <= 1 THEN h[i] ELSE q[i - 1]
    BY <1>7, <2>1, <2>2, <2>3, ConcatProperties
  <2>5. y[1 + n] = c[n]
    <3>1. CASE n = 0
      BY <1>3, <2>1, <2>2, <2>4, <3>1
    <3>2. CASE n > 0
      <4>1. 1 + n \in 1 .. 1 + n /\ ~ (1 + n <= 1) /\ (1 + n) - 1 = n /\ n \in 1 .. n
        BY <1>3, <3>2
      <4> QED BY <1>7, <2>4, <4>1
    <3> QED BY <1>3, <3>1, <3>2
  <2> QED BY <1>3, <2>2, <2>3, <2>4, <2>5 DEF Last
<1>13. DOMAIN next = {HeadNode} \union Range(q)
  <2>1. Range(q) = {c[k] : k \in 1 .. n}
    BY <1>6 DEF Range
  <2>2. \A k \in 0 .. n : k = 0 \/ k \in 1 .. n
    OBVIOUS
  <2>3. 0 \in 0 .. n /\ \A k \in 1 .. n : k \in 0 .. n
    BY <1>3
  <2> QED BY <1>3, <2>1, <2>2, <2>3
<1>14. Texts(fetched \o d) = SubSeq(Times, 1, SeenCount)
  BY <1>1, <1>11
<1> QED BY <1>5, <1>9, <1>12, <1>13, <1>14 DEF QueueHoldsFeed, SeenCount, InHand, Here

(* While parse_push runs, none of the pushes is lost between the push      *)
(* service, its callback, the list and the sketch, and none is fetched     *)
(* twice: what was fetched and what the list holds are, in order, the data *)
(* of all pushes up to the resume point.  tail is the last node, and every *)
(* node that is allocated is in the list, so that a stale tail or a freed  *)
(* node is never written to.                                               *)
THEOREM QueueKept == PushSpec => [](Framed => QueueHoldsFeed)
<1>1. PushInit => QueueInv
  BY QueueInit
<1>2. IInv /\ FeedInv /\ QueueInv /\ [PushNext]_<<vars, yunVars>> => QueueInv'
  BY QueueStep
<1>3. IInv /\ QueueInv => (Framed => QueueHoldsFeed)
  BY QueueInvHolds
<1> QED BY <1>1, <1>2, <1>3, ParsePushRunsService, PushInvariant, FeedInvariant, PTL DEF PushSpec

=============================================================================

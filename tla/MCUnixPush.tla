----------------------------- MODULE MCUnixPush -----------------------------
(***************************************************************************)
(* UnixPush for TLC: the pushes, and the properties that compare the byte  *)
(* stream with the messages in it.                                         *)
(***************************************************************************)
EXTENDS UnixPush

(* Two pushes, as short as they can be.                                    *)
TwoPushes == << <<"{", "t1", "}">>, <<"{", "t2", "}">> >>

(* The second with a brace inside a string.                                *)
QuotedPushes == << <<"{", "t1", "}">>,
                <<"{", "t2", Quote, "}", Quote, "}">> >>
PushBytes == {"{", "}", Quote, NUL, Separator, "x", "t1", "t2"}
TwoTimes  == <<"t1", "t2">>

(* The pushes are what the server sends: each is one JSON object, without  *)
(* a separator in it, that has its own time at the top level; the marks of *)
(* an object are not times.                                                *)
ASSUME FeedAssumption ==
  /\ \A i \in 1 .. Len(Push) :
       /\ getPushJson(Push[i], Len(Push[i])) = [start |-> 0, length |-> Len(Push[i])]
       /\ \A p \in 1 .. Len(Push[i]) : Push[i][p] # Separator
       /\ TimeOf(Push[i]) = Times[i]
  /\ \A i, j \in 1 .. Len(Times) : Times[i] = Times[j] => i = j
  /\ \A i \in 1 .. Len(Times) : Times[i] # "{" /\ Times[i] # "}"

-----------------------------------------------------------------------------
PushIndex(text) == LET S == {i \in 1 .. Len(Push) : Push[i] = text}
                   IN  IF S = {} THEN 0 ELSE CHOOSE i \in S : TRUE

(* No message is parted from its separator, and none is left in part in    *)
(* the buffer when the service is started again.                           *)
Framed == faults \cap {"split", "stale"} = {}

(* What the callback got, as the abstract feed counts it.                  *)
Feed == INSTANCE PushFeed WITH
          Count     <- Len(Push),
          delivered <- IF Framed
                       THEN [k \in 1 .. Len(delivered) |-> PushIndex(delivered[k])]
                       ELSE <<>>,
          saved     <- Framed /\ ~ ResumeLost

(* The callback gets whole pushes, in order, each at most once: across     *)
(* chunks that split and join messages, across stops, a server that closes *)
(* the connection, and restarts of the process, wherever they fall.  Only  *)
(* a restart between the emptying of the key file and the write, or after  *)
(* a save that the disk did not take, gives it pushes a second time; they  *)
(* begin with the first and come in order again.  So it is also on a disk  *)
(* that fails, for the life of each process.                               *)
ImplementsFeed == Feed!Spec

(* The pushes in a byte stream, and what follows the last separator.       *)
Split(stream) ==
  LET split[p \in 0 .. Len(stream)] ==
        IF p = 0 THEN [pushes |-> <<>>, open |-> <<>>]
        ELSE IF stream[p] # Separator
        THEN [split[p - 1] EXCEPT !.open = Append(@, stream[p])]
        ELSE [pushes |-> IF split[p - 1].open = Heartbeat THEN split[p - 1].pushes
                         ELSE Append(split[p - 1].pushes, split[p - 1].open),
              open   |-> <<>>]
  IN  split[Len(stream)]

(* What the client has yet to look at, in the buffer and in the socket, is *)
(* always framed at a message boundary, and is exactly the heartbeats and  *)
(* the pushes after the resume point: nothing was dropped and nothing will *)
(* be seen twice.  The byte overwritten by the terminator is a separator.  *)
FramedBacklog ==
  LET stream == buffer \o wire
      rest   == Split(IF Holding THEN SubSeq(stream, found.length + 2, Len(stream))
                      ELSE stream)
  IN  Framed /\ conn \in {"up", "closed"} =>
        /\ Holding => found.start = 0 /\ stream[found.length + 1] = Separator
        /\ rest.open = <<>>
        /\ rest.pushes = SubSeq(Push, Index(lastPushTime) + 1, sent)

-----------------------------------------------------------------------------
(* parse.h on the data passed to the push callback: "this is a JSON        *)
(* document describing the payload for the notification".                  *)
DeliveredArePushes == \A k \in 1 .. Len(delivered) : PushIndex(delivered[k]) # 0

=============================================================================

------------------------------ MODULE YunPush ------------------------------
(***************************************************************************)
(* parse_push, the command that receives pushes for an Arduino Yun sketch  *)
(* (unix/yun/parse_push.c), on top of the push service: its loop of        *)
(* select and parseProcessNextPushNotification, the callback that queues   *)
(* the data of a push, and the sketch that asks for the next one.          *)
(*                                                                         *)
(* The queue is the linked list of the code: node 0 is the one on the      *)
(* stack that head always points to, the others are allocated.             *)
(***************************************************************************)
EXTENDS UnixPush

CONSTANTS
  MaxNodes  \* bound on the nodes allocated at the same time

ASSUME NodesAssumption == MaxNodes \in Nat

VARIABLES
  commandLine,  \* option -c: print pushes instead of queueing them
  phase,        \* where main is
  next,         \* node -> the node behind it; its domain is what is allocated
  push_data,    \* node -> the data of its push, None for an empty text
  tail,         \* the node pushes are added behind
  fetched       \* what was printed for the sketch or the user

queueVars == <<next, push_data, tail>>
yunVars == <<commandLine, phase, queueVars, fetched>>

NULL == -1
HeadNode == 0
Nodes == 0 .. MaxNodes

YunInit ==
  /\ commandLine \in BOOLEAN
  /\ phase = "init"
  /\ next = [n \in {HeadNode} |-> NULL] /\ push_data = [n \in {HeadNode} |-> None]
  /\ tail = HeadNode
  /\ fetched = <<>>

(* getValueFromJSON(buffer, "data", ...): the pushes of the model have one *)
(* byte of contents, which stands for their data as for their time.        *)
DataOf(text) == TimeOf(text)

-----------------------------------------------------------------------------
(* A field of the nodes, when one is allocated and when one is freed.      *)
With(f, n, v) == [x \in DOMAIN f \cup {n} |-> IF x = n THEN v ELSE f[x]]
Without(f, n) == [x \in DOMAIN f \ {n} |-> f[x]]

(* tail->next = malloc(...); tail = tail->next.  A stale tail writes into  *)
(* a node that is not in the list.                                         *)
enqueuePush(data) ==
  \E node \in {CHOOSE n \in Nodes : n \notin DOMAIN next} :
    /\ next' = With([n \in DOMAIN next |-> IF n = tail THEN node ELSE next[n]], node, NULL)
    /\ push_data' = With(push_data, node, data)
    /\ tail' = node

(* Of an empty text nothing is seen.                                       *)
Printed(data) == IF data = None THEN fetched ELSE Append(fetched, data)

(* The callback; it is given no text with an error, and queues an empty    *)
(* push then.                                                              *)
newPushHandler(data, isError) ==
  IF commandLine
  THEN /\ fetched' = IF isError THEN fetched ELSE Printed(data)
       /\ UNCHANGED queueVars
  ELSE enqueuePush(data) /\ UNCHANGED fetched

(* The sketch has written 'n' and is answered with the first push: a fetch *)
(* of the last push that leaves tail at the freed node, and the code's.    *)
FetchKeepsTail ==
  LET first == next[HeadNode]
  IN  /\ first # NULL
      /\ fetched' = Printed(push_data[first])
      /\ next' = [Without(next, first) EXCEPT ![HeadNode] = next[first]]
      /\ push_data' = Without(push_data, first)
      /\ UNCHANGED tail

arduinoPushFetchHandler ==
  LET first == next[HeadNode]
  IN  /\ first # NULL
      /\ fetched' = Printed(push_data[first])
      /\ next' = [Without(next, first) EXCEPT ![HeadNode] = next[first]]
      /\ push_data' = Without(push_data, first)
      /\ tail' = IF next[first] = NULL THEN HeadNode ELSE tail

-----------------------------------------------------------------------------
(* main.                                                                   *)

YunSetCallback ==
  /\ phase = "init" /\ phase' = "start"
  /\ parseSetPushCallback(TRUE)
  /\ UNCHANGED <<commandLine, queueVars, fetched>>

YunStart ==
  /\ phase = "start"
  /\ \/ StartConnected /\ phase' = "select"
     \/ StartFailed /\ phase' = IF commandLine THEN "exited" ELSE "select"
  /\ UNCHANGED <<commandLine, queueVars, fetched>>

(* select returns: with an error on the socket, with a request of the      *)
(* sketch, with input on the socket or with nothing after a second.  After *)
(* a start that failed there is no socket, and no descriptor is selected.  *)
(* On a failed connection each round queues an empty push: MaxNodes bounds *)
(* it.                                                                     *)
SelectError ==
  /\ phase = "select" /\ pc = "idle" /\ handle /\ conn = "failed"
  /\ Disconnect /\ phase' = "exited"
  /\ UNCHANGED <<published, callback, lastPushTime, stored, receive, loop, output, faults,
                 commandLine, queueVars, fetched>>

SelectFetch ==
  /\ phase = "select" /\ pc = "idle" /\ handle /\ ~commandLine
  /\ arduinoPushFetchHandler /\ phase' = "call"
  /\ UNCHANGED <<vars, commandLine>>

SelectOther ==
  /\ phase = "select" /\ pc = "idle" /\ DOMAIN next # Nodes /\ phase' = "call"
  /\ UNCHANGED <<vars, commandLine, queueVars, fetched>>

(* parseProcessNextPushNotification, whose result is not looked at.        *)
YunProcess ==
  /\ phase = "call" /\ Process /\ phase' = "select"
  /\ UNCHANGED <<commandLine, queueVars, fetched>>

YunNotify ==
  /\ Notify
  /\ IF delivered' # delivered THEN newPushHandler(DataOf(Message(found)), FALSE)
     ELSE UNCHANGED <<queueVars, fetched>>
  /\ UNCHANGED <<commandLine, phase>>

YunRecvError ==
  /\ RecvError /\ newPushHandler(None, TRUE)
  /\ UNCHANGED <<commandLine, phase>>

YunReceive ==
  /\ (\E n \in 1 .. Len(wire) : RecvBytes(n)) \/ RecvClosed \/ RecvAgain \/ Store
  /\ UNCHANGED yunVars

YunServer ==
  /\ Publish \/ Transmit \/ Echo \/ PeerClose \/ PeerFail \/ Tick
  /\ UNCHANGED yunVars

(* exit(0).                                                                *)
YunExited == phase = "exited" /\ UNCHANGED <<vars, yunVars>>

YunNext ==
  \/ YunSetCallback \/ YunStart \/ SelectError \/ SelectFetch \/ SelectOther
  \/ YunProcess \/ YunNotify \/ YunRecvError \/ YunReceive \/ YunServer
  \/ YunExited
=============================================================================

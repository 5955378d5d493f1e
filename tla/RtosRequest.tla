---------------------------- MODULE RtosRequest ----------------------------
(***************************************************************************)
(* API requests of the RTOS SDK (rtos/request.c, rtos/http.c) and the      *)
(* sockets they use (cc3200/src/socket.c).  The CC3200 build runs several  *)
(* tasks (SL_PLATFORM_MULTI_THREADED): the Blink sample sends requests     *)
(* from its main task and from the push task.  All requests go through the *)
(* one static dataBuffer.                                                  *)
(*                                                                         *)
(* A request is a call of parseSendRequestInternal.  It is made by a task, *)
(* perhaps inside the callback of an earlier request (its caller), and     *)
(* goes through the stages                                                 *)
(*   connect, build, write, clear, read, callback, done                    *)
(* The sockets of the driver and the API server are external.              *)
(***************************************************************************)
EXTENDS Integers, FiniteSets

CONSTANTS
  Tasks,         \* the tasks of the device
  Requests,      \* the requests they make: bounds how many
  Handles,       \* the sockets of the driver: bounds how many are open
  Nobody,        \* no request
  Environments   \* see below

(* An environment is a set of things that may happen; a behaviour has one, *)
(* faults, from its beginning to its end.                                  *)
(*                                                                         *)
(* "request" the tasks send requests                                       *)
(* "overlap" a task sends a request while another is in the middle of one  *)
(* "unsent"  a request does not fit in the buffer, or is not sent          *)
(* "close"   a server closes a connection                                  *)
RequestFaults == {"request", "overlap", "unsent", "close"}

ASSUME RequestAssumption ==
  /\ Handles \subseteq Nat
  /\ Nobody \notin Requests \cup Tasks

VARIABLES
  open,        \* the sockets that are open
  closed,      \* those of them the server has closed
  asked,       \* what was written to each socket
  dataBuffer,  \* what the shared buffer holds
  stage,       \* where each request is
  by,          \* the task that made it
  caller,      \* the request in whose callback it was made
  handle,      \* its socket
  result,      \* "ok" or "error": the sign of status
  faults       \* the environment

driver   == <<open, closed, asked>>
requests == <<stage, by, caller, handle, result>>

NoSocket == -1

Content == [kind : {"empty", "request", "response"}, of : Requests \cup {Nobody}]

Empty       == [kind |-> "empty", of |-> Nobody]
Request(r)  == [kind |-> "request", of |-> r]
Response(c) == [kind |-> "response", of |-> IF c.kind = "request" THEN c.of ELSE Nobody]

Active == {r \in Requests : stage[r] \notin {"new", "done"}}

(* The request a task is working on is not waiting for one made in its     *)
(* callback.                                                               *)
Running(r) == r \in Active /\ \A q \in Active : caller[q] # r

Idle(t) == \A r \in Active : by[r] # t

RequestTypeOK ==
  /\ open \subseteq Handles /\ closed \subseteq open
  /\ asked \in [Handles -> Content]
  /\ dataBuffer \in Content
  /\ stage \in [Requests -> {"new", "connect", "build", "write", "clear", "read",
                             "callback", "done"}]
  /\ by \in [Requests -> Tasks \cup {Nobody}]
  /\ caller \in [Requests -> Requests \cup {Nobody}]
  /\ handle \in [Requests -> Handles \cup {NoSocket}]
  /\ result \in [Requests -> {"ok", "error"}]
  /\ faults \in Environments

RequestInit ==
  /\ open = {} /\ closed = {} /\ asked = [h \in Handles |-> Empty]
  /\ dataBuffer = Empty
  /\ stage = [r \in Requests |-> "new"]
  /\ by = [r \in Requests |-> Nobody]
  /\ caller = [r \in Requests |-> Nobody]
  /\ handle = [r \in Requests |-> NoSocket]
  /\ result = [r \in Requests |-> "ok"]
  /\ faults \in Environments

-----------------------------------------------------------------------------
(* socket.c.                                                               *)

(* socketSslConnect: a socket that was not open, or an error; whatever     *)
(* fails after socket() closes it again.                                   *)
socketSslConnect(h) ==
  /\ h \in Handles \ open
  /\ open' = open \cup {h}
  /\ UNCHANGED closed
  /\ asked' = [asked EXCEPT ![h] = Empty]

(* socketClose, with -1 too.                                               *)
socketClose(h) ==
  /\ open' = open \ {h}
  /\ closed' = closed \ {h}
  /\ asked' = [g \in Handles |-> IF g = h THEN Empty ELSE asked[g]]

(* The API server closes a connection.  A recv on it returns 0, and        *)
(* socketRead goes round its loop for ever.                                *)
ServerCloses(r) ==
  /\ "close" \in faults
  /\ stage[r] = "read" /\ handle[r] \notin closed
  /\ closed' = closed \cup {handle[r]}
  /\ UNCHANGED <<open, asked, dataBuffer, requests, faults>>

-----------------------------------------------------------------------------
(* request.c.                                                              *)

Goto(r, next) == stage' = [stage EXCEPT ![r] = next]

(* sendRequest has returned: the callback is called with its status.       *)
Finish(r, status) ==
  /\ Goto(r, "callback")
  /\ result' = [result EXCEPT ![r] = status]
  /\ handle' = [handle EXCEPT ![r] = NoSocket]
  /\ UNCHANGED <<by, caller>>

(* Task t calls parseSendRequest, between its other calls or in   *)
(* the callback of request c.  The requests of getInstallation are made in *)
(* the same way.                                                           *)
parseSendRequest(t, r, c) ==
  /\ "request" \in faults
  /\ stage[r] = "new"
  /\ \/ c = Nobody /\ Idle(t)
     \/ c \in Requests /\ Running(c) /\ stage[c] = "callback" /\ by[c] = t
  /\ "overlap" \in faults \/ \A q \in Active : by[q] = t
  /\ Goto(r, "connect")
  /\ by' = [by EXCEPT ![r] = t]
  /\ caller' = [caller EXCEPT ![r] = c]
  /\ UNCHANGED <<driver, dataBuffer, handle, result, faults>>

Connected(r, h) ==
  /\ stage[r] = "connect"
  /\ socketSslConnect(h)
  /\ handle' = [handle EXCEPT ![r] = h]
  /\ Goto(r, "build")
  /\ UNCHANGED <<dataBuffer, by, caller, result, faults>>

(* A connect that waits for a socket.                                      *)
ConnectBlocks(r) ==
  /\ stage[r] = "connect" /\ open # Handles
  /\ Finish(r, "error")
  /\ UNCHANGED <<driver, dataBuffer, faults>>

(* There is no socket left, or the name, TLS or the connection fails.      *)
ConnectFails(r) ==
  /\ stage[r] = "connect"
  /\ Finish(r, "error")
  /\ UNCHANGED <<driver, dataBuffer, faults>>

(* A request that is built only in an empty buffer.                        *)
BuildIfEmpty(r) ==
  /\ stage[r] = "build"
  /\ dataBuffer' = IF dataBuffer = Empty THEN Request(r) ELSE dataBuffer
  /\ Goto(r, "write")
  /\ UNCHANGED <<driver, by, caller, handle, result, faults>>

(* buildRequestHeaders: line by line into dataBuffer, or a line does not   *)
(* fit and addHttpRequestLine returns -1.  The socket is then left open.   *)
buildRequestHeaders(r) ==
  /\ stage[r] = "build"
  /\ dataBuffer' = Request(r)
  /\ \/ Goto(r, "write") /\ UNCHANGED <<by, caller, handle, result>>
     \/ "unsent" \in faults /\ Finish(r, "error")
  /\ UNCHANGED <<driver, faults>>

(* socketWrite sends what the buffer holds now.                            *)
Written(r) ==
  /\ stage[r] = "write"
  /\ asked' = [asked EXCEPT ![handle[r]] = dataBuffer]
  /\ Goto(r, "clear")
  /\ UNCHANGED <<open, closed, dataBuffer, by, caller, handle, result, faults>>

(* ... or fails: the socket is left open.                                  *)
WriteFails(r) ==
  /\ "unsent" \in faults
  /\ stage[r] = "write"
  /\ Finish(r, "error")
  /\ UNCHANGED <<driver, dataBuffer, faults>>

(* A request closed before its response is read.                           *)
CloseThenRead(r) ==
  /\ stage[r] = "clear"
  /\ dataBuffer' = Empty
  /\ Goto(r, "read")
  /\ socketClose(handle[r])
  /\ UNCHANGED <<by, caller, handle, result, faults>>

(* memset(dataBuffer, 0, sizeof(dataBuffer)).                              *)
ClearBuffer(r) ==
  /\ stage[r] = "clear"
  /\ dataBuffer' = Empty
  /\ Goto(r, "read")
  /\ UNCHANGED <<driver, by, caller, handle, result, faults>>

(* A socket that is closed only after a response.                          *)
CloseUnlessError(r) ==
  /\ stage[r] = "read" /\ handle[r] \notin closed
  /\ \/ dataBuffer' = Response(asked[handle[r]]) /\ Finish(r, "ok") /\ socketClose(handle[r])
     \/ dataBuffer' = Empty /\ Finish(r, "error") /\ UNCHANGED driver
  /\ UNCHANGED faults

(* socketRead returns the response, an error, or, when nothing arrives in  *)
(* 5 seconds, 0: that is not negative, and the callback gets error 0.      *)
(* Then the socket is closed.                                              *)
ReadResponse(r) ==
  /\ stage[r] = "read" /\ handle[r] \notin closed
  /\ \/ dataBuffer' = Response(asked[handle[r]]) /\ Finish(r, "ok")
     \/ dataBuffer' = Empty /\ Finish(r, "ok")
     \/ dataBuffer' = Empty /\ Finish(r, "error")
  /\ socketClose(handle[r])
  /\ UNCHANGED faults

CallbackReturns(r) ==
  /\ stage[r] = "callback" /\ Running(r)
  /\ Goto(r, "done")
  /\ result' = [result EXCEPT ![r] = "ok"]
  /\ UNCHANGED <<driver, dataBuffer, by, caller, handle, faults>>

RequestStep(r) ==
  \/ \E h \in Handles : Connected(r, h)
  \/ ConnectFails(r) \/ buildRequestHeaders(r) \/ Written(r) \/ WriteFails(r)
  \/ ClearBuffer(r) \/ ReadResponse(r) \/ CallbackReturns(r)

-----------------------------------------------------------------------------
(* The sockets requests are using: open, and each used by one request.     *)
InUse == {r \in Requests : stage[r] \in {"build", "write", "clear", "read"}}

RequestsOwnSockets ==
  /\ \A r \in InUse : handle[r] \in open
  /\ \A r, q \in InUse : r # q => handle[r] # handle[q]

(* parse.h on the callback: "The response body for the request".  The      *)
(* callback that is given error 0 is given the response to its own request *)
(* or nothing, until it sends a request of its own: as long as no two      *)
(* tasks are in the middle of a request at the same time.                  *)
OwnResponse ==
  "overlap" \notin faults =>
    \A r \in Requests :
      /\ stage[r] = "callback" /\ result[r] = "ok"
      /\ \A q \in Requests : caller[q] # r
      => dataBuffer \in {Response(Request(r)), Empty}

=============================================================================

# TLA+ models of the Parse embedded SDKs

The repository holds one C API (`include/parse.h`) with two implementations: a
Unix SDK on libcurl (`unix/`, also the base of the Arduino Yun commands) and an
RTOS SDK (`rtos/`) with a port to the CC3200 (`cc3200/`).  Both share a small
JSON scanner (`common/simplejson.c`).  Its documentation (`docs/`) is a set of
Doxygen pages with a search box and a class tree, whose scripts are the only
JavaScript of the repository.  This directory models the state machines of that
code, checks them with TLC on small instances, and proves nearly all of the safety
properties that the runs check, and the refinement of the Unix push service, with
TLAPS for every value of the constants.

The subject is the SDK: the models of the documentation's scripts come last, and
nothing of the SDK rests on them.

Paths below are relative to the root of the repository's sources.

## 1. Inventory

| component | source | state | operations | what makes it correct |
|---|---|---|---|---|
| JSON scanner | `common/simplejson.c` | none (pure functions) | `getPushJson`, `findSecondJson`, `isCompleteJson`, `simpleJsonProcessor` | finds exactly the first object of a text, however much of the text has arrived |
| Unix push service | `unix/src/parse.c` 298-488 | curl handle, callback, `lastPushTime`, time of the last heartbeat, static receive buffer and its size | start, stop, set callback, `parseProcessNextPushNotification`, `parseRunPushLoop` | whole pushes reach the callback, in order, each at most once; a restart resumes where processing stopped, wherever it falls but inside a save; a broken connection is reported |
| Unix client and store | `unix/src/parse.c` 60-296, `unix/src/parse_os.c` | id, session token, push time, in memory and in one file per key | initialize, set/get/clear id and token, load and store a key | one identity for life, on disk before the server hears it; keys are not mixed up |
| Unix request layer | `unix/src/parse.c` 95-121, 490-680 | one curl handle per request | `parseSendRequest` | one answer per request, within a minute, nothing leaked |
| RTOS client and state file | `rtos/installation.c`, `session.c`, `parse_impl.c`, `cc3200/src/client_state.c` | id, object id, token, push time, in memory and as one file of three fields | initialize, set/clear id and token, look up and create the installation, save | as above, and object id, id and session belong together |
| RTOS push service | `rtos/push.c`, `cc3200/src/socket.c`, `utils.c` | socket, callback, `nFailedPing`, `lastPushTime`, receive buffer, time of the last ping | start, stop, set callback, process, ping, loop | as for Unix |
| RTOS request layer | `rtos/request.c`, `rtos/http.c` | one static `dataBuffer` for all requests | `parseSendRequest` | each callback sees the response to its own request; sockets are returned |
| CC3200 sockets, time | `cc3200/src/socket.c`, `utils.c` | `lastDateTime` | connect, read, write, close, `isPingTime` | time limits; no socket lost |
| Yun commands | `unix/yun/` | queue of pushes (`parse_push`); a protocol on standard input and output | `parse_request`, `parse_push` | every push reaches the sketch once, in order, one per request of the sketch |
| documentation search | `docs/yun/html/search/search.js` (same as `docs/html/...`), `hierarchy.html` | text, last text searched, section, two timers, windows, focus; in the frame: rows shown, children open, last key | handlers of focus, keys, pointer, clicks; search; timers; page load | the results shown are those of the text; no search lost; keys follow what is displayed |
| documentation class tree | `docs/yun/html/dynsections.js`, `hierarchy.html` | visible rows, arrows, stripes | `toggleLevel`, `toggleFolder` | what is visible is a tree, and its arrows say so |
| Blink sample | `cc3200/samples/blink` | LED state, two tasks | push callback, button, LED timer | LED and server agree |
| others | certificates, log, time, uuid, debug output, tests, samples | | | I/O and glue |

Interactions.  The application calls the SDK and is called back from inside the
same call; a callback may call the SDK again.  On Unix everything runs in the
application's thread, so what interleaves is the application, the process ending
anywhere, the server and the connection.  On the CC3200 several tasks run; Blink
sends requests from its main task and from its push task, which share
`dataBuffer` and the driver's sockets.  The push service writes the last push
time to the store the client owns, and gets the installation id from it.
`parse_push` runs the push service in a loop of its own and hands pushes to the
sketch when it asks.  In a documentation page the search box loads a results page
in a frame; the keys go to whichever of the two has the focus, and each handler
moves the focus between them.

Hard behaviours.  A byte stream that splits and joins messages; counters that
become negative and are compared as unsigned; static buffers that survive a
reconnection; a store that is truncated before it is written, and power that
goes at any point; opens, reads and writes whose failure nobody looks at; requests that
fail with or without the server having acted, and replies that are not whole;
callbacks that stop or restart the service they are called from; time limits and
pings; in the pages, a timer that ends between the two events of a key, and
results that arrive after the user has gone on.  `PROJECT.json` lists them as hazards, each at its line.

## 2. Modules

| module | models | state and actions |
|---|---|---|
| `SimpleJson` | the object scanner, byte for byte | operators with the names of the C functions; the two loops are one lexical automaton (`Lex`), a recursive function over offsets |
| `JsonValue` | the lookup of a key (`simpleJsonProcessor`, and its copy `getValueFromJSON` of the Yun), the objects of an array (`getNextFromJSONArray`, `getCountFromJSONArray`) | `FindValue` is the first loop, `EndOfValue` the second; the characters of the key are one byte |
| `MCSimpleJson` | a stream that grows by one byte; an object that grows by one member | `RefPushJson`: the first object, defined by counting quotes, backslashes and braces, with no scanner.  `Object`, `Array`: the text that a list of members is written as |
| `PushFeed` | abstract specification of a push client | pushes reach the callback in order, each at most once, only if published; `saved` says that the store holds a resume point, and only while it does not may a crash begin the feed again (`Forget`) |
| `UnixPush` | Unix push service | `Process` enters `parseProcessNextPushNotification`; each `Recv...` is one iteration of its loop; `StoreOpen` (empties the file) and `StoreWrite` save the time; `Notify` is the callback and the removal of the message; the application may stop, start or set the callback between two calls, which for the state is the same as inside the callback at the end of one; `Restart` anywhere, also between the two steps of a save |
| `YunPush` | `parse_push` on top of `UnixPush` | `phase` is where `main` is; `Select...` is what `select` returned; `next`, `push_data`, `tail` are the linked list with its nodes, `newPushHandler` and `arduinoPushFetchHandler` what changes it |
| `UnixClient` | Unix identity and store | `pc` runs through the calls at the grain of file operations and requests: `...Open` (truncates, or fails), `...Write` (writes the value, part of it or nothing), `...Set`, requests; `parseOsLoadKey` with files that are missing, empty or cannot be read; `Crash` anywhere |
| `RtosClient` | RTOS identity and state file | the same for `getInstallation`, `createInstallation`, the session calls, and `saveClientState` (`SaveDelete`, `SaveCreate`, `SaveWrite`, `SaveFails`); `parseInitialize` may read only the first of the fields, or none; `CutReply` is a 2xx reply that lacks or cuts an id; `PowerLoss` anywhere |
| `RtosRequest` | API requests and the driver's sockets | every request goes through connect, build, write, clear, read, callback; any task, at any depth of callbacks |
| `RtosPush` | RTOS push service, composed with `RtosRequest` | as `UnixPush`, plus `sendPing`; the save is `DeleteFile` and `WriteFile` (its first two fields are those of `RtosClient`), `Notify` calls the callback and `Consume` comes back from it; the push task and other tasks send requests between its steps and in its callback, and the callback may stop and start the service |
| `SearchResults` | the results page of the documentation | one record, `frame`: the page, the rows shown and open, the key state; operators for `Search`, `Toggle`, `NavNext`, `NavPrev`, `Nav`, `NavChild`, `ProcessKeys` |
| `SearchBox` | the search box, composed with `SearchResults` | handlers call one another, so a handler is an operator on the record `box`; the actions are the events: `KeyDown`, `KeyPress`, `KeyUp`, clicks, pointer, `SearchTimer`, `HideTimer`, `LoadResults`.  Each event goes to the element that has the focus then: a key may go down in the results and up in the field |
| `DocTree` | the class tree | `toggleLevel`, `toggleFolder`, `updateStripes` (every other of the rows on display, counted by `Rank`) |
| `MC...` | instances for TLC, and properties that compare with message texts or other modules: `MCUnixPush` splits the bytes of buffer and socket into messages (`Split`) without the scanner, and maps the service to `PushFeed` | |
| `...Proofs` | theorems, see section 6 | |

Abstractions.  Ids, tokens and times are values, not texts.  A push is a short
sequence of bytes with one byte standing for its time, because the framing
depends on where braces, quotes and separators are and on nothing else; the key
lookup of `simpleJsonProcessor` is `TimeOf` there, and `JsonValue` checks it by
itself.  A request or response is whose it
is.  Logging, allocation failure and header texts are left out.  libcurl, the
driver, the file systems and the servers are external and modelled from the
results the code tests for.  In the documentation pages positions and colours are
left out; the browser is external: focus, default actions of keys and links, the
order of events.  `lastResultsPage` is only written, the match count and the mark
of a section follow from the rest, and the test for a surrogate pair
(`search.js:314`) is never true.

Environments.  Each state machine has a constant `Environments`, a set of sets of
faults; the variable `faults` is chosen at the start and stays.  Faults under
which the code does not keep a promise are named in the property
(`"torn" \notin faults => ...`), so that a run covers the code's behaviour under
all of them while each property says where it holds.  An environment is
therefore the statement of a condition, visible in the property itself.  In
`SearchBox` they are habits of the user and of the browser: "hasty" leaves the
field, opens the selection window or chooses a section before the half second
after a key is over; "race" lets the half second end while a key is down; "mouse",
"pointer" and "keypress" add these events; "tree" uses the tree instead.

## 3. Runs

| run | module, cfg | asks | bounds |
|---|---|---|---|
| `json_scanner` | `MCSimpleJson` | does the scanner find the first object of every text, do later bytes change the answer, does `findSecondJson` step to the next object; is the value of a key found, are the objects of an array counted | all texts up to 7 bytes over 6 kinds of byte: enough for a nested object, an escaped quote and an escape cut in two; all objects and arrays of up to 3 members from 4 names and 10 values (`"}{"` among them), with the key at each place it can stand; a buffer that cuts the value and one that does not |
| `unix_push` | `MCYunPush`, `Push.cfg` | framing, resume point, refinement of `PushFeed`, the queue of `parse_push` | two pushes, one with a brace in a string; a buffer of 14 bytes, in which both fit with a heartbeat; 3 deliveries, so that a repeated one is seen; 3 nodes (`MaxNodes`): both pushes and an error.  Four environments, one of them a disk that fails, one `parse_push` |
| `unix_push_live` | `MCUnixPush`, `PushLive.cfg` | does every push arrive, is a break reported | shortest pushes; 10 bytes for the server and the buffer, in which a push fits beside two heartbeats (with less the heartbeats would keep it out for ever); connections that break or are closed, and a process that restarts; fairness as in section 4 |
| `unix_push_split` | `PushSplit.cfg`, expects a violation | the same when a chunk ends before the separator | |
| `unix_push_reconnect` | `PushReconnect.cfg`, expects a violation | are all texts given to the callback pushes, when the service is restarted with bytes in the buffer | |
| `unix_client` | `MCUnixClient`, `Client.cfg` | identity, store, sessions, over crashes | one id and two tokens of the application, two generated ids: one more than needed to see a second identity |
| `unix_client_token` | `ClientToken.cfg`, expects a violation | may a client have a token nobody set | |
| `rtos_client` | `MCRtosClient`, `RtosClient.cfg` | identity, object id, sessions, state file, over losses of power | two ids of the application (it changes its mind), two generated, two tokens |
| `rtos_identity` | `RtosIdentity.cfg`, expects a violation | is the identity stable | |
| `rtos_device` | `MCRtosPush`, `RtosPush.cfg` | sockets, the shared buffer, framing, refinement of `PushFeed`, end of requests | two tasks, two requests (nested, overlapping, one after the other), two sockets, so that requests meet an empty pool; a receive buffer of 8 bytes, which two pushes fill to the last byte; eight environments |
| `rtos_push_error` | `RtosPushError.cfg`, expects a violation | is a lost connection reported | the `PUSH_KEEP_ALIVE` of the code |
| `doc_page` | `MCDocPage`, `DocPage.cfg` | results, searches, focus, keys and windows of the search; the tree | eight texts (`Typed`) with a blank before, after and inside, upper case, a blank alone, and the label itself; entries in the order of `all_7.js`; two sections, three pages, entries with and without children; two timers at once (`MaxTimers`), one of them forgotten; the shape of `hierarchy.html`, three levels |

(The names in the first column are those of `PROJECT.json`.)

`rtos_device` sets `PUSH_KEEP_ALIVE` to 30 and the number of failed pings to 0:
with the values of the code no ping is ever sent (theorem `PingNeverDue`), and
the code behind it would not be explored.  `rtos_push_error` uses the real
values.  `MaxInFlight`, `MaxEchoes` and `MaxDelivered` bound what the server has
sent and how often the service is restarted; `Uuids` bounds how many ids are
generated, `Requests` how many requests are made.  Deadlock is not checked where
the system really stops: all bytes have arrived (`MCSimpleJson`), or the device
is inside a read that does not return, or all its requests are done (`MCRtosPush`);
in `MCDocPage` a reader may leave the page, which ends the behaviour.  `MCDocPage`
assumes what Doxygen writes and `NavUp` relies on (`SortedAssumption`): the entries of
a page that match a query are neighbours.  The files are not sorted (`all_7.js` has
`parse_20arduino_20yun_20sdk` before `parse` before `parse_2eh`), and the assumption
holds of them because a query is made of whole characters: `parse_` is none.

Every property of a passing run has a mutant of the modelled code that violates
it; the mutated definitions stand in the modules just before the ones they
replace.

## 4. Fairness

`UnixPush!Fairness`: the application keeps calling the push loop (weak fairness
of `Process`, `Receive`, `Notify`; `parseRunPushLoop` is `while(1)`), the clock
moves (`Tick`), and the server sends what it has accepted and answers heartbeats.
Nothing is assumed about the connection: the properties allow it to go down.
`RtosPush!TaskFairness`: a task goes on with a request it has begun; connect, send
and read have time limits in `socket.c`.  `LoopFairness`: the push task runs
`parseRunPushLoop`.  Requests, restarts and all faults are unfair.  `MCYunPush` and
`MCDocPage` state safety only: that a search is not lost is the invariant
`SearchNotLost` (a timer is running, or the text is the one searched last and its
document is in the frame or on its way), which needs of the browser no more than that
timers end and pages load.

## 5. What the checks show

Passing:

* The scanner agrees with its reference; rescanning from the first byte after
  every recv is sound.
* `simpleJsonProcessor` returns the first member with the key, cut to the buffer,
  whatever the members before it contain, unless one of them is a lookalike of the
  key: a name that ends with it, or a string in which it stands before the closing
  quote or a backslash.  The exemption is needed: `"data"` is found in `"mydata"`.
  Objects of an array are counted right unless the braces of a value, those of its
  strings included, do not pair up in their order: `"}{"` has as many of one as of the
  other, and is counted as two objects.
* What a Yun sketch was given and what `parse_push` holds for it are the pushes up
  to the resume point, each once, in order (`QueueHoldsFeed`).
* In the documentation pages, for a user who is not hasty: settled results are those
  of the text and section (but for a blank inside the text, the label typed as a text,
  and an erasure the timer overtook), and an inactive box is closed; a text in the
  field is the one whose document is in the frame or on its way, or a timer is about
  to search for it, until a section past the last is chosen, where every search throws
  (of a hasty user only the open window is promised).  For any user the focus stays on
  displayed elements, Up and Down go to the neighbour on display, and the tree is a
  tree.
* If no chunk ends between a message and its separator, and the service is not
  restarted on a buffer with bytes in it, both push services implement `PushFeed`:
  whole pushes, in order, at most once, over chunks, stops, and crashes anywhere but
  inside a save.  A save first destroys what it replaces (`parse_os.c:110`,
  `client_state.c:89`): if the process ends, or power is lost, before it is complete,
  or the disk or flash fails it, the resume point is gone and the pushes come again
  from the first, in order.  `PushFeed` says so too: `Forget` is possible only while
  nothing is saved.  What lies in the buffer and in the socket is exactly the pushes
  after the resume point (`FramedBacklog`), and on Unix, as long as key files can be
  opened and written, a restart at any other point brings back the resume point that
  was in memory (`ResumePointPersisted`).
* Every push arrives while the connection stays up, but a message that came
  together with another one may wait for the next heartbeat (14 minutes).
* No request with the installation header leaves without an id: on Unix in any
  environment, on the RTOS as long as 2xx replies are whole.  On Unix, if key files can
  be opened, read and written, id and token are in the store before the server hears
  them; if no store was cut short either, the server hears one id until the application
  changes it.  On the RTOS, once the id is in the state file, the server hears no other,
  also after saves that were cut short, if the file can be read, 2xx replies are whole
  and the application does not change the id.
* On the RTOS, the fields of a state file written in part are never taken for one
  another; sockets have one user each and none is lost unless a request cannot be
  written or the service is started twice; requests that do not overlap get their
  own response, also when made in callbacks.

Violations (findings of `PROJECT.json`):

* A chunk that ends before the separator makes the buffer size -1; no push
  arrives any more (`unix_push_split`).
* After a reconnection the callback can be given text that is no push
  (`unix_push_reconnect`).
* An empty key file lets the installation id, or what was on the stack, become
  the session token (`unix_client_token`).
* An id generated on the RTOS is not saved; after a power cycle the device is
  another installation (`rtos_identity`).
* A lost push connection is never reported on the RTOS (`rtos_push_error`).

Other disagreements between code and documentation met while modelling; they are
in the models as environments or plain behaviour and have no run of their own:

* `parse.c:402`: a positive result of `parseProcessNextPushNotification` announces
  another message (`parse.h:302`), but the next call does not look at it before a
  recv succeeds.
* `parse.c:413`: the rest of a message that was too large is scanned as a message;
  `push.c:168`: on the RTOS it is never dropped, because `socketRead` never fills
  the buffer, and the service receives nothing more.
* `parse.c:395`, `socket.c:144`: on a connection closed by the server the receive
  loops do not return.
* `parse.c:459`: the Unix loop does not exit when the service is stopped
  (`parse.h:348-350`); `parse.c:335`: a failing start is not given to the callback
  (`parse.h:276-277`); `parse.c:152`: initialization sends requests
  (`parse.h:136-137`).
* `parse.c:114`: the callback of a request is called for every piece of the
  response, so that a session can be taken for one without installation (environment
  "chunked": the PUT then replaces the installation the session had).
* `parse_os.c:110`, `parse_os.c:113`: a key file is truncated before it is written, and
  nobody looks at the result of the write: on a full disk the file stays empty or
  short, and the id is sent to the server all the same ("disk", "io").
* `client_state.c:40`: a state file that cannot be opened or read leaves the fields
  blank, and the next request makes a new id although the file holds one ("unread").
* `installation.c:50`: a 2xx reply that lacks or cuts `installationId` leaves an object
  id and no id; `createInstallation` then has nothing to do (line 89) and the next
  request carries no id ("body").
* `installation.c:110`: after `parseSetInstallationId` the object id of the old id is
  kept and the new id is not registered; clearing the id leads to the branch that
  `installation.c:118` calls impossible.
* `request.c:44`: requests of two tasks that overlap can get one another's
  response; a request made in a callback destroys the body the callback was given.
* `parse_push.c:75`: on a broken connection every round of the loop queues an empty
  push, without bound (`MaxNodes` stops it in the model); `parse_push.c:217`: pushes in
  the queue are lost with the process, since the resume point is already behind
  them; `parse_push.c:200`: after a start that failed the socket is -2.
* `simplejson.c:79`: behind a text that ends with the key the loop goes on past the
  end; no object ends so.
* `search.js:307`: a timer that ends between the keydown and keyup of an erasure
  searches the empty text and shows the first page for it; `search.js:374`: leaving
  the field does not stop the timer, and the results open while the box is inactive;
  `search.js:263`: choosing a section forgets a running timer without stopping it;
  `search.js:270`: Down goes one section past the last, where every search throws;
  `search.js:199`: a text with a blank inside is searched again after every key, or
  not at all when the blank is the only change; `search.js:384`: a text that equals the
  label is taken for the label when the field is left, and its results stay over an
  empty field; `search.js:282`: Enter on a section past the last throws, and the browser
  goes on to click the first one.
* `push.c:51`: a second start leaks the first socket (`parse.h:268`).

## 6. Proofs

All theorems hold for every value of the constants under the named assumptions of
the modules (`ASSUME`), which TLC evaluates on the instances of the runs:

* values of different kinds are different, sizes are natural numbers, pushes are
  sequences of bytes, and, on Unix, what the server has in flight fits in the buffer
  (`PushAssumption` and its like);
* `FeedAssumption` (`MCUnixPush`, `MCRtosPush`): each push is one JSON object for the
  scanner, its time is its own and no brace and, on Unix, it holds no separator: what
  the server sends;
* `TreeAssumption` (`DocTree`): each row of the table has its own id, and what is below
  a row comes after it: what Doxygen writes;
* `SearchAssumption`, `DataAssumption`: the shape of the index files (sections numbered
  from 0, a page for each index character, a number of children for each entry), and
  that no character is called like a key that is no character, and no page like the
  empty or the no-match page.

| module | theorems | inductive invariant and why it is needed |
|---|---|---|
| `SimpleJsonProofs` | lemmas about the scanner: the range of its results, that bytes beyond those scanned do not matter, how it goes on from an object to the next; and lemmas about streams of messages, for both push services: how a framed stream grows and shrinks by a message (`Framing`), that the scanner finds in its first bytes the first message or none (`ScanFramed`), what a chunk adds and what a message taken off leaves (`BytesArrive`, `MessageComesOff`) | the lexical automaton is a recursive function over offsets; facts about it go by the least offset at which they fail (a set of natural numbers has a least element), since the library's induction rules cannot be instantiated |
| `ScannerProofs` | `ScannerIsRight`, `SecondIsNext`, `ScanIsStable` | the mode of the automaton at an offset says how many quotes, backslashes and braces the reference has counted up to there |
| `UnixPushProofs` | `PushTypes`, `BufferInStep`, `ResumePointSafe` | the three together: the size is only in step with the buffer because the message found lies inside it, and that needs the range of what the scanner returns.  For the resume point, memory and file by `pc`: they agree outside a save, inside it the file is the old one or empty |
| `PushFeedProofs` | `PushImplementsFeed`, `BacklogFramed`, `ParsePushRunsService`, `QueueKept` | `FeedInv`: buffer and socket together are a sequence of framed messages (`Framing`), whose pushes are those after the resume point and up to what the server has sent (`BacklogOK`); the message being handed over is whole, followed by its separator, and a heartbeat or the push of the resume point (`HandoverOK`); the callback has seen no push after the resume point (`OrderOK`), nor after the one in the file, unless the file is the empty one of a save or the disk may have failed one (`StoreOK`): so a restart that brings back less than what was delivered is a `Forget`.  The bytes read are a prefix of such a sequence, so the scanner finds the first message of it or none, and what is removed is that message and its separator.  A step of the service is then a publication, a delivery or a stutter of `PushFeed`.  For `QueueKept`, `QueueInv`: there is a sequence of different nodes, from `head` to `tail`, each the `next` of the one before, which are all that is allocated (so there are at most `MaxNodes`, and the walk of `Queue` ends where it does); the texts fetched and those in the nodes, without the empty ones, are the times up to the resume point; and `main` only reads when its callback is set and a node is free.  `enqueuePush` adds the push of the resume point because the message handed over is whole (`FeedInv`) |
| `UnixClientProofs` | `ClientTypes`, `AlwaysIdentified`, `StoredBeforeSent`, `KeysNotMixedUp`, `OneIdForLife`, `NothingToLose` | `Control` ties `pc` to arguments and return addresses, `InStore` says which key is on disk at which `pc`; `Meaning` and `OneIdentity` add what files and buffers hold in environments without torn stores and failing files; for the last, what each `pc` inside a call has still to bring in step |
| `RtosClientProofs` | `RtosTypes`, `RtosIdentified`, `ObjectIsOwn`, `AssociationsSound`, `StateFileUpToDate`, `StoredIdForLife` | `Control` as above; the type of the file says that what was written is a prefix of the three fields; `OwnObject` relates object id, id and the server's objects; for the state file, which fields memory is ahead in at which `pc` |
| `RtosPushProofs` | `SocketsNeverShared`, `SocketsNeverLost`, `ResponsesNotMixedUp`, `RtosBufferInStep`, `DeviceTypes`, `PingNeverDue`, `RtosImplementsFeed` | `SocketInv` (who uses which socket), `ChainInv` and `CallerInv` (requests form a chain of callers on a task), `BufferInv` (what the buffer holds at the stage of the one running request).  `StepKinds` first sorts the steps of the composition by what they do to sockets.  The receive buffer stays in step although the callback may stop and start the service before the message is removed.  For `RtosImplementsFeed`, `FeedInv` again.  A push is delivered when its bytes arrive and removed when the callback is back, so `HandoverOK` only says that the separator is there to be removed.  `PowerLoss` makes it part of the invariant that the state file holds the resume point, or nothing while it is saved, or anything after a failed save.  The service cannot be started in the callback of a message, as the buffer is not empty then.  Unlike on Unix, what is in flight need not fit in the buffer: `socketRead` leaves room for a NUL, so the buffer is never full and no bytes are dropped (a push longer than the buffer is never complete, and is not delivered) |
| `DocPageProofs` | `TreeStaysTree`; `BoxTypes`, `LeftBoxIsClosed`, `NoSearchLost`, `FocusStaysDisplayed`; `PageRunsBox` | tree: `Arrows` also says of hidden folders what their arrow will mean when they are shown again; that the stripes alternate is a fact about `Rank`.  Box: `SearchInv`.  `BoxInv` is a predicate of the record and is followed through each handler: a focus in the field means that the box searches, a box that does not search shows its label, a last search and a focus in the frame belong to results on display.  `Answered` holds whenever no key is down or the focus is elsewhere (a text is unanswered only between keydown and keyup), and `OnTheWay` that the document for the last text searched is in the frame or about to be loaded; `Follows` says that a handler changes what was searched only together with the document asked for; `Quiet` says that a patient reader has one timer at most, known to the box, and none while a section is chosen, without which `Closed` is not kept by the end of the half second |

The proof about the search box found two places where the model could not be
reasoned about: `FocusOn` and `SearchIfChanged` were `CASE` expressions whose guards
overlapped, so that TLA+ leaves open which arm is meant, where the code has an order.
They say the order now.

Only model-checked, and why:

* liveness (`EachPushArrives`, `BreakReported`, `RequestsEnd`, `ErrorReported`): out of
  the prover's reach;
* `MemberFound`, `ObjectsCounted`: the lookup of a key in the text that a list of
  members is written as;
* `ResultsAreCurrent`: rests on how the index is divided into pages and on the
  characters of names and ids; `NavFollowsDisplay`: rests on the order of the elements
  of a page written one after the other (`FlattenSeq`).

## 7. Plan

Done: the scanner and the lookup of values; both push services; both clients with
their stores; the RTOS requests composed with the push service; `parse_push` on the
Unix push service; the search and the tree of the documentation; the theorems of
section 6.

To do, in this order:

1. The Unix request layer (time limit by progress callback, resources of the error
   paths) with `parse_request.c` on top of it.
2. The Blink sample: its LED state under two tasks.

## 8. Not modelled

The Unix request layer beyond its callbacks: `parseSendRequestInternal` keeps nothing
between requests, and its error returns differ from the good one in the curl handle
and headers they do not free (`parse.c:676`).  The Yun command `parse_request` and the
provisioning files: one request per process, texts in and out.  `toggleInherit` (flips
one section), `toggleVisibility` (no user), jQuery and the index data of the
documentation.  Certificates (one constant file), log, time and uuid wrappers, debug output:
I/O without state.  Samples and tests, except as the environment that calls the
SDK.  Header and body texts.  `getHttpResponseStatus`, `getHttpResponseBody`,
`parseGetErrorCode`.  Memory allocation failures.  The quality of generated ids
(`utils.c:90`).  Two clients in one process.

A push callback that calls `parseProcessNextPushNotification` itself (both SDKs): the
message it is called with still lies in the static buffer, and an inner call that
receives bytes finds the same message again; the theorems and runs say nothing of such a callback.
On the RTOS, in the composed model: a save of the client state by another task while
the push task saves, and a callback that sets the id or the token (`RtosClient` has the
setters and their saves by themselves).  Key values of 40 bytes or more: `parseOsLoadKey`
reads them without a string end (`parse_os.c:135`, `temp[40]` of `parse.c:149`); ids,
tokens and times of the models are shorter.  What a save left half written is a value of
its own (`Torn`, `Garbage`), not a text.

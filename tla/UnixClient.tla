----------------------------- MODULE UnixClient -----------------------------
(***************************************************************************)
(* The identity of a Unix client (unix/src/parse.c, unix/src/parse_os.c):  *)
(* its installation id, session token and last push time, in memory and in *)
(* the key files of the local store, across the ends and restarts of the   *)
(* process, and what the server is told about them.                        *)
(*                                                                         *)
(* The process runs one call of the API at a time.  pc is where that call  *)
(* stands; the steps are the ones between which the process can end: the   *)
(* opening of a key file (which truncates it), the write, the assignment   *)
(* in memory, and each request.  parseSetInstallationId is called from     *)
(* several places and returns to cont, parseSetSessionToken to tokCont.    *)
(***************************************************************************)
EXTENDS Naturals, FiniteSets

CONSTANTS
  AppIds,   \* installation ids an application sets
  Uuids,    \* ids parseGetUUID can return: bounds how many it is asked for
  Tokens,   \* session tokens an application sets
  Times,    \* times of pushes
  Garbage,  \* a string nobody set: what an uninitialized buffer holds, if
            \* not a string end, or the part of a value that was written
  None,     \* a NULL pointer, a session without installation
  Missing,  \* no such key file
  Empty,    \* a key file of no bytes: opened with O_TRUNC and not yet or
            \* never written
  Blank,    \* the empty string
  Environments  \* see below

(* An environment is a set of things that may happen; a behaviour has one, *)
(* faults, from its beginning to its end.                                  *)
(*                                                                         *)
(* "torn"    the process can end between the opening and the write of a    *)
(*           key file                                                      *)
(* "disk"    a key file cannot be opened or removed                        *)
(* "io"      a key file that was opened cannot be read, or is written in   *)
(*           part or not at all                                            *)
(* "chunked" libcurl passes on a response in more than one piece           *)
(*                                                                         *)
(* Values are shorter than the buffers they are loaded into: of a longer   *)
(* one parseOsLoadKey leaves 37 or 40 bytes without a string end.          *)
AllFaults == {"torn", "disk", "io", "chunked"}

Ids    == AppIds \cup Uuids
Values == Ids \cup Tokens \cup Times \cup {Garbage}
Marks  == {None, Missing, Empty, Blank}

ASSUME ValueAssumption ==
  /\ AppIds \cap Uuids = {} /\ Ids \cap Tokens = {}
  /\ Times \cap (Ids \cup Tokens) = {}
  /\ Garbage \notin Ids \cup Tokens \cup Times
  /\ Values \cap Marks = {}
  /\ None \notin {Missing, Empty, Blank}
  /\ Missing \notin {Empty, Blank} /\ Empty # Blank

ASSUME ClientEnvironments == Environments \subseteq SUBSET AllFaults

VARIABLES
  \* the store: contents of the key files
  idFile, tokenFile, timeFile,
  \* ParseClientInternal
  installationId, sessionToken, lastPushTime,
  \* the call in progress
  pc, cont, tokCont,
  idArg, tokArg,   \* the arguments of the two setters
  temp,            \* the buffer parseInitialize loads keys into
  \* the server
  session,         \* the installation each session belongs to
  \* history
  used,            \* ids parseGetUUID has returned
  chosen,          \* tokens the application has set
  announced,       \* the id in the last request, None after the application
                   \* set or cleared it
  faults           \* the environment

files   == <<idFile, tokenFile, timeFile>>
memory  == <<installationId, sessionToken, lastPushTime>>
args    == <<cont, tokCont, idArg, tokArg, temp>>
history == <<used, chosen, announced, faults>>
vars    == <<files, memory, pc, args, session, history>>

(* The places that call parseCreateInstallationIdIfNeeded, and where each  *)
(* goes on.                                                                *)
AfterCreate ==
  [tok_create |-> "tok_open", get_create |-> "get_send", put_create |-> "put_send",
   req_create |-> "req_send", start_create |-> "hello_send"]

Creates == {"tok_create", "get_create", "put_create", "req_create", "start_create"}
Sends   == {"get_send", "put_send", "req_send", "hello_send"}
Labels  == Creates \cup Sends \cup
           {"down", "idle", "init_id", "init_tok", "init_last",
            "id_open", "id_write", "id_set", "id_post", "id_unlink", "id_clear",
            "tok_open", "tok_write", "tok_set", "tok_unlink", "tok_clear",
            "time_open", "time_write"}

TypeOK ==
  /\ idFile \in Values \cup {Missing, Empty}
  /\ tokenFile \in Values \cup {Missing, Empty}
  /\ timeFile \in Values \cup {Missing, Empty}
  /\ installationId \in Values \cup {None}
  /\ sessionToken \in Values \cup {None}
  /\ lastPushTime \in Values \cup {None}
  /\ pc \in Labels /\ cont \in Labels /\ tokCont \in Labels
  /\ idArg \in Values \cup {None} /\ tokArg \in Values \cup {None}
  /\ temp \in Values \cup {Blank}
  /\ session \in [Tokens -> Values \cup {None}]
  /\ used \subseteq Uuids /\ chosen \subseteq Tokens
  /\ announced \in Values \cup {None}
  /\ faults \in Environments

Init ==
  /\ idFile = Missing /\ tokenFile = Missing /\ timeFile = Missing
  /\ installationId = None /\ sessionToken = None /\ lastPushTime = None
  /\ pc = "down" /\ cont = "idle" /\ tokCont = "idle"
  /\ idArg = None /\ tokArg = None /\ temp = Blank
  /\ session = [t \in Tokens |-> None]
  /\ used = {} /\ chosen = {} /\ announced = None
  /\ faults \in Environments

-----------------------------------------------------------------------------
(* parse_os.c.                                                             *)

(* A parseOsLoadKey that does not blank the buffer if there is no file.    *)
LoadKeepsBuffer(file, buffer) ==
  {value \in {file, buffer, Blank} :
     \/ value = Blank /\ "disk" \in faults
     \/ value = buffer /\ (file \in {Missing, Empty} \/ "io" \in faults)
     \/ value = file /\ file \notin {Missing, Empty}}

(* parseOsLoadKey: what the buffer holds after it.  A file that cannot be  *)
(* opened makes it a blank string; a read of no bytes, or one that fails,  *)
(* leaves it as it was.                                                    *)
parseOsLoadKey(file, buffer) ==
  {value \in {file, buffer, Blank} :
     \/ value = Blank /\ (file = Missing \/ "disk" \in faults)
     \/ value = buffer /\ (file = Empty \/ "io" \in faults)
     \/ value = file /\ file \notin {Missing, Empty}}

(* parseOsStoreKey: open with O_TRUNC, or fail to open and give up ...     *)
OpenKey(file, written, next) ==
  \/ file' = Empty /\ pc' = written
  \/ "disk" \in faults /\ UNCHANGED file /\ pc' = next

(* ... then write, and not look at how much was written.                   *)
WriteKey(file, value) == file' = value \/ ("io" \in faults /\ file' \in {Empty, Garbage})

(* parseOsClearKey.                                                        *)
parseOsClearKey(file) ==
  \/ file' = Missing
  \/ "disk" \in faults /\ UNCHANGED file

-----------------------------------------------------------------------------
(* The setters.                                                            *)

(* A request, or the hello of the push service, tells the server an id.    *)
Announce(id) == announced' = id

(* A setter that forgets the store.                                        *)
SetInMemoryOnly(id, next) == pc' = "id_set" /\ idArg' = id /\ cont' = next

CallSetInstallationId(id, next) == pc' = "id_open" /\ idArg' = id /\ cont' = next

IdOpen ==
  /\ pc = "id_open"
  /\ OpenKey(idFile, "id_write", "id_set")
  /\ UNCHANGED <<tokenFile, timeFile, memory, args, session, history>>

IdWrite ==
  /\ pc = "id_write"
  /\ WriteKey(idFile, idArg) /\ pc' = "id_set"
  /\ UNCHANGED <<tokenFile, timeFile, memory, args, session, history>>

IdSet ==
  /\ pc = "id_set"
  /\ installationId' = idArg /\ pc' = "id_post"
  /\ UNCHANGED <<files, sessionToken, lastPushTime, args, session, history>>

(* POST /installations/ with the id in its body; whatever comes of it, the *)
(* call returns.                                                           *)
IdPost ==
  /\ pc = "id_post"
  /\ Announce(installationId)
  /\ pc' = cont /\ cont' = "idle"
  /\ UNCHANGED <<files, memory, tokCont, idArg, tokArg, temp, session, used, chosen, faults>>

(* Forget the id and leave the key.                                        *)
ClearOnlyMemory ==
  /\ pc = "id_unlink" /\ pc' = "id_clear"
  /\ UNCHANGED <<files, memory, args, session, history>>

(* installationId = NULL: remove the key, then forget the id.              *)
IdUnlink ==
  /\ pc = "id_unlink"
  /\ parseOsClearKey(idFile) /\ pc' = "id_clear"
  /\ UNCHANGED <<tokenFile, timeFile, memory, args, session, history>>

IdClear ==
  /\ pc = "id_clear"
  /\ installationId' = None /\ pc' = "idle"
  /\ UNCHANGED <<files, sessionToken, lastPushTime, args, session, history>>

(* An id that is loaded but never generated.                               *)
CreateFromStoreOnly ==
  /\ pc \in Creates
  /\ \/ /\ installationId # None \/ idFile \in {Missing, Empty}
        /\ pc' = AfterCreate[pc]
        /\ UNCHANGED <<args, used>>
     \/ /\ installationId = None /\ idFile \notin {Missing, Empty}
        /\ CallSetInstallationId(idFile, AfterCreate[pc])
        /\ UNCHANGED <<tokCont, tokArg, temp, used>>
  /\ UNCHANGED <<files, memory, session, chosen, announced, faults>>

parseCreateInstallationIdIfNeeded ==
  /\ pc \in Creates
  /\ \/ /\ installationId # None
        /\ pc' = AfterCreate[pc]
        /\ UNCHANGED <<args, used>>
     \/ /\ installationId = None
        /\ \E id \in parseOsLoadKey(idFile, Blank) :
             \/ /\ id # Blank
                /\ CallSetInstallationId(id, AfterCreate[pc])
                /\ UNCHANGED used
             \/ /\ id = Blank
                /\ \E uuid \in Uuids \ used :
                     /\ CallSetInstallationId(uuid, AfterCreate[pc])
                     /\ used' = used \cup {uuid}
        /\ UNCHANGED <<tokCont, tokArg, temp>>
  /\ UNCHANGED <<files, memory, session, chosen, announced, faults>>

CallSetSessionToken(token, next) == pc' = "tok_create" /\ tokArg' = token /\ tokCont' = next

TokenOpen ==
  /\ pc = "tok_open"
  /\ OpenKey(tokenFile, "tok_write", "tok_set")
  /\ UNCHANGED <<idFile, timeFile, memory, args, session, history>>

TokenWrite ==
  /\ pc = "tok_write"
  /\ WriteKey(tokenFile, tokArg) /\ pc' = "tok_set"
  /\ UNCHANGED <<idFile, timeFile, memory, args, session, history>>

TokenSet ==
  /\ pc = "tok_set"
  /\ sessionToken' = tokArg /\ pc' = "get_create"
  /\ UNCHANGED <<files, installationId, lastPushTime, args, session, history>>

TokenUnlink ==
  /\ pc = "tok_unlink"
  /\ parseOsClearKey(tokenFile) /\ pc' = "tok_clear"
  /\ UNCHANGED <<idFile, timeFile, memory, args, session, history>>

TokenClear ==
  /\ pc = "tok_clear"
  /\ sessionToken' = None /\ pc' = "idle"
  /\ UNCHANGED <<files, installationId, lastPushTime, args, session, history>>

(* GET /sessions/me.  getSessionObjectCallback goes on to a PUT when it    *)
(* sees a session without installation: a session that has none, or a      *)
(* piece of a response that ends before its installationId.                *)
NewSession ==
  /\ sessionToken \in Tokens
  /\ session[sessionToken] = None \/ "chunked" \in faults

GetSession ==
  /\ pc = "get_send"
  /\ Announce(installationId)
  /\ \/ NewSession /\ pc' = "put_create" /\ UNCHANGED tokCont
     \/ pc' = tokCont /\ tokCont' = "idle"
  /\ UNCHANGED <<files, memory, cont, idArg, tokArg, temp, session, used, chosen, faults>>

(* PUT /sessions/me: the server takes the installation from the header, or *)
(* the request fails.                                                      *)
PutSession ==
  /\ pc = "put_send"
  /\ Announce(installationId)
  /\ session' \in {session, [session EXCEPT ![sessionToken] = installationId]}
  /\ pc' = tokCont /\ tokCont' = "idle"
  /\ UNCHANGED <<files, memory, cont, idArg, tokArg, temp, used, chosen, faults>>

-----------------------------------------------------------------------------
(* parseInitializeWithServerURL: load each key and hand it to its setter.  *)
(* temp starts uninitialized and is not cleared between the keys.          *)
parseInitialize ==
  /\ pc = "down"
  /\ temp' \in {Blank, Garbage}
  /\ pc' = "init_id"
  /\ UNCHANGED <<files, memory, cont, tokCont, idArg, tokArg, session, history>>

(* A key that is not there is set all the same.                            *)
InitIdUnchecked ==
  /\ pc = "init_id"
  /\ temp' \in parseOsLoadKey(idFile, temp)
  /\ CallSetInstallationId(temp', "init_tok")
  /\ UNCHANGED <<files, memory, tokCont, tokArg, session, history>>

InitId ==
  /\ pc = "init_id"
  /\ temp' \in parseOsLoadKey(idFile, temp)
  /\ \/ temp' = Blank /\ pc' = "init_tok" /\ UNCHANGED <<cont, idArg>>
     \/ temp' # Blank /\ CallSetInstallationId(temp', "init_tok")
  /\ UNCHANGED <<files, memory, tokCont, tokArg, session, history>>

InitToken ==
  /\ pc = "init_tok"
  /\ temp' \in parseOsLoadKey(tokenFile, temp)
  /\ \/ temp' = Blank /\ pc' = "init_last" /\ UNCHANGED <<tokCont, tokArg>>
     \/ temp' # Blank /\ CallSetSessionToken(temp', "init_last")
  /\ UNCHANGED <<files, memory, cont, idArg, session, history>>

InitLast ==
  /\ pc = "init_last"
  /\ \E time \in parseOsLoadKey(timeFile, temp) :
       lastPushTime' = IF time = Blank THEN None ELSE time
  /\ temp' = Blank /\ pc' = "idle"
  /\ UNCHANGED <<files, installationId, sessionToken, cont, tokCont, idArg, tokArg,
                 session, history>>

-----------------------------------------------------------------------------
(* Calls of the application.                                               *)

parseSetInstallationId(id) ==
  /\ pc = "idle"
  /\ \/ id # None /\ CallSetInstallationId(id, "idle")
     \/ id = None /\ pc' = "id_unlink" /\ UNCHANGED <<idArg, cont>>
  /\ announced' = None
  /\ UNCHANGED <<files, memory, tokCont, tokArg, temp, session, used, chosen, faults>>

parseSetSessionToken(token) ==
  /\ pc = "idle"
  /\ \/ token # None /\ CallSetSessionToken(token, "idle") /\ chosen' = chosen \cup {token}
     \/ token = None /\ pc' = "tok_unlink" /\ UNCHANGED <<tokArg, tokCont, chosen>>
  /\ UNCHANGED <<files, memory, cont, idArg, temp, session, used, announced, faults>>

(* parseSendRequest and parseStartPushService begin by creating the id.    *)
CallThatNeedsId ==
  /\ pc = "idle"
  /\ pc' \in {"req_create", "start_create"}
  /\ UNCHANGED <<files, memory, args, session, history>>

SendIdentified ==
  /\ pc \in {"req_send", "hello_send"}
  /\ Announce(installationId)
  /\ pc' = "idle"
  /\ UNCHANGED <<files, memory, args, session, used, chosen, faults>>

(* parseProcessNextPushNotification took a push: memory first, then store. *)
RecordPushTime(time) ==
  /\ pc = "idle"
  /\ lastPushTime' = time /\ pc' = "time_open"
  /\ UNCHANGED <<files, installationId, sessionToken, args, session, history>>

TimeOpen ==
  /\ pc = "time_open"
  /\ OpenKey(timeFile, "time_write", "idle")
  /\ UNCHANGED <<idFile, tokenFile, memory, args, session, history>>

TimeWrite ==
  /\ pc = "time_write"
  /\ WriteKey(timeFile, lastPushTime) /\ pc' = "idle"
  /\ UNCHANGED <<idFile, tokenFile, memory, args, session, history>>

(* The process ends, wherever it is: without "torn", not between the       *)
(* opening of a key file and the write.                                    *)
Crash ==
  /\ pc # "down" /\ pc' = "down"
  /\ pc \in {"id_write", "tok_write", "time_write"} => "torn" \in faults
  /\ installationId' = None /\ sessionToken' = None /\ lastPushTime' = None
  /\ cont' = "idle" /\ tokCont' = "idle"
  /\ idArg' = None /\ tokArg' = None /\ temp' = Blank
  /\ UNCHANGED <<files, session, history>>

-----------------------------------------------------------------------------
Setter ==
  \/ IdOpen \/ IdWrite \/ IdSet \/ IdPost \/ IdUnlink \/ IdClear
  \/ TokenOpen \/ TokenWrite \/ TokenSet \/ TokenUnlink \/ TokenClear
  \/ TimeOpen \/ TimeWrite
  \/ GetSession \/ PutSession \/ parseCreateInstallationIdIfNeeded \/ SendIdentified

Initialize == parseInitialize \/ InitId \/ InitToken \/ InitLast

Application ==
  \/ \E id \in AppIds \cup {None} : parseSetInstallationId(id)
  \/ \E token \in Tokens \cup {None} : parseSetSessionToken(token)
  \/ \E time \in Times : RecordPushTime(time)
  \/ CallThatNeedsId

Next == Setter \/ Initialize \/ Application \/ Crash

Spec == Init /\ [][Next]_vars

-----------------------------------------------------------------------------
(* What may happen to the key files.                                       *)
FileFaults == {"torn", "disk", "io"}

(* In every environment: a request that carries the installation header,   *)
(* and the hello of the push service, never goes out without an id.        *)
Identified == pc \in Sends => installationId # None

(* An id and a token are in the store before the server hears of them, so  *)
(* a crash cannot leave the server with an identity the device has lost,   *)
(* as long as the key files can be opened, read and written: parse.c goes  *)
(* on in the same way when they cannot, and then the server may hear of an *)
(* id that no file holds.                                                  *)
PersistedBeforeSent ==
  faults \cap {"disk", "io"} = {} =>
    /\ pc \in Sends \cup {"id_post"} => idFile = installationId
    /\ pc \in {"get_send", "put_send"} => tokenFile = sessionToken

(* A key is only ever loaded as what it was stored as: the session token   *)
(* is one the application set, the push time one of a push, and the id one *)
(* that was set or generated; also if key files cannot be opened.  A key   *)
(* file that stays empty, or that cannot be read, breaks this: it is       *)
(* loaded as what the buffer held before.                                  *)
KeysKeepTheirMeaning ==
  faults \cap {"torn", "io"} = {} =>
    /\ sessionToken \in chosen \cup {None}
    /\ lastPushTime \in Times \cup {None}
    /\ installationId \in AppIds \cup used \cup {None}

(* parse.h: "If an installation id is not explicitly set, the SDK will     *)
(* generate a new one the first time it need it."  The first time only:    *)
(* the server hears one id until the application sets or clears it,        *)
(* however often the process ends, if it does not end in the middle of a   *)
(* store, and the key files can be opened, read and written.               *)
IdentityStable ==
  [][ faults \cap FileFaults = {} /\ announced # None /\ announced' # None
      => announced' = announced]_announced

Stored(value) == IF value = None THEN Missing ELSE value

(* Between calls, what a client holds in memory is what the next run of    *)
(* the process would load, unless a store was cut short or failed: a       *)
(* process that ends there loses nothing.                                  *)
MemoryMatchesStore ==
  pc = "idle" /\ faults \cap FileFaults = {} =>
    /\ idFile = Stored(installationId)
    /\ tokenFile = Stored(sessionToken)
    /\ timeFile = Stored(lastPushTime)

=============================================================================

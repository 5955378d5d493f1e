----------------------------- MODULE RtosClient -----------------------------
(***************************************************************************)
(* The identity of an RTOS client (rtos/installation.c, rtos/session.c,    *)
(* rtos/parse_impl.c, and cc3200/src/client_state.c for its store): the    *)
(* installation id, the object the server keeps for it, the session token  *)
(* and the last push time, in memory and in the one state file, across     *)
(* losses of power.                                                        *)
(*                                                                         *)
(* The device runs one call at a time; pc is where it stands.  Each step   *)
(* is at most one request or one operation on the file.  getInstallation   *)
(* is called from several places and goes on at after.  Any request can    *)
(* fail, with or without the server having acted on it.                    *)
(*                                                                         *)
(* The object of an installation is named by its installation id:          *)
(* objectId = id stands for "the objectId of the object with that id".     *)
(* simpleJsonProcessor leaves the beginning of a value in the buffer when  *)
(* the reply ends in it; CutId and CutObject stand for such beginnings.    *)
(***************************************************************************)
EXTENDS Naturals, Sequences, FiniteSets

CONSTANTS
  AppIds,   \* installation ids an application sets
  Uuids,    \* ids createNewInstallationId makes: bounds how often it is called
  Tokens,   \* session tokens
  Times,    \* times of pushes
  CutId,    \* what a reply that ends too early leaves of an installation id,
  CutObject,  \* and of an object id
  Blank,    \* the empty string
  Missing,  \* no state file
  Environments  \* see below

(* An environment is a set of things that may happen; a behaviour has one, *)
(* faults, from its beginning to its end.                                  *)
(*                                                                         *)
(* "torn"  power is lost during saveClientState                            *)
(* "flash" an operation of saveClientState on the file fails               *)
(* "unread" loadClientState cannot open the file, or cannot read on        *)
(* "body"  a 2xx reply lacks a field or ends too early                     *)
(* "reset" the application sets or clears the id although there is one     *)
AllFaults == {"torn", "flash", "unread", "body", "reset"}

Ids    == AppIds \cup Uuids \cup {CutId}
Fields == Ids \cup Tokens \cup Times \cup {Blank}

ASSUME RtosAssumption ==
  /\ AppIds \cap Uuids = {} /\ CutId \notin AppIds \cup Uuids
  /\ CutObject \notin Ids \cup {Blank}
  /\ Blank \notin Ids \cup Tokens \cup Times
  /\ Missing \notin Seq(Fields)

ASSUME RtosEnvironments == Environments \subseteq SUBSET AllFaults

VARIABLES
  file,            \* the state file: Missing, or the fields written to it
  \* ParseClientInternal
  installationId, installationObjectId, sessionToken, lastPushTime,
  \* the call in progress
  pc, after,
  \* the server
  registered,      \* the ids that have an installation object
  session,         \* the installation of each session, Blank for none
  \* history
  used,            \* ids made by createNewInstallationId
  announced,       \* the id in the last request, Blank after the application
                   \* set or cleared it
  faults           \* the environment

memory  == <<installationId, installationObjectId, sessionToken, lastPushTime>>
server  == <<registered, session>>
history == <<used, announced, faults>>
vars    == <<file, memory, pc, after, server, history>>

Sends     == {"req_send", "hello_send", "ses_get", "ses_put"}
SaveSteps == {"save_create", "save_write"}
Labels    == Sends \cup SaveSteps \cup
             {"down", "idle", "inst", "create", "post", "save"}

(* The file is written and read field by field: each is what it should be. *)
FileOK ==
  /\ file \in Seq(Fields) /\ Len(file) <= 3
  /\ Len(file) >= 1 => file[1] \in Ids \cup {Blank}
  /\ Len(file) >= 2 => file[2] \in Tokens \cup {Blank}
  /\ Len(file) >= 3 => file[3] \in Times \cup {Blank}

TypeOK ==
  /\ file = Missing \/ FileOK
  /\ installationId \in Ids \cup {Blank}
  /\ installationObjectId \in Ids \cup {CutObject, Blank}
  /\ sessionToken \in Tokens \cup {Blank} /\ lastPushTime \in Times \cup {Blank}
  /\ pc \in Labels /\ after \in {"idle", "save", "req_send", "hello_send", "ses_get"}
  /\ registered \subseteq Ids
  /\ session \in [Tokens -> Ids \cup {Blank}]
  /\ used \subseteq Uuids
  /\ announced \in Ids \cup {Blank}
  /\ faults \in Environments

Init ==
  /\ file = Missing
  /\ installationId = Blank /\ installationObjectId = Blank
  /\ sessionToken = Blank /\ lastPushTime = Blank
  /\ pc = "down" /\ after = "idle"
  /\ registered = {} /\ session = [t \in Tokens |-> Blank]
  /\ used = {} /\ announced = Blank
  /\ faults \in Environments

-----------------------------------------------------------------------------
(* client_state.c.                                                         *)

(* loadClientState stops at the first field that cannot be read; what it   *)
(* has not read stays blank.                                               *)
FieldBehind(k) == IF file # Missing /\ k + 1 <= Len(file) THEN file[k + 1] ELSE Blank

Field(k) == IF file # Missing /\ k <= Len(file) THEN file[k] ELSE Blank

(* A client that does not load its state.                                  *)
InitializeBlank ==
  /\ pc = "down" /\ pc' = "idle"
  /\ UNCHANGED <<file, memory, after, server, history>>

(* parseInitialize: everything blank, then loadClientState, which gives up *)
(* at the first operation on the file that fails.  The object id is not in *)
(* the file.                                                               *)
parseInitialize ==
  /\ pc = "down" /\ pc' = "idle"
  /\ \E read \in (IF "unread" \in faults THEN 0 .. 3 ELSE {3}) :
       /\ installationId' = IF read >= 1 THEN Field(1) ELSE Blank
       /\ sessionToken' = IF read >= 2 THEN Field(2) ELSE Blank
       /\ lastPushTime' = IF read >= 3 THEN Field(3) ELSE Blank
  /\ installationObjectId' = Blank
  /\ UNCHANGED <<file, after, server, history>>

(* saveClientState: delete the file, create it, write the three fields one *)
(* after the other.  Whether the file was deleted is not looked at.        *)
SaveDelete ==
  /\ pc = "save" /\ pc' = "save_create"
  /\ file' = Missing \/ ("flash" \in faults /\ UNCHANGED file)
  /\ UNCHANGED <<memory, after, server, history>>

SaveCreate ==
  /\ pc = "save_create" /\ pc' = "save_write"
  /\ file' = <<>>
  /\ UNCHANGED <<memory, after, server, history>>

SaveWrite ==
  /\ pc = "save_write"
  /\ file' = Append(file, <<installationId, sessionToken, lastPushTime>>[Len(file) + 1])
  /\ pc' = IF Len(file) = 2 THEN "idle" ELSE "save_write"
  /\ UNCHANGED <<memory, after, server, history>>

(* A file operation returns an error: saveClientState gives up, and the    *)
(* status it returns is not looked at.                                     *)
SaveFails ==
  /\ "flash" \in faults
  /\ pc \in SaveSteps /\ pc' = "idle"
  /\ UNCHANGED <<file, memory, after, server, history>>

(* Power is lost.                                                          *)
PowerLoss ==
  /\ pc # "down" /\ pc' = "down"
  /\ pc \in SaveSteps => "torn" \in faults
  /\ installationId' = Blank /\ installationObjectId' = Blank
  /\ sessionToken' = Blank /\ lastPushTime' = Blank
  /\ after' = "idle"
  /\ UNCHANGED <<file, server, history>>

-----------------------------------------------------------------------------
(* installation.c.                                                         *)

CallGetInstallation(next) == pc' = "inst" /\ after' = next

(* Both ids known: nothing to do.                                          *)
HaveBoth ==
  /\ pc = "inst" /\ installationId # Blank /\ installationObjectId # Blank
  /\ pc' = after
  /\ UNCHANGED <<file, memory, after, server, history>>

(* A 2xx reply about the object of id that does not hold all of the two    *)
(* ids: what it lacks stays as it was, what it ends in is cut, or blank if *)
(* it ends at the opening quote.                                           *)
CutReply(id) ==
  /\ "body" \in faults
  /\ \/ /\ installationObjectId' = id
        /\ installationId' \in {installationId, CutId, Blank}
     \/ /\ installationObjectId' \in {installationObjectId, CutObject, Blank}
        /\ installationId' \in {installationId, id}

(* GET /1/installations/<objectId>: the id of the object, or a failure     *)
(* that clears the object id.                                              *)
GetByObjectId ==
  /\ pc = "inst" /\ installationId = Blank /\ installationObjectId # Blank
  /\ \/ /\ installationObjectId # CutObject
        /\ \/ installationId' = installationObjectId /\ UNCHANGED installationObjectId
           \/ CutReply(installationObjectId)
     \/ installationObjectId' = Blank /\ UNCHANGED installationId
  /\ pc' = "create"
  /\ UNCHANGED <<file, sessionToken, lastPushTime, after, server, history>>

(* A query that does not ask for the id.                                   *)
GetAnyObject ==
  /\ pc = "inst" /\ installationId # Blank /\ installationObjectId = Blank
  /\ installationObjectId' \in registered \cup {Blank}
  /\ announced' = installationId
  /\ pc' = "create"
  /\ UNCHANGED <<file, installationId, sessionToken, lastPushTime, after, server, used, faults>>

(* GET /1/installations?where=...: the object with this id, no result, or  *)
(* a failure.                                                              *)
GetById ==
  /\ pc = "inst" /\ installationId # Blank /\ installationObjectId = Blank
  /\ \/ /\ installationId \in registered
        /\ \/ installationObjectId' = installationId /\ UNCHANGED installationId
           \/ CutReply(installationId)
     \/ UNCHANGED <<installationId, installationObjectId>>
  /\ announced' = installationId
  /\ pc' = "create"
  /\ UNCHANGED <<file, sessionToken, lastPushTime, after, server, used, faults>>

HaveNeither ==
  /\ pc = "inst" /\ installationId = Blank /\ installationObjectId = Blank
  /\ pc' = "create"
  /\ UNCHANGED <<file, memory, after, server, history>>

(* A POST without an id.                                                   *)
CreateWithoutId ==
  /\ pc = "create"
  /\ pc' = IF installationObjectId # Blank THEN after ELSE "post"
  /\ UNCHANGED <<file, memory, after, server, history>>

(* createInstallation: nothing to do with an object id; otherwise make an  *)
(* id if there is none, and POST it.                                       *)
createInstallation ==
  /\ pc = "create"
  /\ \/ /\ installationObjectId # Blank /\ pc' = after
        /\ UNCHANGED <<installationId, used>>
     \/ /\ installationObjectId = Blank /\ installationId # Blank /\ pc' = "post"
        /\ UNCHANGED <<installationId, used>>
     \/ /\ installationObjectId = Blank /\ installationId = Blank /\ pc' = "post"
        /\ installationId' \in Uuids \ used
        /\ used' = used \cup {installationId'}
  /\ UNCHANGED <<file, installationObjectId, sessionToken, lastPushTime, after, server,
                 announced, faults>>

(* POST /1/installations and createInstallationCallback.                   *)
PostInstallation ==
  /\ pc = "post" /\ pc' = after
  /\ announced' = installationId
  /\ \/ /\ registered' = registered \cup {installationId}
        /\ \/ installationObjectId' \in {installationId, Blank}
           \/ "body" \in faults /\ installationObjectId' = CutObject
     \/ UNCHANGED registered /\ installationObjectId' = Blank
  /\ UNCHANGED <<file, installationId, sessionToken, lastPushTime, after, session, used, faults>>

(* Nothing is done for the id the client already has.                      *)
parseSetInstallationId(id) ==
  /\ pc = "idle" /\ id # installationId
  /\ installationId # Blank => "reset" \in faults
  /\ installationId' = id
  /\ \/ id # Blank /\ CallGetInstallation("save")
     \/ id = Blank /\ pc' = "save" /\ UNCHANGED after
  /\ announced' = Blank
  /\ UNCHANGED <<file, installationObjectId, sessionToken, lastPushTime, server, used, faults>>

-----------------------------------------------------------------------------
(* session.c.                                                              *)

(* A token that is cleared in memory only.                                 *)
ClearTokenUnsaved(token) ==
  /\ pc = "idle" /\ token # sessionToken
  /\ sessionToken' = token
  /\ \/ token # Blank /\ CallGetInstallation("ses_get")
     \/ token = Blank /\ UNCHANGED <<pc, after>>
  /\ UNCHANGED <<file, installationId, installationObjectId, lastPushTime, server, history>>

parseSetSessionToken(token) ==
  /\ pc = "idle" /\ token # sessionToken
  /\ sessionToken' = token
  /\ \/ token # Blank /\ CallGetInstallation("ses_get")
     \/ token = Blank /\ pc' = "save" /\ UNCHANGED after
  /\ UNCHANGED <<file, installationId, installationObjectId, lastPushTime, server, history>>

(* A session that is associated without looking for the object id.         *)
AssociateAnyway ==
  /\ pc = "ses_get"
  /\ announced' = installationId
  /\ \/ /\ session[sessionToken] = Blank \/ "body" \in faults
        /\ pc' = "ses_put"
     \/ pc' = "save"
  /\ UNCHANGED <<file, memory, after, server, used, faults>>

(* GET /1/sessions/me and getSessionCallback: a session without            *)
(* installation, or a reply that ends before it, is associated, if there   *)
(* is an installation object.                                              *)
GetSession ==
  /\ pc = "ses_get"
  /\ announced' = installationId
  /\ \/ /\ session[sessionToken] = Blank \/ "body" \in faults
        /\ installationObjectId # Blank
        /\ pc' = "ses_put"
     \/ pc' = "save"
  /\ UNCHANGED <<file, memory, after, server, used, faults>>

(* PUT /1/sessions/me, without a callback.                                 *)
associateSessionWithInstallation ==
  /\ pc = "ses_put" /\ pc' = "save"
  /\ announced' = installationId
  /\ session' \in {session, [session EXCEPT ![sessionToken] = installationId]}
  /\ UNCHANGED <<file, memory, after, registered, used, faults>>

-----------------------------------------------------------------------------
(* parseSendRequest and parseStartPushService.                             *)
CallThatNeedsInstallation ==
  /\ pc = "idle"
  /\ \E next \in {"req_send", "hello_send"} : CallGetInstallation(next)
  /\ UNCHANGED <<file, memory, server, history>>

SendIdentified ==
  /\ pc \in {"req_send", "hello_send"} /\ pc' = "idle"
  /\ announced' = installationId
  /\ UNCHANGED <<file, memory, after, server, used, faults>>

(* parseProcessNextPushNotification took a push with a time.               *)
RecordPushTime(time) ==
  /\ pc = "idle" /\ pc' = "save"
  /\ lastPushTime' = time
  /\ UNCHANGED <<file, installationId, installationObjectId, sessionToken, after, server,
                 history>>

-----------------------------------------------------------------------------
Installation == HaveBoth \/ GetByObjectId \/ GetById \/ HaveNeither
                \/ createInstallation \/ PostInstallation

Save == SaveDelete \/ SaveCreate \/ SaveWrite \/ SaveFails

Application ==
  \/ \E id \in AppIds \cup {Blank} : parseSetInstallationId(id)
  \/ \E token \in Tokens \cup {Blank} : parseSetSessionToken(token)
  \/ \E time \in Times : RecordPushTime(time)
  \/ CallThatNeedsInstallation

Next == \/ Application \/ Installation \/ Save
        \/ GetSession \/ associateSessionWithInstallation \/ SendIdentified
        \/ parseInitialize \/ PowerLoss

Spec == Init /\ [][Next]_vars

-----------------------------------------------------------------------------
(* A request with the installation header, and the hello of the push       *)
(* service, carry an id, whichever requests failed before them.  Only a    *)
(* 2xx reply that is not whole can leave the client without one: it keeps  *)
(* the object id, and createInstallation then makes no id.                 *)
Identified == "body" \notin faults => (pc \in Sends => installationId # Blank)

(* The object id of a client is the one of its installation id, so that    *)
(* createInstallation does not take the object of another id for its own.  *)
(* This, and the next, as long as replies are whole and the application    *)
(* does not change the id: parseSetInstallationId keeps the object id of   *)
(* the old one.                                                            *)
ObjectOfId ==
  faults \cap {"reset", "body"} = {} => installationObjectId \in {Blank, installationId}

(* session.c: "We can associate the session only if we have a valid        *)
(* installation".  The PUT that associates a session names an id for which *)
(* the server has an installation.                                         *)
AssociationsValid ==
  faults \cap {"reset", "body"} = {} => (pc = "ses_put" => installationId \in registered)

(* Between calls the state file is not behind the memory: a loss of power  *)
(* costs neither the session token nor the last push time, and brings back *)
(* the installation id if it has one.  A save that is cut short or fails   *)
(* loses all three: the old file is deleted first.  A file that could not  *)
(* be read leaves the memory behind, and a reply that ends in the id       *)
(* replaces the id in memory only.                                         *)
StoreNotStale ==
  pc = "idle" /\ faults \cap {"torn", "flash", "unread"} = {} =>
    /\ "body" \in faults \/ Field(1) \in {Blank, installationId}
    /\ Field(2) = sessionToken
    /\ Field(3) = lastPushTime

(* From the moment the id is in the state file, losses of power do not     *)
(* change what the server hears, as long as the application does not, the  *)
(* file can be read and replies are whole: a client that cannot read its   *)
(* file makes a new id.                                                    *)
StoredIdIsUsed ==
  [][ faults \cap {"reset", "unread", "body"} = {} /\ Field(1) # Blank /\ announced' # Blank
      => announced' = Field(1)]_announced

=============================================================================

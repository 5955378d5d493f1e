-------------------------- MODULE RtosClientProofs --------------------------
(***************************************************************************)
(* Theorems about RtosClient, for every set of ids, tokens and times and   *)
(* for every choice of faults.                                             *)
(***************************************************************************)
EXTENDS RtosClient, SequenceTheorems, TLAPS

(* What a call has established by the time it gets to a step: a POST has   *)
(* an installation id; and if replies are whole, an object id at           *)
(* createInstallation comes with an installation id, and no request with   *)
(* the header is reached without one.                                      *)
Control ==
  /\ pc = "post" => installationId # Blank
  /\ "body" \notin faults =>
       /\ pc \in Sends => installationId # Blank
       /\ pc = "create" /\ installationObjectId # Blank => installationId # Blank
  /\ pc = "save_write" => file # Missing /\ Len(file) < 3

IInv == TypeOK /\ Control

(* The object id is one the server gave out for the id the client has.     *)
OwnObject ==
  /\ ObjectOfId
  /\ installationObjectId # Blank => installationObjectId \in registered
  /\ pc = "ses_put" => installationObjectId # Blank

(* The invariant holds in the initial state.                               *)
LEMMA InitIInv == Init => IInv
BY RtosAssumption DEF Init, IInv, TypeOK, FileOK, Control, Labels, Sends

(* The file a save writes to exists and has room for another field.        *)
LEMMA WritableFile ==
  ASSUME IInv, pc = "save_write"
  PROVE  file \in Seq(Fields) /\ Len(file) \in 0 .. 2
<1>1. file # Missing /\ Len(file) < 3
  BY DEF IInv, Control
<1>2. file \in Seq(Fields)
  BY <1>1 DEF IInv, TypeOK, FileOK
<1>3. Len(file) \in Nat
  BY <1>2, LenProperties
<1>4. \A n \in Nat : n < 3 => n \in 0 .. 2
  OBVIOUS
<1>5. Len(file) \in 0 .. 2
  BY <1>1, <1>3, <1>4, Zenon
<1> QED BY <1>2, <1>5

(* A write adds the next of the three fields.                              *)
LEMMA FieldWritten ==
  ASSUME IInv, SaveWrite
  PROVE  FileOK' /\ file' # Missing /\ Len(file') = Len(file) + 1
<1>1. PICK v : /\ file' = Append(file, v)
               /\ v = <<installationId, sessionToken, lastPushTime>>[Len(file) + 1]
  BY DEF SaveWrite
<1>2. file \in Seq(Fields) /\ Len(file) \in 0 .. 2
  BY WritableFile DEF SaveWrite
<1>3. /\ Len(file) = 0 => v = installationId
      /\ Len(file) = 1 => v = sessionToken
      /\ Len(file) = 2 => v = lastPushTime
  <2>1. CASE Len(file) = 0
    BY <1>1, <2>1
  <2>2. CASE Len(file) = 1
    BY <1>1, <2>2
  <2>3. CASE Len(file) = 2
    BY <1>1, <2>3
  <2> QED BY <1>2, <2>1, <2>2, <2>3
<1>4. v \in Fields
  BY <1>2, <1>3 DEF Fields, IInv, TypeOK
<1>5. /\ Append(file, v) \in Seq(Fields)
      /\ Len(Append(file, v)) = Len(file) + 1
      /\ \A i \in 1 .. Len(file) : Append(file, v)[i] = file[i]
      /\ Append(file, v)[Len(file) + 1] = v
  BY <1>2, <1>4, AppendProperties
<1>6. FileOK
  BY <1>2, RtosAssumption DEF IInv, TypeOK
<1>7. FileOK'
  <2>1. CASE Len(file) = 0
    BY <1>1, <1>2, <1>3, <1>5, <2>1 DEF FileOK, IInv, TypeOK
  <2>2. CASE Len(file) = 1
    BY <1>1, <1>2, <1>3, <1>5, <1>6, <2>2 DEF FileOK, IInv, TypeOK
  <2>3. CASE Len(file) = 2
    BY <1>1, <1>2, <1>3, <1>5, <1>6, <2>3 DEF FileOK, IInv, TypeOK
  <2> QED BY <1>2, <2>1, <2>2, <2>3
<1> QED BY <1>1, <1>5, <1>7, RtosAssumption

(* One field written, or one request made, leaves every variable its type. *)
LEMMA TypeStep == IInv /\ [Next]_vars => TypeOK'
<1> SUFFICES ASSUME IInv, [Next]_vars PROVE TypeOK'
  OBVIOUS
<1>. USE RtosAssumption
       DEF IInv, TypeOK, FileOK, Control, memory, server, history, Labels, Sends, SaveSteps, Ids
<1>1. CASE parseInitialize
  BY <1>1 DEF parseInitialize, Field
<1>2. CASE SaveDelete
  BY <1>2 DEF SaveDelete
<1>3. CASE SaveCreate
  BY <1>3 DEF SaveCreate
<1>4. CASE SaveWrite
  BY <1>4, FieldWritten DEF SaveWrite
<1>5. CASE SaveFails
  BY <1>5 DEF SaveFails, SaveSteps
<1>6. CASE PowerLoss
  BY <1>6 DEF PowerLoss
<1>7. CASE HaveBoth
  BY <1>7 DEF HaveBoth
<1>8. CASE GetByObjectId
  BY <1>8 DEF GetByObjectId, CutReply
<1>9. CASE GetById
  BY <1>9 DEF GetById, CutReply
<1>10. CASE HaveNeither
  BY <1>10 DEF HaveNeither
<1>11. CASE createInstallation
  BY <1>11 DEF createInstallation
<1>12. CASE PostInstallation
  BY <1>12 DEF PostInstallation
<1>13. CASE \E id \in AppIds \cup {Blank} : parseSetInstallationId(id)
  BY <1>13 DEF parseSetInstallationId, CallGetInstallation
<1>14. CASE \E token \in Tokens \cup {Blank} : parseSetSessionToken(token)
  BY <1>14 DEF parseSetSessionToken, CallGetInstallation
<1>15. CASE \E time \in Times : RecordPushTime(time)
  BY <1>15 DEF RecordPushTime
<1>16. CASE CallThatNeedsInstallation
  BY <1>16 DEF CallThatNeedsInstallation, CallGetInstallation
<1>17. CASE GetSession
  BY <1>17 DEF GetSession
<1>18. CASE associateSessionWithInstallation
  BY <1>18 DEF associateSessionWithInstallation
<1>19. CASE SendIdentified
  BY <1>19 DEF SendIdentified
<1>20. CASE UNCHANGED vars
  BY <1>20 DEF vars
<1> QED
  BY <1>1, <1>2, <1>3, <1>4, <1>5, <1>6, <1>7, <1>8, <1>9, <1>10, <1>11,
     <1>12, <1>13, <1>14, <1>15, <1>16, <1>17, <1>18, <1>19, <1>20
  DEF Next, Application, Installation, Save

(* A step reaches a request with the header, or the POST, with an id, and a *)
(* write with a file to write to.                                          *)
LEMMA ControlStep == IInv /\ [Next]_vars => Control'
<1> SUFFICES ASSUME IInv, [Next]_vars PROVE Control'
  OBVIOUS
<1>. USE RtosAssumption
       DEF IInv, TypeOK, FileOK, Control, memory, server, history, Labels, Sends, SaveSteps, Ids
<1>1. CASE parseInitialize
  BY <1>1 DEF parseInitialize
<1>2. CASE SaveDelete
  BY <1>2 DEF SaveDelete
<1>3. CASE SaveCreate
  <2>1. <<>> \in Seq(Fields)
    BY EmptySeq
  <2>2. file' # Missing
    BY <1>3, <2>1 DEF SaveCreate
  <2>3. Len(file') = 0 /\ pc' = "save_write"
    BY <1>3 DEF SaveCreate
  <2> QED BY <2>2, <2>3
<1>4. CASE SaveWrite
  <2>1. pc = "save_write" /\ pc' = IF Len(file) = 2 THEN "idle" ELSE "save_write"
    BY <1>4 DEF SaveWrite
  <2>2. Len(file) \in 0 .. 2
    BY <2>1, WritableFile
  <2>3. file' # Missing /\ Len(file') = Len(file) + 1
    BY <1>4, FieldWritten
  <2> QED BY <2>1, <2>2, <2>3
<1>5. CASE SaveFails
  BY <1>5 DEF SaveFails, SaveSteps
<1>6. CASE PowerLoss
  BY <1>6 DEF PowerLoss
<1>7. CASE HaveBoth
  BY <1>7 DEF HaveBoth
<1>8. CASE GetByObjectId
  BY <1>8 DEF GetByObjectId, CutReply
<1>9. CASE GetById
  BY <1>9 DEF GetById, CutReply
<1>10. CASE HaveNeither
  BY <1>10 DEF HaveNeither
<1>11. CASE createInstallation
  BY <1>11 DEF createInstallation
<1>12. CASE PostInstallation
  BY <1>12 DEF PostInstallation
<1>13. CASE \E id \in AppIds \cup {Blank} : parseSetInstallationId(id)
  BY <1>13 DEF parseSetInstallationId, CallGetInstallation
<1>14. CASE \E token \in Tokens \cup {Blank} : parseSetSessionToken(token)
  BY <1>14 DEF parseSetSessionToken, CallGetInstallation
<1>15. CASE \E time \in Times : RecordPushTime(time)
  BY <1>15 DEF RecordPushTime
<1>16. CASE CallThatNeedsInstallation
  BY <1>16 DEF CallThatNeedsInstallation, CallGetInstallation
<1>17. CASE GetSession
  BY <1>17 DEF GetSession
<1>18. CASE associateSessionWithInstallation
  BY <1>18 DEF associateSessionWithInstallation
<1>19. CASE SendIdentified
  BY <1>19 DEF SendIdentified
<1>20. CASE UNCHANGED vars
  BY <1>20 DEF vars
<1> QED
  BY <1>1, <1>2, <1>3, <1>4, <1>5, <1>6, <1>7, <1>8, <1>9, <1>10, <1>11,
     <1>12, <1>13, <1>14, <1>15, <1>16, <1>17, <1>18, <1>19, <1>20
  DEF Next, Application, Installation, Save

(* The invariant is inductive.                                             *)
LEMMA RtosInvariant == Spec => []IInv
<1>1. IInv /\ [Next]_vars => IInv'
  BY TypeStep, ControlStep DEF IInv
<1> QED BY InitIInv, <1>1, PTL DEF Spec

(* The state keeps its types in every environment; in particular the three *)
(* fields of the state file are never taken for one another, however much  *)
(* of it was written before the power was lost.                            *)
THEOREM RtosTypes == Spec => []TypeOK
BY RtosInvariant, PTL DEF IInv

(* Every request with the installation header, and every hello, has an id, *)
(* whichever requests of getInstallation failed, as long as the 2xx        *)
(* replies to them are whole.                                              *)
THEOREM RtosIdentified == Spec => []Identified
<1>1. IInv => Identified
  BY DEF IInv, Control, Identified
<1> QED BY RtosInvariant, <1>1, PTL

(* The environment stays the same.                                         *)
LEMMA EnvironmentStep == ASSUME [Next]_vars PROVE faults' = faults
<1>. USE DEF history
<1>1. CASE parseInitialize
  BY <1>1 DEF parseInitialize
<1>2. CASE SaveDelete
  BY <1>2 DEF SaveDelete
<1>3. CASE SaveCreate
  BY <1>3 DEF SaveCreate
<1>4. CASE SaveWrite
  BY <1>4 DEF SaveWrite
<1>5. CASE SaveFails
  BY <1>5 DEF SaveFails, SaveSteps
<1>6. CASE PowerLoss
  BY <1>6 DEF PowerLoss
<1>7. CASE HaveBoth
  BY <1>7 DEF HaveBoth
<1>8. CASE GetByObjectId
  BY <1>8 DEF GetByObjectId, CutReply
<1>9. CASE GetById
  BY <1>9 DEF GetById, CutReply
<1>10. CASE HaveNeither
  BY <1>10 DEF HaveNeither
<1>11. CASE createInstallation
  BY <1>11 DEF createInstallation
<1>12. CASE PostInstallation
  BY <1>12 DEF PostInstallation
<1>13. CASE \E id \in AppIds \cup {Blank} : parseSetInstallationId(id)
  BY <1>13 DEF parseSetInstallationId, CallGetInstallation
<1>14. CASE \E token \in Tokens \cup {Blank} : parseSetSessionToken(token)
  BY <1>14 DEF parseSetSessionToken, CallGetInstallation
<1>15. CASE \E time \in Times : RecordPushTime(time)
  BY <1>15 DEF RecordPushTime
<1>16. CASE CallThatNeedsInstallation
  BY <1>16 DEF CallThatNeedsInstallation, CallGetInstallation
<1>17. CASE GetSession
  BY <1>17 DEF GetSession
<1>18. CASE associateSessionWithInstallation
  BY <1>18 DEF associateSessionWithInstallation
<1>19. CASE SendIdentified
  BY <1>19 DEF SendIdentified
<1>20. CASE UNCHANGED vars
  BY <1>20 DEF vars
<1> QED
  BY <1>1, <1>2, <1>3, <1>4, <1>5, <1>6, <1>7, <1>8, <1>9, <1>10, <1>11,
     <1>12, <1>13, <1>14, <1>15, <1>16, <1>17, <1>18, <1>19, <1>20
  DEF Next, Application, Installation, Save

(* Without resets, and with whole replies, only the server's answer for    *)
(* the client's own id sets the object id, and nothing changes the id      *)
(* while there is an object id.                                            *)
LEMMA OwnObjectStep ==
  ASSUME faults \cap {"reset", "body"} = {}, IInv, OwnObject, [Next]_vars
  PROVE  OwnObject'
<1>. USE DEF IInv, TypeOK, Control, OwnObject, ObjectOfId, memory, server, history, Sends, Ids
<1>1. CASE parseInitialize
  BY <1>1 DEF parseInitialize
<1>2. CASE SaveDelete
  BY <1>2 DEF SaveDelete
<1>3. CASE SaveCreate
  BY <1>3 DEF SaveCreate
<1>4. CASE SaveWrite
  BY <1>4 DEF SaveWrite
<1>5. CASE SaveFails
  BY <1>5 DEF SaveFails, SaveSteps
<1>6. CASE PowerLoss
  BY <1>6 DEF PowerLoss
<1>7. CASE HaveBoth
  BY <1>7 DEF HaveBoth
<1>8. CASE GetByObjectId
  BY <1>8 DEF GetByObjectId, CutReply
<1>9. CASE GetById
  BY <1>9 DEF GetById, CutReply
<1>10. CASE HaveNeither
  BY <1>10 DEF HaveNeither
<1>11. CASE createInstallation
  BY <1>11 DEF createInstallation
<1>12. CASE PostInstallation
  BY <1>12 DEF PostInstallation
<1>13. CASE \E id \in AppIds \cup {Blank} : parseSetInstallationId(id)
  BY <1>13 DEF parseSetInstallationId, CallGetInstallation
<1>14. CASE \E token \in Tokens \cup {Blank} : parseSetSessionToken(token)
  BY <1>14 DEF parseSetSessionToken, CallGetInstallation
<1>15. CASE \E time \in Times : RecordPushTime(time)
  BY <1>15 DEF RecordPushTime
<1>16. CASE CallThatNeedsInstallation
  BY <1>16 DEF CallThatNeedsInstallation, CallGetInstallation
<1>17. CASE GetSession
  BY <1>17 DEF GetSession
<1>18. CASE associateSessionWithInstallation
  BY <1>18 DEF associateSessionWithInstallation
<1>19. CASE SendIdentified
  BY <1>19 DEF SendIdentified
<1>20. CASE UNCHANGED vars
  BY <1>20 DEF vars
<1> QED
  BY <1>1, <1>2, <1>3, <1>4, <1>5, <1>6, <1>7, <1>8, <1>9, <1>10, <1>11,
     <1>12, <1>13, <1>14, <1>15, <1>16, <1>17, <1>18, <1>19, <1>20
  DEF Next, Application, Installation, Save

(* Then the object id is the client's own.                                 *)
LEMMA OwnObjectInvariant == Spec => [](faults \cap {"reset", "body"} = {} => OwnObject)
<1> DEFINE Inv == faults \cap {"reset", "body"} = {} => OwnObject
<1>1. Init => Inv
  BY DEF Init, OwnObject, ObjectOfId
<1>2. IInv /\ Inv /\ [Next]_vars => Inv'
  BY OwnObjectStep, EnvironmentStep
<1> QED BY RtosInvariant, <1>1, <1>2, PTL DEF Spec

(* If the application sets an id only when there is none, and 2xx replies  *)
(* are whole, the object id always belongs to the installation id,         *)
(* whichever requests fail.                                                *)
THEOREM ObjectIsOwn == Spec => []ObjectOfId
<1>1. (faults \cap {"reset", "body"} = {} => OwnObject) => ObjectOfId
  BY DEF OwnObject, ObjectOfId
<1> QED BY OwnObjectInvariant, <1>1, PTL

(* And a session is only ever associated with an installation the server   *)
(* knows.                                                                  *)
THEOREM AssociationsSound == Spec => []AssociationsValid
<1>1. (faults \cap {"reset", "body"} = {} => OwnObject) => AssociationsValid
  BY DEF OwnObject, ObjectOfId, AssociationsValid
<1> QED BY OwnObjectInvariant, <1>1, PTL

-----------------------------------------------------------------------------
(* The state file.                                                         *)

(* The file after a write: one more field, the others as they were.        *)
LEMMA FieldsAfterWrite ==
  ASSUME IInv, SaveWrite
  PROVE  /\ Len(file) \in 0 .. 2 /\ Len(file') = Len(file) + 1
         /\ file # Missing /\ file' # Missing
         /\ Len(file) = 0 => file'[1] = installationId
         /\ Len(file) = 1 => file'[1] = file[1] /\ file'[2] = sessionToken
         /\ Len(file) = 2 => /\ file'[1] = file[1] /\ file'[2] = file[2]
                             /\ file'[3] = lastPushTime
<1>1. file \in Seq(Fields) /\ Len(file) \in 0 .. 2 /\ file # Missing
  BY WritableFile DEF SaveWrite, IInv, Control
<1>2. file' # Missing /\ Len(file') = Len(file) + 1
  BY FieldWritten
<1> DEFINE v == <<installationId, sessionToken, lastPushTime>>[Len(file) + 1]
<1>3. file' = Append(file, v)
  BY DEF SaveWrite
<1>4. /\ Len(file) = 0 => v = installationId
      /\ Len(file) = 1 => v = sessionToken
      /\ Len(file) = 2 => v = lastPushTime
  <2>1. CASE Len(file) = 0
    BY <2>1
  <2>2. CASE Len(file) = 1
    BY <2>2
  <2>3. CASE Len(file) = 2
    BY <2>3
  <2> QED BY <1>1, <2>1, <2>2, <2>3
<1>. HIDE DEF v
<1>5. v \in Fields
  BY <1>1, <1>4 DEF Fields, IInv, TypeOK
<1>6. /\ \A i \in 1 .. Len(file) : file'[i] = file[i]
      /\ file'[Len(file) + 1] = v
  BY <1>1, <1>3, <1>5, AppendProperties
<1> QED BY <1>1, <1>2, <1>4, <1>6

(* The calls that end in a save, from their first step to the last write.  *)
Saving ==
  \/ pc \in SaveSteps \cup {"save", "ses_get", "ses_put"}
  \/ pc \in {"inst", "create", "post"} /\ after \in {"save", "ses_get"}

(* Outside of them the fields of the file are those of the memory, except  *)
(* an id that was made or cut since; and a save that is under way has written the *)
(* fields of the memory.                                                   *)
FieldsInStep ==
  /\ ~ Saving /\ pc # "down" =>
       /\ "body" \in faults \/ Field(1) \in {Blank, installationId}
       /\ Field(2) = sessionToken /\ Field(3) = lastPushTime
  /\ pc = "save_write" =>
       /\ Len(file) >= 1 => file[1] = installationId
       /\ Len(file) >= 2 => file[2] = sessionToken

LEMMA FieldsInStepStep ==
  ASSUME faults \cap {"torn", "flash", "unread"} = {}, IInv, FieldsInStep, [Next]_vars
  PROVE  FieldsInStep'
<1>. USE RtosAssumption
       DEF IInv, TypeOK, Control, FieldsInStep, Saving, Field, memory, server, history, Sends,
           SaveSteps
<1>1. CASE parseInitialize
  BY <1>1 DEF parseInitialize
<1>2. CASE SaveDelete
  BY <1>2 DEF SaveDelete
<1>3. CASE SaveCreate
  <2>1. Len(file') = 0 /\ pc' = "save_write"
    BY <1>3 DEF SaveCreate
  <2> QED BY <2>1
<1>4. CASE SaveWrite
  BY <1>4, FieldsAfterWrite DEF SaveWrite
<1>5. CASE SaveFails
  BY <1>5 DEF SaveFails, SaveSteps
<1>6. CASE PowerLoss
  BY <1>6 DEF PowerLoss
<1>7. CASE HaveBoth
  BY <1>7 DEF HaveBoth
<1>8. CASE GetByObjectId
  BY <1>8 DEF GetByObjectId, CutReply
<1>9. CASE GetById
  BY <1>9 DEF GetById, CutReply
<1>10. CASE HaveNeither
  BY <1>10 DEF HaveNeither
<1>11. CASE createInstallation
  BY <1>11 DEF createInstallation
<1>12. CASE PostInstallation
  BY <1>12 DEF PostInstallation
<1>13. CASE \E id \in AppIds \cup {Blank} : parseSetInstallationId(id)
  BY <1>13 DEF parseSetInstallationId, CallGetInstallation
<1>14. CASE \E token \in Tokens \cup {Blank} : parseSetSessionToken(token)
  BY <1>14 DEF parseSetSessionToken, CallGetInstallation
<1>15. CASE \E time \in Times : RecordPushTime(time)
  BY <1>15 DEF RecordPushTime
<1>16. CASE CallThatNeedsInstallation
  BY <1>16 DEF CallThatNeedsInstallation, CallGetInstallation
<1>17. CASE GetSession
  BY <1>17 DEF GetSession
<1>18. CASE associateSessionWithInstallation
  BY <1>18 DEF associateSessionWithInstallation
<1>19. CASE SendIdentified
  BY <1>19 DEF SendIdentified
<1>20. CASE UNCHANGED vars
  BY <1>20 DEF vars
<1> QED
  BY <1>1, <1>2, <1>3, <1>4, <1>5, <1>6, <1>7, <1>8, <1>9, <1>10, <1>11,
     <1>12, <1>13, <1>14, <1>15, <1>16, <1>17, <1>18, <1>19, <1>20
  DEF Next, Application, Installation, Save

(* Between two calls the state file is not behind the memory, if no save   *)
(* is torn or fails and the file can be read: a loss of power then costs   *)
(* neither the session token nor the resume point, and, if replies are     *)
(* whole, brings back no id but the one in memory.                         *)
THEOREM StateFileUpToDate == Spec => []StoreNotStale
<1> DEFINE Inv == faults \cap {"torn", "flash", "unread"} = {} => FieldsInStep
<1>1. Init => Inv
  BY DEF Init, FieldsInStep, Saving, SaveSteps
<1>2. IInv /\ Inv /\ [Next]_vars => Inv'
  BY FieldsInStepStep, EnvironmentStep
<1>3. Inv => StoreNotStale
  BY DEF FieldsInStep, Saving, SaveSteps, StoreNotStale
<1> QED BY RtosInvariant, <1>1, <1>2, <1>3, PTL DEF Spec

-----------------------------------------------------------------------------
(* Without resets, with whole replies and a file that can be read, an id   *)
(* in the file is the id in memory, wherever a save was cut short.         *)
OneStoredId == pc # "down" => Field(1) \in {Blank, installationId}

LEMMA OneStoredIdStep ==
  ASSUME faults \cap {"reset", "unread", "body"} = {}, IInv, OneStoredId, [Next]_vars
  PROVE  OneStoredId'
<1>. USE RtosAssumption
       DEF IInv, TypeOK, Control, OneStoredId, Field, memory, server, history, Sends, SaveSteps
<1>1. CASE parseInitialize
  BY <1>1 DEF parseInitialize
<1>2. CASE SaveDelete
  BY <1>2 DEF SaveDelete
<1>3. CASE SaveCreate
  <2>1. Len(file') = 0
    BY <1>3 DEF SaveCreate
  <2> QED BY <2>1
<1>4. CASE SaveWrite
  BY <1>4, FieldsAfterWrite DEF SaveWrite
<1>5. CASE SaveFails
  BY <1>5 DEF SaveFails, SaveSteps
<1>6. CASE PowerLoss
  BY <1>6 DEF PowerLoss
<1>7. CASE HaveBoth
  BY <1>7 DEF HaveBoth
<1>8. CASE GetByObjectId
  BY <1>8 DEF GetByObjectId, CutReply
<1>9. CASE GetById
  BY <1>9 DEF GetById, CutReply
<1>10. CASE HaveNeither
  BY <1>10 DEF HaveNeither
<1>11. CASE createInstallation
  BY <1>11 DEF createInstallation
<1>12. CASE PostInstallation
  BY <1>12 DEF PostInstallation
<1>13. CASE \E id \in AppIds \cup {Blank} : parseSetInstallationId(id)
  BY <1>13 DEF parseSetInstallationId, CallGetInstallation
<1>14. CASE \E token \in Tokens \cup {Blank} : parseSetSessionToken(token)
  BY <1>14 DEF parseSetSessionToken, CallGetInstallation
<1>15. CASE \E time \in Times : RecordPushTime(time)
  BY <1>15 DEF RecordPushTime
<1>16. CASE CallThatNeedsInstallation
  BY <1>16 DEF CallThatNeedsInstallation, CallGetInstallation
<1>17. CASE GetSession
  BY <1>17 DEF GetSession
<1>18. CASE associateSessionWithInstallation
  BY <1>18 DEF associateSessionWithInstallation
<1>19. CASE SendIdentified
  BY <1>19 DEF SendIdentified
<1>20. CASE UNCHANGED vars
  BY <1>20 DEF vars
<1> QED
  BY <1>1, <1>2, <1>3, <1>4, <1>5, <1>6, <1>7, <1>8, <1>9, <1>10, <1>11,
     <1>12, <1>13, <1>14, <1>15, <1>16, <1>17, <1>18, <1>19, <1>20
  DEF Next, Application, Installation, Save

(* The server hears the id in memory, from a device that is up.            *)
LEMMA AnnounceStep ==
  ASSUME [Next]_vars, announced' # announced
  PROVE  announced' = Blank \/ (announced' = installationId /\ pc # "down")
<1>. USE DEF history
<1>1. CASE parseInitialize
  BY <1>1 DEF parseInitialize
<1>2. CASE SaveDelete
  BY <1>2 DEF SaveDelete
<1>3. CASE SaveCreate
  BY <1>3 DEF SaveCreate
<1>4. CASE SaveWrite
  BY <1>4 DEF SaveWrite
<1>5. CASE SaveFails
  BY <1>5 DEF SaveFails, SaveSteps
<1>6. CASE PowerLoss
  BY <1>6 DEF PowerLoss
<1>7. CASE HaveBoth
  BY <1>7 DEF HaveBoth
<1>8. CASE GetByObjectId
  BY <1>8 DEF GetByObjectId, CutReply
<1>9. CASE GetById
  BY <1>9 DEF GetById, CutReply
<1>10. CASE HaveNeither
  BY <1>10 DEF HaveNeither
<1>11. CASE createInstallation
  BY <1>11 DEF createInstallation
<1>12. CASE PostInstallation
  BY <1>12 DEF PostInstallation
<1>13. CASE \E id \in AppIds \cup {Blank} : parseSetInstallationId(id)
  BY <1>13 DEF parseSetInstallationId, CallGetInstallation
<1>14. CASE \E token \in Tokens \cup {Blank} : parseSetSessionToken(token)
  BY <1>14 DEF parseSetSessionToken, CallGetInstallation
<1>15. CASE \E time \in Times : RecordPushTime(time)
  BY <1>15 DEF RecordPushTime
<1>16. CASE CallThatNeedsInstallation
  BY <1>16 DEF CallThatNeedsInstallation, CallGetInstallation
<1>17. CASE GetSession
  BY <1>17 DEF GetSession
<1>18. CASE associateSessionWithInstallation
  BY <1>18 DEF associateSessionWithInstallation
<1>19. CASE SendIdentified
  BY <1>19 DEF SendIdentified
<1>20. CASE UNCHANGED vars
  BY <1>20 DEF vars
<1> QED
  BY <1>1, <1>2, <1>3, <1>4, <1>5, <1>6, <1>7, <1>8, <1>9, <1>10, <1>11,
     <1>12, <1>13, <1>14, <1>15, <1>16, <1>17, <1>18, <1>19, <1>20
  DEF Next, Application, Installation, Save

(* Once the id is in the state file, and until the application resets it,  *)
(* the server hears no other, if the file can be read and replies are      *)
(* whole: not after a loss of power at any step, not after a save that was *)
(* torn or failed.                                                         *)
THEOREM StoredIdForLife == Spec => StoredIdIsUsed
<1> DEFINE Inv == faults \cap {"reset", "unread", "body"} = {} => OneStoredId
<1>1. Init => Inv
  BY DEF Init, OneStoredId
<1>2. IInv /\ Inv /\ [Next]_vars => Inv'
  BY OneStoredIdStep, EnvironmentStep
<1>3. Inv /\ [Next]_vars =>
        [faults \cap {"reset", "unread", "body"} = {} /\ Field(1) # Blank /\ announced' # Blank
         => announced' = Field(1)]_announced
  BY AnnounceStep DEF OneStoredId
<1> QED BY RtosInvariant, <1>1, <1>2, <1>3, PTL DEF Spec, StoredIdIsUsed

=============================================================================

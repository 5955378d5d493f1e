-------------------------- MODULE UnixClientProofs --------------------------
(***************************************************************************)
(* Theorems about UnixClient, for every set of ids, tokens and times and   *)
(* for every choice of faults.                                             *)
(***************************************************************************)
EXTENDS UnixClient, TLAPS

(* Where the call in progress stands, and what it has established by then. *)
(* parseCreateInstallationIdIfNeeded never has to create an id once a      *)
(* token is being set, so it never returns to the GET or the PUT.          *)
Control ==
  /\ cont \in {"idle", "init_tok", "tok_open", "req_send", "hello_send"}
  /\ tokCont \in {"idle", "init_last"}
  /\ pc \in {"id_open", "id_write", "id_set"} => idArg # None
  /\ pc \in {"tok_create", "tok_open", "tok_write", "tok_set"} => tokArg # None
  /\ cont = "tok_open" => tokArg # None
  /\ pc \in {"time_open", "time_write"} => lastPushTime # None
  /\ pc \in Sends \cup {"id_post", "tok_open", "tok_write", "tok_set",
                        "get_create", "put_create"} => installationId # None

(* If key files can be opened, read and written, an id in memory is the id *)
(* in the store except while it is being replaced or removed, and the same *)
(* for a token once it is set.                                             *)
InStore ==
  faults \cap {"disk", "io"} = {} =>
    /\ pc \notin {"id_write", "id_set", "id_clear"} =>
         installationId \in {None, idFile}
    /\ pc = "id_set" => idFile = idArg
    /\ pc = "tok_set" => tokenFile = tokArg
    /\ pc \in {"get_create", "get_send", "put_create", "put_send"} =>
         tokenFile = sessionToken

IInv == TypeOK /\ Control /\ InStore

(* If stores are not torn and files can be read and written, a key file is *)
(* empty only until it is written, so nothing is left over in the buffer   *)
(* from the key loaded before.                                             *)
Meaning ==
  /\ KeysKeepTheirMeaning
  /\ idFile \in AppIds \cup used \cup {Missing} \/ (pc = "id_write" /\ idFile = Empty)
  /\ idArg \in AppIds \cup used \cup {None}
  /\ tokenFile \in chosen \cup {Missing} \/ (pc = "tok_write" /\ tokenFile = Empty)
  /\ tokArg \in chosen \cup {None}
  /\ timeFile \in Times \cup {Missing} \/ (pc = "time_write" /\ timeFile = Empty)

(* Once the server has heard an id, and until the application sets or      *)
(* clears it, that id is in the store, or about to be written there, and  *)
(* is the only one in memory or on its way there.                          *)
OneIdentity ==
  announced # None =>
    /\ pc # "id_write" => idFile = announced
    /\ installationId \in {None, announced}
    /\ pc \in {"id_open", "id_write", "id_set"} => idArg = announced
    /\ pc \notin {"id_unlink", "id_clear"}

-----------------------------------------------------------------------------
(* A key is loaded as what is in its file, as what the buffer held, or as  *)
(* the empty string.                                                       *)
LEMMA LoadKeyRange ==
  ASSUME NEW file, NEW buffer, NEW value \in parseOsLoadKey(file, buffer)
  PROVE  /\ \/ value = Blank
            \/ value = file /\ file \notin {Missing, Empty}
            \/ value = buffer /\ (file = Empty \/ "io" \in faults)
         /\ value = Blank /\ file \notin {Missing, Empty, Blank} =>
              "disk" \in faults \/ "io" \in faults
<1>1. \/ value = Blank /\ (file = Missing \/ "disk" \in faults)
      \/ value = buffer /\ (file = Empty \/ "io" \in faults)
      \/ value = file /\ file \notin {Missing, Empty}
  BY DEF parseOsLoadKey
<1> QED BY <1>1

(* What the constants stand for: values of keys are not marks, and the     *)
(* marks differ.                                                           *)
LEMMA Distinct ==
  /\ Uuids \subseteq Values /\ AppIds \subseteq Values /\ Garbage \in Values
  /\ Tokens \subseteq Values /\ Times \subseteq Values
  /\ \A v \in Values : v \notin {None, Missing, Empty, Blank}
  /\ None \notin {Missing, Empty, Blank} /\ Missing \notin {Empty, Blank} /\ Empty # Blank
BY ValueAssumption DEF Values, Marks, Ids

(* The invariant holds before the first parseInitialize.                   *)
LEMMA InitIInv == Init => IInv
<1> SUFFICES ASSUME Init PROVE IInv
  OBVIOUS
<1>. USE DEF Init
<1>1. TypeOK
  BY DEF TypeOK, Labels
<1>2. Control
  BY DEF Control, Sends
<1>3. InStore
  BY DEF InStore
<1> QED BY <1>1, <1>2, <1>3 DEF IInv

(* The server only hears the id that is in memory, and the environment     *)
(* stays the same.                                                         *)
LEMMA AnnounceStep ==
  ASSUME [Next]_vars
  PROVE  /\ announced' \in {announced, None, installationId}
         /\ faults' = faults
<1>. USE DEF history
<1>1. CASE IdOpen
  BY <1>1 DEF IdOpen, OpenKey
<1>2. CASE IdWrite
  BY <1>2 DEF IdWrite, WriteKey
<1>3. CASE IdSet
  BY <1>3 DEF IdSet
<1>4. CASE IdPost
  BY <1>4 DEF IdPost, Announce
<1>5. CASE IdUnlink
  BY <1>5 DEF IdUnlink, parseOsClearKey
<1>6. CASE IdClear
  BY <1>6 DEF IdClear
<1>7. CASE TokenOpen
  BY <1>7 DEF TokenOpen, OpenKey
<1>8. CASE TokenWrite
  BY <1>8 DEF TokenWrite, WriteKey
<1>9. CASE TokenSet
  BY <1>9 DEF TokenSet
<1>10. CASE TokenUnlink
  BY <1>10 DEF TokenUnlink, parseOsClearKey
<1>11. CASE TokenClear
  BY <1>11 DEF TokenClear
<1>12. CASE TimeOpen
  BY <1>12 DEF TimeOpen, OpenKey
<1>13. CASE TimeWrite
  BY <1>13 DEF TimeWrite, WriteKey
<1>14. CASE GetSession
  BY <1>14 DEF GetSession, Announce
<1>15. CASE PutSession
  BY <1>15 DEF PutSession, Announce
<1>16. CASE parseCreateInstallationIdIfNeeded
  BY <1>16, LoadKeyRange DEF parseCreateInstallationIdIfNeeded,
         CallSetInstallationId, AfterCreate
<1>17. CASE SendIdentified
  BY <1>17 DEF SendIdentified, Announce
<1>18. CASE parseInitialize
  BY <1>18 DEF parseInitialize
<1>19. CASE InitId
  BY <1>19, LoadKeyRange DEF InitId, CallSetInstallationId
<1>20. CASE InitToken
  BY <1>20, LoadKeyRange DEF InitToken, CallSetSessionToken
<1>21. CASE InitLast
  BY <1>21, LoadKeyRange DEF InitLast
<1>22. CASE \E id \in AppIds \cup {None} : parseSetInstallationId(id)
  BY <1>22 DEF parseSetInstallationId, CallSetInstallationId
<1>23. CASE \E token \in Tokens \cup {None} : parseSetSessionToken(token)
  BY <1>23 DEF parseSetSessionToken, CallSetSessionToken
<1>24. CASE \E time \in Times : RecordPushTime(time)
  BY <1>24 DEF RecordPushTime
<1>25. CASE CallThatNeedsId
  BY <1>25 DEF CallThatNeedsId
<1>26. CASE Crash
  BY <1>26 DEF Crash
<1>27. CASE UNCHANGED vars
  BY <1>27 DEF vars
<1> QED
  BY <1>1, <1>2, <1>3, <1>4, <1>5, <1>6, <1>7, <1>8, <1>9, <1>10, <1>11, <1>12, <1>13, <1>14,
     <1>15, <1>16, <1>17, <1>18, <1>19, <1>20, <1>21, <1>22, <1>23, <1>24, <1>25, <1>26, <1>27
  DEF Next, Setter, Initialize, Application

(* Types are preserved; Control is needed because the setters write their  *)
(* argument into a file and into memory only when it is not NULL.          *)
LEMMA TypeStep == TypeOK /\ Control /\ [Next]_vars => TypeOK'
<1> SUFFICES ASSUME TypeOK, Control, [Next]_vars PROVE TypeOK'
  OBVIOUS
<1>. USE Distinct DEF TypeOK, files, memory, args, history, Labels, Sends, Creates
<1>1. CASE IdOpen
  BY <1>1 DEF IdOpen, OpenKey, Control
<1>2. CASE IdWrite
  BY <1>2 DEF IdWrite, WriteKey, Control
<1>3. CASE IdSet
  BY <1>3 DEF IdSet, Control
<1>4. CASE IdPost
  BY <1>4 DEF IdPost, Announce, Control
<1>5. CASE IdUnlink
  BY <1>5 DEF IdUnlink, parseOsClearKey, Control
<1>6. CASE IdClear
  BY <1>6 DEF IdClear, Control
<1>7. CASE TokenOpen
  BY <1>7 DEF TokenOpen, OpenKey, Control
<1>8. CASE TokenWrite
  BY <1>8 DEF TokenWrite, WriteKey, Control
<1>9. CASE TokenSet
  BY <1>9 DEF TokenSet, Control
<1>10. CASE TokenUnlink
  BY <1>10 DEF TokenUnlink, parseOsClearKey, Control
<1>11. CASE TokenClear
  BY <1>11 DEF TokenClear, Control
<1>12. CASE TimeOpen
  BY <1>12 DEF TimeOpen, OpenKey, Control
<1>13. CASE TimeWrite
  BY <1>13 DEF TimeWrite, WriteKey, Control
<1>14. CASE GetSession
  BY <1>14 DEF GetSession, Announce, Control
<1>15. CASE PutSession
  BY <1>15 DEF PutSession, Announce, Control
<1>16. CASE parseCreateInstallationIdIfNeeded
  BY <1>16, LoadKeyRange DEF parseCreateInstallationIdIfNeeded,
         CallSetInstallationId, AfterCreate, Control
<1>17. CASE SendIdentified
  BY <1>17 DEF SendIdentified, Announce, Control
<1>18. CASE parseInitialize
  BY <1>18 DEF parseInitialize, Control
<1>19. CASE InitId
  BY <1>19, LoadKeyRange DEF InitId, CallSetInstallationId, Control
<1>20. CASE InitToken
  BY <1>20, LoadKeyRange DEF InitToken, CallSetSessionToken, Control
<1>21. CASE InitLast
  BY <1>21, LoadKeyRange DEF InitLast, Control
<1>22. CASE \E id \in AppIds \cup {None} : parseSetInstallationId(id)
  BY <1>22 DEF parseSetInstallationId, CallSetInstallationId, Control
<1>23. CASE \E token \in Tokens \cup {None} : parseSetSessionToken(token)
  BY <1>23 DEF parseSetSessionToken, CallSetSessionToken, Control
<1>24. CASE \E time \in Times : RecordPushTime(time)
  BY <1>24 DEF RecordPushTime, Control
<1>25. CASE CallThatNeedsId
  BY <1>25 DEF CallThatNeedsId, Control
<1>26. CASE Crash
  BY <1>26 DEF Crash, Control
<1>27. CASE UNCHANGED vars
  BY <1>27 DEF vars, Control
<1> QED
  BY <1>1, <1>2, <1>3, <1>4, <1>5, <1>6, <1>7, <1>8, <1>9, <1>10, <1>11, <1>12, <1>13, <1>14,
     <1>15, <1>16, <1>17, <1>18, <1>19, <1>20, <1>21, <1>22, <1>23, <1>24, <1>25, <1>26, <1>27
  DEF Next, Setter, Initialize, Application

(* Control is preserved: each call does what its later steps rely on.      *)
LEMMA ControlStep == TypeOK /\ Control /\ [Next]_vars => Control'
<1> SUFFICES ASSUME TypeOK, Control, [Next]_vars PROVE Control'
  OBVIOUS
<1>. USE Distinct DEF TypeOK, Control, files, memory, args, history, Sends, Creates
<1>1. CASE IdOpen
  BY <1>1 DEF IdOpen, OpenKey
<1>2. CASE IdWrite
  BY <1>2 DEF IdWrite, WriteKey
<1>3. CASE IdSet
  BY <1>3 DEF IdSet
<1>4. CASE IdPost
  BY <1>4 DEF IdPost, Announce
<1>5. CASE IdUnlink
  BY <1>5 DEF IdUnlink, parseOsClearKey
<1>6. CASE IdClear
  BY <1>6 DEF IdClear
<1>7. CASE TokenOpen
  BY <1>7 DEF TokenOpen, OpenKey
<1>8. CASE TokenWrite
  BY <1>8 DEF TokenWrite, WriteKey
<1>9. CASE TokenSet
  BY <1>9 DEF TokenSet
<1>10. CASE TokenUnlink
  BY <1>10 DEF TokenUnlink, parseOsClearKey
<1>11. CASE TokenClear
  BY <1>11 DEF TokenClear
<1>12. CASE TimeOpen
  BY <1>12 DEF TimeOpen, OpenKey
<1>13. CASE TimeWrite
  BY <1>13 DEF TimeWrite, WriteKey
<1>14. CASE GetSession
  BY <1>14 DEF GetSession, Announce
<1>15. CASE PutSession
  BY <1>15 DEF PutSession, Announce
<1>16. CASE parseCreateInstallationIdIfNeeded
  BY <1>16, LoadKeyRange DEF parseCreateInstallationIdIfNeeded,
         CallSetInstallationId, AfterCreate
<1>17. CASE SendIdentified
  BY <1>17 DEF SendIdentified, Announce
<1>18. CASE parseInitialize
  BY <1>18 DEF parseInitialize
<1>19. CASE InitId
  BY <1>19, LoadKeyRange DEF InitId, CallSetInstallationId
<1>20. CASE InitToken
  BY <1>20, LoadKeyRange DEF InitToken, CallSetSessionToken
<1>21. CASE InitLast
  BY <1>21, LoadKeyRange DEF InitLast
<1>22. CASE \E id \in AppIds \cup {None} : parseSetInstallationId(id)
  BY <1>22 DEF parseSetInstallationId, CallSetInstallationId
<1>23. CASE \E token \in Tokens \cup {None} : parseSetSessionToken(token)
  BY <1>23 DEF parseSetSessionToken, CallSetSessionToken
<1>24. CASE \E time \in Times : RecordPushTime(time)
  BY <1>24 DEF RecordPushTime
<1>25. CASE CallThatNeedsId
  BY <1>25 DEF CallThatNeedsId
<1>26. CASE Crash
  BY <1>26 DEF Crash
<1>27. CASE UNCHANGED vars
  BY <1>27 DEF vars
<1> QED
  BY <1>1, <1>2, <1>3, <1>4, <1>5, <1>6, <1>7, <1>8, <1>9, <1>10, <1>11, <1>12, <1>13, <1>14,
     <1>15, <1>16, <1>17, <1>18, <1>19, <1>20, <1>21, <1>22, <1>23, <1>24, <1>25, <1>26, <1>27
  DEF Next, Setter, Initialize, Application

(* The store is written before the memory, so the two agree again at the   *)
(* end of each setter.                                                     *)
LEMMA InStoreStep == TypeOK /\ Control /\ InStore /\ [Next]_vars => InStore'
<1> SUFFICES ASSUME TypeOK, Control, InStore, [Next]_vars PROVE InStore'
  OBVIOUS
<1>. USE Distinct DEF TypeOK, Control, InStore, files, memory, args, history, Sends, Creates
<1>1. CASE IdOpen
  BY <1>1 DEF IdOpen, OpenKey
<1>2. CASE IdWrite
  BY <1>2 DEF IdWrite, WriteKey
<1>3. CASE IdSet
  BY <1>3 DEF IdSet
<1>4. CASE IdPost
  BY <1>4 DEF IdPost, Announce
<1>5. CASE IdUnlink
  BY <1>5 DEF IdUnlink, parseOsClearKey
<1>6. CASE IdClear
  BY <1>6 DEF IdClear
<1>7. CASE TokenOpen
  BY <1>7 DEF TokenOpen, OpenKey
<1>8. CASE TokenWrite
  BY <1>8 DEF TokenWrite, WriteKey
<1>9. CASE TokenSet
  BY <1>9 DEF TokenSet
<1>10. CASE TokenUnlink
  BY <1>10 DEF TokenUnlink, parseOsClearKey
<1>11. CASE TokenClear
  BY <1>11 DEF TokenClear
<1>12. CASE TimeOpen
  BY <1>12 DEF TimeOpen, OpenKey
<1>13. CASE TimeWrite
  BY <1>13 DEF TimeWrite, WriteKey
<1>14. CASE GetSession
  BY <1>14 DEF GetSession, Announce
<1>15. CASE PutSession
  BY <1>15 DEF PutSession, Announce
<1>16. CASE parseCreateInstallationIdIfNeeded
  BY <1>16, LoadKeyRange DEF parseCreateInstallationIdIfNeeded,
         CallSetInstallationId, AfterCreate
<1>17. CASE SendIdentified
  BY <1>17 DEF SendIdentified, Announce
<1>18. CASE parseInitialize
  BY <1>18 DEF parseInitialize
<1>19. CASE InitId
  BY <1>19, LoadKeyRange DEF InitId, CallSetInstallationId
<1>20. CASE InitToken
  BY <1>20, LoadKeyRange DEF InitToken, CallSetSessionToken
<1>21. CASE InitLast
  BY <1>21, LoadKeyRange DEF InitLast
<1>22. CASE \E id \in AppIds \cup {None} : parseSetInstallationId(id)
  BY <1>22 DEF parseSetInstallationId, CallSetInstallationId
<1>23. CASE \E token \in Tokens \cup {None} : parseSetSessionToken(token)
  BY <1>23 DEF parseSetSessionToken, CallSetSessionToken
<1>24. CASE \E time \in Times : RecordPushTime(time)
  BY <1>24 DEF RecordPushTime
<1>25. CASE CallThatNeedsId
  BY <1>25 DEF CallThatNeedsId
<1>26. CASE Crash
  BY <1>26 DEF Crash
<1>27. CASE UNCHANGED vars
  BY <1>27 DEF vars
<1> QED
  BY <1>1, <1>2, <1>3, <1>4, <1>5, <1>6, <1>7, <1>8, <1>9, <1>10, <1>11, <1>12, <1>13, <1>14,
     <1>15, <1>16, <1>17, <1>18, <1>19, <1>20, <1>21, <1>22, <1>23, <1>24, <1>25, <1>26, <1>27
  DEF Next, Setter, Initialize, Application

(* The inductive invariant.                                                *)
LEMMA ClientInvariant == Spec => []IInv
<1>1. IInv /\ [Next]_vars => IInv'
  BY TypeStep, ControlStep, InStoreStep DEF IInv
<1> QED BY InitIInv, <1>1, PTL DEF Spec

-----------------------------------------------------------------------------
(* What a request to the server carries.                                   *)

(* In every environment the state keeps its types.                         *)
THEOREM ClientTypes == Spec => []TypeOK
BY ClientInvariant, PTL DEF IInv

(* A request with the installation header, and the hello of the push       *)
(* service, always has an id: parseCreateInstallationIdIfNeeded comes      *)
(* before each of them and nothing between them clears the id.             *)
THEOREM AlwaysIdentified == Spec => []Identified
<1>1. IInv => Identified
  BY DEF IInv, Control, Identified
<1> QED BY ClientInvariant, <1>1, PTL

(* The setters store before they send, so whatever id or token the server  *)
(* has heard of is in the key files, wherever the process ends, as long as *)
(* those files can be opened, read and written.                            *)
THEOREM StoredBeforeSent == Spec => []PersistedBeforeSent
<1>1. IInv => PersistedBeforeSent
  BY DEF IInv, Control, InStore, PersistedBeforeSent, Sends
<1> QED BY ClientInvariant, <1>1, PTL

-----------------------------------------------------------------------------
(* Without torn stores.                                                    *)

(* No step gives a key a value of another kind, if no file stays empty.    *)
LEMMA MeaningStep ==
  ASSUME faults \cap {"torn", "io"} = {}, TypeOK, Control, Meaning, [Next]_vars
  PROVE  Meaning'
<1>. USE Distinct DEF TypeOK, Control, Meaning, KeysKeepTheirMeaning,
                      files, memory, args, history
<1>1. CASE IdOpen
  BY <1>1 DEF IdOpen, OpenKey
<1>2. CASE IdWrite
  BY <1>2 DEF IdWrite, WriteKey
<1>3. CASE IdSet
  BY <1>3 DEF IdSet
<1>4. CASE IdPost
  BY <1>4 DEF IdPost, Announce
<1>5. CASE IdUnlink
  BY <1>5 DEF IdUnlink, parseOsClearKey
<1>6. CASE IdClear
  BY <1>6 DEF IdClear
<1>7. CASE TokenOpen
  BY <1>7 DEF TokenOpen, OpenKey
<1>8. CASE TokenWrite
  BY <1>8 DEF TokenWrite, WriteKey
<1>9. CASE TokenSet
  BY <1>9 DEF TokenSet
<1>10. CASE TokenUnlink
  BY <1>10 DEF TokenUnlink, parseOsClearKey
<1>11. CASE TokenClear
  BY <1>11 DEF TokenClear
<1>12. CASE TimeOpen
  BY <1>12 DEF TimeOpen, OpenKey
<1>13. CASE TimeWrite
  BY <1>13 DEF TimeWrite, WriteKey
<1>14. CASE GetSession
  BY <1>14 DEF GetSession, Announce
<1>15. CASE PutSession
  BY <1>15 DEF PutSession, Announce
<1>16. CASE parseCreateInstallationIdIfNeeded
  <2>. USE <1>16 DEF parseCreateInstallationIdIfNeeded
  <2>1. pc \notin {"id_write", "tok_write", "time_write"} /\ faults' = faults
    BY DEF Creates
  <2>2. idFile \in AppIds \cup used \cup {Missing}
    BY <2>1
  <2>3. used \subseteq used' /\ idArg' \in AppIds \cup used' \cup {None}
    <3>1. CASE UNCHANGED <<args, used>>
      BY <3>1
    <3>2. CASE \E id \in parseOsLoadKey(idFile, Blank) :
                 /\ id # Blank /\ CallSetInstallationId(id, AfterCreate[pc])
                 /\ UNCHANGED used
      <4>1. PICK id \in parseOsLoadKey(idFile, Blank) :
              id # Blank /\ CallSetInstallationId(id, AfterCreate[pc]) /\ UNCHANGED used
        BY <3>2
      <4>2. id = idFile /\ id # Missing
        BY <4>1, LoadKeyRange
      <4> QED BY <2>2, <4>1, <4>2 DEF CallSetInstallationId
    <3>3. CASE \E uuid \in Uuids \ used :
                 /\ CallSetInstallationId(uuid, AfterCreate[pc])
                 /\ used' = used \cup {uuid}
      BY <3>3 DEF CallSetInstallationId
    <3> QED BY <3>1, <3>2, <3>3
  <2>4. UNCHANGED <<files, memory, chosen>> /\ tokArg' = tokArg
    OBVIOUS
  <2> QED BY <2>1, <2>2, <2>3, <2>4
<1>17. CASE SendIdentified
  BY <1>17 DEF SendIdentified, Announce
<1>18. CASE parseInitialize
  BY <1>18 DEF parseInitialize
<1>19. CASE InitId
  BY <1>19, LoadKeyRange DEF InitId, CallSetInstallationId
<1>20. CASE InitToken
  BY <1>20, LoadKeyRange DEF InitToken, CallSetSessionToken
<1>21. CASE InitLast
  BY <1>21, LoadKeyRange DEF InitLast
<1>22. CASE \E id \in AppIds \cup {None} : parseSetInstallationId(id)
  BY <1>22 DEF parseSetInstallationId, CallSetInstallationId
<1>23. CASE \E token \in Tokens \cup {None} : parseSetSessionToken(token)
  BY <1>23 DEF parseSetSessionToken, CallSetSessionToken
<1>24. CASE \E time \in Times : RecordPushTime(time)
  BY <1>24 DEF RecordPushTime
<1>25. CASE CallThatNeedsId
  BY <1>25 DEF CallThatNeedsId
<1>26. CASE Crash
  BY <1>26 DEF Crash
<1>27. CASE UNCHANGED vars
  BY <1>27 DEF vars
<1> QED
  BY <1>1, <1>2, <1>3, <1>4, <1>5, <1>6, <1>7, <1>8, <1>9, <1>10, <1>11, <1>12, <1>13, <1>14,
     <1>15, <1>16, <1>17, <1>18, <1>19, <1>20, <1>21, <1>22, <1>23, <1>24, <1>25, <1>26, <1>27
  DEF Next, Setter, Initialize, Application

(* As long as no store is torn and an open file can be read and written,   *)
(* parseInitialize gives no key a value that belongs to another or to      *)
(* nothing, although its buffer is uninitialized at first and shared by    *)
(* the three keys; also if files cannot be opened.                         *)
THEOREM KeysNotMixedUp == Spec => []KeysKeepTheirMeaning
<1> DEFINE Inv == faults \cap {"torn", "io"} = {} => Meaning
<1>1. Init => Inv
  BY DEF Init, Meaning, KeysKeepTheirMeaning
<1>2. IInv /\ Inv /\ [Next]_vars => Inv'
  BY MeaningStep, AnnounceStep DEF IInv
<1>3. Inv => KeysKeepTheirMeaning
  BY DEF Meaning, KeysKeepTheirMeaning
<1> QED BY ClientInvariant, <1>1, <1>2, <1>3, PTL DEF Spec

(* No step replaces an id the server has heard of, except the              *)
(* application's own.                                                      *)
LEMMA OneIdentityStep ==
  ASSUME faults \cap FileFaults = {}, IInv, OneIdentity, [Next]_vars
  PROVE  OneIdentity'
<1>. USE Distinct DEF IInv, TypeOK, Control, InStore, OneIdentity, FileFaults, Sends, Creates,
                      files, memory, args, history
<1>1. CASE IdOpen
  BY <1>1 DEF IdOpen, OpenKey
<1>2. CASE IdWrite
  BY <1>2 DEF IdWrite, WriteKey
<1>3. CASE IdSet
  BY <1>3 DEF IdSet
<1>4. CASE IdPost
  BY <1>4 DEF IdPost, Announce
<1>5. CASE IdUnlink
  BY <1>5 DEF IdUnlink, parseOsClearKey
<1>6. CASE IdClear
  BY <1>6 DEF IdClear
<1>7. CASE TokenOpen
  BY <1>7 DEF TokenOpen, OpenKey
<1>8. CASE TokenWrite
  BY <1>8 DEF TokenWrite, WriteKey
<1>9. CASE TokenSet
  BY <1>9 DEF TokenSet
<1>10. CASE TokenUnlink
  BY <1>10 DEF TokenUnlink, parseOsClearKey
<1>11. CASE TokenClear
  BY <1>11 DEF TokenClear
<1>12. CASE TimeOpen
  BY <1>12 DEF TimeOpen, OpenKey
<1>13. CASE TimeWrite
  BY <1>13 DEF TimeWrite, WriteKey
<1>14. CASE GetSession
  BY <1>14 DEF GetSession, Announce
<1>15. CASE PutSession
  BY <1>15 DEF PutSession, Announce
<1>16. CASE parseCreateInstallationIdIfNeeded
  BY <1>16, LoadKeyRange DEF parseCreateInstallationIdIfNeeded,
         CallSetInstallationId, AfterCreate
<1>17. CASE SendIdentified
  BY <1>17 DEF SendIdentified, Announce
<1>18. CASE parseInitialize
  BY <1>18 DEF parseInitialize
<1>19. CASE InitId
  BY <1>19, LoadKeyRange DEF InitId, CallSetInstallationId
<1>20. CASE InitToken
  BY <1>20, LoadKeyRange DEF InitToken, CallSetSessionToken
<1>21. CASE InitLast
  BY <1>21, LoadKeyRange DEF InitLast
<1>22. CASE \E id \in AppIds \cup {None} : parseSetInstallationId(id)
  BY <1>22 DEF parseSetInstallationId, CallSetInstallationId
<1>23. CASE \E token \in Tokens \cup {None} : parseSetSessionToken(token)
  BY <1>23 DEF parseSetSessionToken, CallSetSessionToken
<1>24. CASE \E time \in Times : RecordPushTime(time)
  BY <1>24 DEF RecordPushTime
<1>25. CASE CallThatNeedsId
  BY <1>25 DEF CallThatNeedsId
<1>26. CASE Crash
  BY <1>26 DEF Crash
<1>27. CASE UNCHANGED vars
  BY <1>27 DEF vars
<1> QED
  BY <1>1, <1>2, <1>3, <1>4, <1>5, <1>6, <1>7, <1>8, <1>9, <1>10, <1>11, <1>12, <1>13, <1>14,
     <1>15, <1>16, <1>17, <1>18, <1>19, <1>20, <1>21, <1>22, <1>23, <1>24, <1>25, <1>26, <1>27
  DEF Next, Setter, Initialize, Application

(* What the server hears next is what it heard.                            *)
LEMMA SameIdStep ==
  ASSUME OneIdentity, [Next]_vars, announced # None, announced' # None
  PROVE  announced' = announced
BY AnnounceStep DEF OneIdentity

(* The server hears one installation id until the application sets or      *)
(* clears it, over any number of runs of the process, ended anywhere       *)
(* except inside a store, if the key files can be opened, read and         *)
(* written.                                                                *)
THEOREM OneIdForLife == Spec => IdentityStable
<1> DEFINE Inv == faults \cap FileFaults = {} => OneIdentity
<1>1. Init => Inv
  BY DEF Init, OneIdentity
<1>2. IInv /\ Inv /\ [Next]_vars => Inv'
  BY OneIdentityStep, AnnounceStep
<1>3. Inv /\ [Next]_vars =>
        [ faults \cap FileFaults = {} /\ announced # None /\ announced' # None
          => announced' = announced]_announced
  BY SameIdStep
<1> QED BY ClientInvariant, <1>1, <1>2, <1>3, PTL DEF Spec, IdentityStable

-----------------------------------------------------------------------------
(* Memory and store.                                                       *)

IdSteps    == {"id_open", "id_write", "id_set", "id_post"}
TokenSteps == {"tok_create", "tok_open", "tok_write", "tok_set",
               "get_create", "get_send", "put_create", "put_send"}

(* Which call a continuation belongs to.                                   *)
Returns ==
  /\ cont # "idle" => pc \in IdSteps
  /\ tokCont # "idle" => pc \in TokenSteps \/ cont = "tok_open"

(* parseInitialize has not come to the token, or has not come to the time. *)
TokenToLoad ==
  \/ pc \in {"down", "init_id", "init_tok"} \/ cont = "init_tok"
  \/ /\ tokCont = "init_last"
     /\ pc \in {"tok_create", "tok_open", "tok_write", "tok_set"} \/ cont = "tok_open"

TimeToLoad ==
  \/ pc \in {"down", "init_id", "init_tok", "init_last"}
  \/ cont = "init_tok" \/ tokCont = "init_last"

(* Until parseInitialize has loaded a key, the memory holds nothing for it *)
(* and the setter it calls is given what is in the file; afterwards the    *)
(* two differ only between the steps of a setter.                          *)
IdInStep ==
  CASE pc \in {"down", "init_id"} -> installationId = None
    [] pc = "id_write" -> TRUE
    [] pc = "id_set" -> idFile = idArg
    [] pc = "id_open" /\ cont = "init_tok" -> idFile = idArg
    [] pc = "id_clear" -> idFile = Missing
    [] OTHER -> idFile = Stored(installationId)

TokenInStep ==
  /\ TokenToLoad => sessionToken = None
  /\ pc = "tok_set" => tokenFile = tokArg
  /\ tokCont = "init_last" /\ (pc \in {"tok_create", "tok_open"} \/ cont = "tok_open")
       => tokenFile = tokArg
  /\ pc = "tok_clear" => tokenFile = Missing
  /\ ~ TokenToLoad /\ pc \notin {"tok_write", "tok_set", "tok_clear"}
       => tokenFile = Stored(sessionToken)

TimeInStep ==
  /\ TimeToLoad => lastPushTime = None
  /\ ~ TimeToLoad /\ pc \notin {"time_open", "time_write"} => timeFile = Stored(lastPushTime)

InStep == Returns /\ IdInStep /\ TokenInStep /\ TimeInStep

LEMMA ReturnsStep == TypeOK /\ Control /\ Returns /\ [Next]_vars => Returns'
<1> SUFFICES ASSUME TypeOK, Control, Returns, [Next]_vars PROVE Returns'
  OBVIOUS
<1>. USE Distinct DEF TypeOK, Control, Returns, IdSteps, TokenSteps, Sends, Creates,
                      files, memory, args, history
<1>1. CASE IdOpen
  BY <1>1 DEF IdOpen, OpenKey
<1>2. CASE IdWrite
  BY <1>2 DEF IdWrite, WriteKey
<1>3. CASE IdSet
  BY <1>3 DEF IdSet
<1>4. CASE IdPost
  BY <1>4 DEF IdPost, Announce
<1>5. CASE IdUnlink
  BY <1>5 DEF IdUnlink, parseOsClearKey
<1>6. CASE IdClear
  BY <1>6 DEF IdClear
<1>7. CASE TokenOpen
  BY <1>7 DEF TokenOpen, OpenKey
<1>8. CASE TokenWrite
  BY <1>8 DEF TokenWrite, WriteKey
<1>9. CASE TokenSet
  BY <1>9 DEF TokenSet
<1>10. CASE TokenUnlink
  BY <1>10 DEF TokenUnlink, parseOsClearKey
<1>11. CASE TokenClear
  BY <1>11 DEF TokenClear
<1>12. CASE TimeOpen
  BY <1>12 DEF TimeOpen, OpenKey
<1>13. CASE TimeWrite
  BY <1>13 DEF TimeWrite, WriteKey
<1>14. CASE GetSession
  BY <1>14 DEF GetSession, Announce
<1>15. CASE PutSession
  BY <1>15 DEF PutSession, Announce
<1>16. CASE parseCreateInstallationIdIfNeeded
  BY <1>16, LoadKeyRange DEF parseCreateInstallationIdIfNeeded,
         CallSetInstallationId, AfterCreate
<1>17. CASE SendIdentified
  BY <1>17 DEF SendIdentified, Announce
<1>18. CASE parseInitialize
  BY <1>18 DEF parseInitialize
<1>19. CASE InitId
  BY <1>19, LoadKeyRange DEF InitId, CallSetInstallationId
<1>20. CASE InitToken
  BY <1>20, LoadKeyRange DEF InitToken, CallSetSessionToken
<1>21. CASE InitLast
  BY <1>21, LoadKeyRange DEF InitLast
<1>22. CASE \E id \in AppIds \cup {None} : parseSetInstallationId(id)
  BY <1>22 DEF parseSetInstallationId, CallSetInstallationId
<1>23. CASE \E token \in Tokens \cup {None} : parseSetSessionToken(token)
  BY <1>23 DEF parseSetSessionToken, CallSetSessionToken
<1>24. CASE \E time \in Times : RecordPushTime(time)
  BY <1>24 DEF RecordPushTime
<1>25. CASE CallThatNeedsId
  BY <1>25 DEF CallThatNeedsId
<1>26. CASE Crash
  BY <1>26 DEF Crash
<1>27. CASE UNCHANGED vars
  BY <1>27 DEF vars
<1> QED
  BY <1>1, <1>2, <1>3, <1>4, <1>5, <1>6, <1>7, <1>8, <1>9, <1>10, <1>11, <1>12, <1>13, <1>14,
     <1>15, <1>16, <1>17, <1>18, <1>19, <1>20, <1>21, <1>22, <1>23, <1>24, <1>25, <1>26, <1>27
  DEF Next, Setter, Initialize, Application

(* No step of a setter leaves the id file behind the id.                   *)
LEMMA IdInStepStep ==
  ASSUME faults \cap FileFaults = {}, IInv, Meaning, Returns, IdInStep, [Next]_vars
  PROVE  IdInStep'
<1>. USE Distinct DEF IInv, TypeOK, Control, Meaning, Returns, IdSteps, TokenSteps, IdInStep,
                      Stored, FileFaults, Sends, Creates, files, memory, args, history
<1>1. CASE IdOpen
  BY <1>1 DEF IdOpen, OpenKey
<1>2. CASE IdWrite
  BY <1>2 DEF IdWrite, WriteKey
<1>3. CASE IdSet
  BY <1>3 DEF IdSet
<1>4. CASE IdPost
  BY <1>4 DEF IdPost, Announce
<1>5. CASE IdUnlink
  BY <1>5 DEF IdUnlink, parseOsClearKey
<1>6. CASE IdClear
  BY <1>6 DEF IdClear
<1>7. CASE TokenOpen
  BY <1>7 DEF TokenOpen, OpenKey
<1>8. CASE TokenWrite
  BY <1>8 DEF TokenWrite, WriteKey
<1>9. CASE TokenSet
  BY <1>9 DEF TokenSet
<1>10. CASE TokenUnlink
  BY <1>10 DEF TokenUnlink, parseOsClearKey
<1>11. CASE TokenClear
  BY <1>11 DEF TokenClear
<1>12. CASE TimeOpen
  BY <1>12 DEF TimeOpen, OpenKey
<1>13. CASE TimeWrite
  BY <1>13 DEF TimeWrite, WriteKey
<1>14. CASE GetSession
  BY <1>14 DEF GetSession, Announce
<1>15. CASE PutSession
  BY <1>15 DEF PutSession, Announce
<1>16. CASE parseCreateInstallationIdIfNeeded
  BY <1>16, LoadKeyRange DEF parseCreateInstallationIdIfNeeded,
         CallSetInstallationId, AfterCreate
<1>17. CASE SendIdentified
  BY <1>17 DEF SendIdentified, Announce
<1>18. CASE parseInitialize
  BY <1>18 DEF parseInitialize
<1>19. CASE InitId
  BY <1>19, LoadKeyRange DEF InitId, CallSetInstallationId
<1>20. CASE InitToken
  BY <1>20, LoadKeyRange DEF InitToken, CallSetSessionToken
<1>21. CASE InitLast
  BY <1>21, LoadKeyRange DEF InitLast
<1>22. CASE \E id \in AppIds \cup {None} : parseSetInstallationId(id)
  BY <1>22 DEF parseSetInstallationId, CallSetInstallationId
<1>23. CASE \E token \in Tokens \cup {None} : parseSetSessionToken(token)
  BY <1>23 DEF parseSetSessionToken, CallSetSessionToken
<1>24. CASE \E time \in Times : RecordPushTime(time)
  BY <1>24 DEF RecordPushTime
<1>25. CASE CallThatNeedsId
  BY <1>25 DEF CallThatNeedsId
<1>26. CASE Crash
  BY <1>26 DEF Crash
<1>27. CASE UNCHANGED vars
  BY <1>27 DEF vars
<1> QED
  BY <1>1, <1>2, <1>3, <1>4, <1>5, <1>6, <1>7, <1>8, <1>9, <1>10, <1>11, <1>12, <1>13, <1>14,
     <1>15, <1>16, <1>17, <1>18, <1>19, <1>20, <1>21, <1>22, <1>23, <1>24, <1>25, <1>26, <1>27
  DEF Next, Setter, Initialize, Application

(* Nor the token file behind the token.                                    *)
LEMMA TokenInStepStep ==
  ASSUME faults \cap FileFaults = {}, IInv, Meaning, Returns, TokenInStep, [Next]_vars
  PROVE  TokenInStep'
<1>. USE Distinct DEF IInv, TypeOK, Control, Meaning, Returns, IdSteps, TokenSteps, TokenInStep,
                      TokenToLoad, Stored, FileFaults, Sends, Creates, files, memory, args, history
<1>1. CASE IdOpen
  BY <1>1 DEF IdOpen, OpenKey
<1>2. CASE IdWrite
  BY <1>2 DEF IdWrite, WriteKey
<1>3. CASE IdSet
  BY <1>3 DEF IdSet
<1>4. CASE IdPost
  BY <1>4 DEF IdPost, Announce
<1>5. CASE IdUnlink
  BY <1>5 DEF IdUnlink, parseOsClearKey
<1>6. CASE IdClear
  BY <1>6 DEF IdClear
<1>7. CASE TokenOpen
  BY <1>7 DEF TokenOpen, OpenKey
<1>8. CASE TokenWrite
  BY <1>8 DEF TokenWrite, WriteKey
<1>9. CASE TokenSet
  BY <1>9 DEF TokenSet
<1>10. CASE TokenUnlink
  BY <1>10 DEF TokenUnlink, parseOsClearKey
<1>11. CASE TokenClear
  BY <1>11 DEF TokenClear
<1>12. CASE TimeOpen
  BY <1>12 DEF TimeOpen, OpenKey
<1>13. CASE TimeWrite
  BY <1>13 DEF TimeWrite, WriteKey
<1>14. CASE GetSession
  BY <1>14 DEF GetSession, Announce
<1>15. CASE PutSession
  BY <1>15 DEF PutSession, Announce
<1>16. CASE parseCreateInstallationIdIfNeeded
  BY <1>16, LoadKeyRange DEF parseCreateInstallationIdIfNeeded,
         CallSetInstallationId, AfterCreate
<1>17. CASE SendIdentified
  BY <1>17 DEF SendIdentified, Announce
<1>18. CASE parseInitialize
  BY <1>18 DEF parseInitialize
<1>19. CASE InitId
  BY <1>19, LoadKeyRange DEF InitId, CallSetInstallationId
<1>20. CASE InitToken
  BY <1>20, LoadKeyRange DEF InitToken, CallSetSessionToken
<1>21. CASE InitLast
  BY <1>21, LoadKeyRange DEF InitLast
<1>22. CASE \E id \in AppIds \cup {None} : parseSetInstallationId(id)
  BY <1>22 DEF parseSetInstallationId, CallSetInstallationId
<1>23. CASE \E token \in Tokens \cup {None} : parseSetSessionToken(token)
  BY <1>23 DEF parseSetSessionToken, CallSetSessionToken
<1>24. CASE \E time \in Times : RecordPushTime(time)
  BY <1>24 DEF RecordPushTime
<1>25. CASE CallThatNeedsId
  BY <1>25 DEF CallThatNeedsId
<1>26. CASE Crash
  BY <1>26 DEF Crash
<1>27. CASE UNCHANGED vars
  BY <1>27 DEF vars
<1> QED
  BY <1>1, <1>2, <1>3, <1>4, <1>5, <1>6, <1>7, <1>8, <1>9, <1>10, <1>11, <1>12, <1>13, <1>14,
     <1>15, <1>16, <1>17, <1>18, <1>19, <1>20, <1>21, <1>22, <1>23, <1>24, <1>25, <1>26, <1>27
  DEF Next, Setter, Initialize, Application

(* Nor the time file behind the last push time.                            *)
LEMMA TimeInStepStep ==
  ASSUME faults \cap FileFaults = {}, IInv, Meaning, Returns, TimeInStep, [Next]_vars
  PROVE  TimeInStep'
<1>. USE Distinct DEF IInv, TypeOK, Control, Meaning, Returns, IdSteps, TokenSteps, TimeInStep,
                      TimeToLoad, Stored, FileFaults, Sends, Creates, files, memory, args, history
<1>1. CASE IdOpen
  BY <1>1 DEF IdOpen, OpenKey
<1>2. CASE IdWrite
  BY <1>2 DEF IdWrite, WriteKey
<1>3. CASE IdSet
  BY <1>3 DEF IdSet
<1>4. CASE IdPost
  BY <1>4 DEF IdPost, Announce
<1>5. CASE IdUnlink
  BY <1>5 DEF IdUnlink, parseOsClearKey
<1>6. CASE IdClear
  BY <1>6 DEF IdClear
<1>7. CASE TokenOpen
  BY <1>7 DEF TokenOpen, OpenKey
<1>8. CASE TokenWrite
  BY <1>8 DEF TokenWrite, WriteKey
<1>9. CASE TokenSet
  BY <1>9 DEF TokenSet
<1>10. CASE TokenUnlink
  BY <1>10 DEF TokenUnlink, parseOsClearKey
<1>11. CASE TokenClear
  BY <1>11 DEF TokenClear
<1>12. CASE TimeOpen
  BY <1>12 DEF TimeOpen, OpenKey
<1>13. CASE TimeWrite
  BY <1>13 DEF TimeWrite, WriteKey
<1>14. CASE GetSession
  BY <1>14 DEF GetSession, Announce
<1>15. CASE PutSession
  BY <1>15 DEF PutSession, Announce
<1>16. CASE parseCreateInstallationIdIfNeeded
  BY <1>16, LoadKeyRange DEF parseCreateInstallationIdIfNeeded,
         CallSetInstallationId, AfterCreate
<1>17. CASE SendIdentified
  BY <1>17 DEF SendIdentified, Announce
<1>18. CASE parseInitialize
  BY <1>18 DEF parseInitialize
<1>19. CASE InitId
  BY <1>19, LoadKeyRange DEF InitId, CallSetInstallationId
<1>20. CASE InitToken
  BY <1>20, LoadKeyRange DEF InitToken, CallSetSessionToken
<1>21. CASE InitLast
  BY <1>21, LoadKeyRange DEF InitLast
<1>22. CASE \E id \in AppIds \cup {None} : parseSetInstallationId(id)
  BY <1>22 DEF parseSetInstallationId, CallSetInstallationId
<1>23. CASE \E token \in Tokens \cup {None} : parseSetSessionToken(token)
  BY <1>23 DEF parseSetSessionToken, CallSetSessionToken
<1>24. CASE \E time \in Times : RecordPushTime(time)
  BY <1>24 DEF RecordPushTime
<1>25. CASE CallThatNeedsId
  BY <1>25 DEF CallThatNeedsId
<1>26. CASE Crash
  BY <1>26 DEF Crash
<1>27. CASE UNCHANGED vars
  BY <1>27 DEF vars
<1> QED
  BY <1>1, <1>2, <1>3, <1>4, <1>5, <1>6, <1>7, <1>8, <1>9, <1>10, <1>11, <1>12, <1>13, <1>14,
     <1>15, <1>16, <1>17, <1>18, <1>19, <1>20, <1>21, <1>22, <1>23, <1>24, <1>25, <1>26, <1>27
  DEF Next, Setter, Initialize, Application

(* Between two calls of the API the key files hold what the memory holds,  *)
(* if no store is torn and the files can be opened, read and written:      *)
(* whatever the calls before were, and wherever the process ended, the     *)
(* next run starts with what the last one knew.                            *)
THEOREM NothingToLose == Spec => []MemoryMatchesStore
<1> DEFINE Safe == faults \cap FileFaults = {}
           Inv  == Safe => Meaning /\ InStep
<1>1. Init => Inv
  BY DEF Init, Meaning, KeysKeepTheirMeaning, InStep, Returns, IdInStep, TokenInStep,
         TokenToLoad, TimeInStep, TimeToLoad
<1>2. IInv /\ Inv /\ [Next]_vars => Inv'
  <2> SUFFICES ASSUME IInv, [Next]_vars, Safe, Meaning, InStep PROVE Meaning' /\ InStep'
    BY AnnounceStep
  <2>1. Meaning'
    BY MeaningStep DEF IInv, FileFaults
  <2>2. Returns'
    BY ReturnsStep DEF IInv, InStep
  <2>3. IdInStep' /\ TokenInStep' /\ TimeInStep'
    BY IdInStepStep, TokenInStepStep, TimeInStepStep DEF InStep
  <2> QED BY <2>1, <2>2, <2>3 DEF InStep
<1>3. Inv => MemoryMatchesStore
  BY DEF InStep, Returns, IdSteps, TokenSteps, IdInStep, TokenInStep, TokenToLoad, TimeInStep,
         TimeToLoad, MemoryMatchesStore
<1> QED BY ClientInvariant, <1>1, <1>2, <1>3, PTL DEF Spec

=============================================================================

----------------------------- MODULE MCRtosPush -----------------------------
(***************************************************************************)
(* RtosPush for TLC.                                                       *)
(***************************************************************************)
EXTENDS RtosPush

TwoPushes == << <<"{", "t1", "}">>, <<"{", "t2", "}">> >>
PushBytes == {"{", "}", NUL, Separator, "x", "t1", "t2"}
TwoTimes  == <<"t1", "t2">>
ShortHello == <<"{", "x", "}", Separator>>

(* Half a minute past midnight: 31 seconds away, as utils.c counts.        *)
TwoClocks == {Midnight, [Midnight EXCEPT !.sec = 30]}

(* A day.                                                                  *)
FourClocks == {Midnight, [hour |-> 0, min |-> 10, sec |-> 0],
               [hour |-> 12, min |-> 59, sec |-> 59],
               [hour |-> 23, min |-> 0, sec |-> 1]}

(* The pushes are what the server sends: each is one JSON object that has  *)
(* its own time at the top level; the marks of an object are not times.    *)
ASSUME FeedAssumption ==
  /\ \A i \in 1 .. Len(Push) :
       /\ getPushJson(Push[i], Len(Push[i])) = [start |-> 0, length |-> Len(Push[i])]
       /\ TimeOf(Push[i]) = Times[i]
  /\ \A i, j \in 1 .. Len(Times) : Times[i] = Times[j] => i = j
  /\ \A i \in 1 .. Len(Times) : Times[i] # "{" /\ Times[i] # "}"

-----------------------------------------------------------------------------
PushIndex(text) == LET S == {i \in 1 .. Len(Push) : Push[i] = text}
                   IN  IF S = {} THEN 0 ELSE CHOOSE i \in S : TRUE

(* No message is parted from its separator or loses bytes, and the service *)
(* is not started on a buffer that holds some.                             *)
Framed == faults \cap {"split", "stale", "again"} = {}

Feed == INSTANCE PushFeed WITH
          Count     <- Len(Push),
          delivered <- IF Framed
                       THEN [k \in 1 .. Len(delivered) |-> PushIndex(delivered[k])]
                       ELSE <<>>,
          saved     <- Framed /\ ~ ResumeLost

(* The callback gets whole pushes, in order, each at most once, across     *)
(* chunks and stops, with requests sent in between and from the callback,  *)
(* and across losses of power, wherever they fall but in a save: between   *)
(* the deletion of the state file and the last of its three writes, or if  *)
(* the file system fails a call of a save or of the load, the resume point *)
(* is lost and the pushes come again, in order.                            *)
ImplementsFeed == Feed!Spec

=============================================================================

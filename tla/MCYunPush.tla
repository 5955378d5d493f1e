----------------------------- MODULE MCYunPush -----------------------------
(***************************************************************************)
(* The push service under the applications of UnixPush and, in the         *)
(* environments with "yun", under parse_push.                              *)
(***************************************************************************)
EXTENDS MCUnixPush, YunPush, SequencesExt

PushInit == Init /\ YunInit /\ ("yun" \in faults \/ commandLine)

PushNext ==
  \/ "yun" \notin faults /\ Next /\ UNCHANGED yunVars
  \/ "yun" \in faults /\ YunNext

PushSpec == PushInit /\ [][PushNext]_<<vars, yunVars>>

(* The list: the node after n steps from head, NULL behind the last one,   *)
(* and the nodes behind head.                                              *)
Walk ==
  LET walk[n \in 0 .. MaxNodes + 1] ==
        IF n = 0 THEN HeadNode ELSE IF walk[n - 1] = NULL THEN NULL ELSE next[walk[n - 1]]
  IN  walk

Queue ==
  LET length == CHOOSE n \in 0 .. MaxNodes : Walk[n] # NULL /\ Walk[n + 1] = NULL
  IN  [k \in 1 .. length |-> Walk[k]]

(* The data in s that is not an empty text.                                *)
Texts(s) ==
  LET texts[k \in 0 .. Len(s)] ==
        IF k = 0 THEN <<>> ELSE IF s[k] = None THEN texts[k - 1] ELSE Append(texts[k - 1], s[k])
  IN  texts[Len(s)]

(* While parse_push runs, what the sketch was given and what the list      *)
(* holds for it are, in order, the data of every push up to the resume     *)
(* point that the server will start after next time: none is lost between  *)
(* the push service, the callback and the list, and none is given twice.   *)
(* tail is the last node of the list, and every node allocated is in it.   *)
QueueHoldsFeed ==
  "yun" \in faults =>
    LET data == fetched \o [k \in DOMAIN Queue |-> push_data[Queue[k]]]
        seen == Index(lastPushTime) - (IF Holding /\ DataOf(Message(found)) # None THEN 1 ELSE 0)
    IN  /\ Texts(data) = SubSeq(Times, 1, seen)
        /\ tail = Last(<<HeadNode>> \o Queue)
        /\ DOMAIN next = {HeadNode} \union Range(Queue)
=============================================================================

------------------------------ MODULE PushFeed ------------------------------
(***************************************************************************)
(* What a push client promises its application: pushes reach the callback  *)
(* in the order of their times, each at most once, and only pushes that    *)
(* the server published.  A push may be skipped (parse.h: pushes received  *)
(* while there is no callback "will be skipped").                          *)
(*                                                                         *)
(* The promise rests on a resume point in a store.  While the client saves *)
(* it, the store does not hold one: a crash then makes the client begin    *)
(* again with the first push, and at no other time.                        *)
(***************************************************************************)
EXTENDS Naturals, Sequences

CONSTANT Count        \* how many pushes the server will ever publish

VARIABLES published,  \* how many it has published
          delivered,  \* the pushes the callback was given since the resume
                      \* point was last lost, in order
          saved       \* the store holds a resume point

vars == <<published, delivered, saved>>

LastDelivered == IF delivered = <<>> THEN 0 ELSE delivered[Len(delivered)]

Init == published = 0 /\ delivered = <<>> /\ saved \in BOOLEAN

Publish ==
  /\ published < Count
  /\ published' = published + 1
  /\ UNCHANGED <<delivered, saved>>

Deliver(i) ==
  /\ delivered' = Append(delivered, i)
  /\ UNCHANGED <<published, saved>>

(* A save begins or ends.                                                  *)
Save ==
  /\ saved' = ~ saved
  /\ UNCHANGED <<published, delivered>>

(* A crash inside a save.                                                  *)
Forget ==
  /\ ~ saved
  /\ delivered' = <<>>
  /\ UNCHANGED <<published, saved>>

Next ==
  \/ Publish \/ Save \/ Forget
  \/ \E i \in LastDelivered + 1 .. published : Deliver(i)

Spec == Init /\ [][Next]_vars

=============================================================================

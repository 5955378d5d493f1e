---------------------------- MODULE MCRtosClient ----------------------------
(***************************************************************************)
(* RtosClient for TLC: its symmetry, and what a doc says of the id.        *)
(***************************************************************************)
EXTENDS RtosClient, TLC

CONSTANTS a1, a2, u1, u2, t1, t2, time  \* model values

(* The ids an application sets are alike, and so are generated ids and     *)
(* tokens.                                                                 *)
Symmetry == Permutations(AppIds) \cup Permutations(Uuids) \cup Permutations(Tokens)

(* parse.h: "If an installation id is not explicitly set, the SDK will     *)
(* generate a new one the first time it need it."  The server hears one id *)
(* until the application sets or clears it.                                *)
IdentityStable ==
  [][announced # Blank /\ announced' # Blank => announced' = announced]_announced

=============================================================================

---------------------------- MODULE MCUnixClient ----------------------------
(***************************************************************************)
(* UnixClient for TLC: its symmetry, and what a doc says of the token.     *)
(***************************************************************************)
EXTENDS UnixClient, TLC

CONSTANTS a1, u1, u2, t1, t2, time  \* model values

(* Tokens are alike, and so are generated ids.                             *)
Symmetry == Permutations(Tokens) \cup Permutations(Uuids)

(* parse.h: "If a session token is not set, the SDK will NOT generate one  *)
(* and will work in unauthenticated mode."                                 *)
NoTokenUnlessSet == sessionToken \in chosen \cup {None}

=============================================================================

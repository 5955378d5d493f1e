----------------------------- MODULE SimpleJson -----------------------------
(***************************************************************************)
(* The JSON object scanner of common/simplejson.c: findJsonBeginning,      *)
(* findJsonEnd, and the three functions built on them (findSecondJson,     *)
(* isCompleteJson, getPushJson).                                           *)
(*                                                                         *)
(* A buffer is a sequence of bytes.  The scanner tells apart the two       *)
(* braces, the quote, the backslash and the NUL byte; every other byte is  *)
(* payload and can be any other string.  Positions are offsets from the    *)
(* beginning of the buffer, as in C: the byte at offset p is data[p + 1].  *)
(***************************************************************************)
EXTENDS Integers, Sequences

NUL       == "NUL"
Quote     == "quote"
Backslash == "backslash"

(* The smallest offset of a set, and -1 (a NULL pointer) if it has none.   *)
First(S) ==
  IF \E p \in S : \A q \in S : p <= q
  THEN CHOOSE p \in S : \A q \in S : p <= q
  ELSE -1

-----------------------------------------------------------------------------
(* Lexical state.  "esc" is the byte a backslash inside a string makes the *)
(* loops step over, "stop" is everything from a NUL byte on; level counts  *)
(* the braces that are open.                                               *)
LexState == [mode : {"out", "str", "esc", "stop"}, level : Int]

NextMode(mode, byte) ==
  CASE mode = "stop" \/ byte = NUL -> "stop"
    [] mode = "esc" /\ byte # NUL -> "str"
    [] mode = "out" /\ byte # NUL -> IF byte = Quote THEN "str" ELSE "out"
    [] mode = "str" /\ byte # NUL -> IF byte = Quote THEN "out"
                                     ELSE IF byte = Backslash THEN "esc"
                                     ELSE "str"

(* A scanner that does not step over the byte behind a backslash.          *)
NoEscape(byte) ==
  [s \in LexState |->
     [s EXCEPT !.mode  = IF byte = Quote THEN IF @ = "str" THEN "out" ELSE "str" ELSE @,
               !.level = IF s.mode # "out" THEN @
                         ELSE IF byte = "{" THEN @ + 1
                         ELSE IF byte = "}" THEN @ - 1 ELSE @]]

(* How one byte changes the state.                                         *)
Lex(byte) ==
  [s \in LexState |->
     [mode  |-> NextMode(s.mode, byte),
      level |-> CASE s.mode = "out" /\ byte = "{" -> s.level + 1
                  [] s.mode = "out" /\ byte = "}" -> s.level - 1
                  [] OTHER -> s.level]]

(* Lexed(data, from, size)[p]: the state in which a scan that begins at    *)
(* offset from looks at the byte at offset p.                              *)
Lexed(data, from, size) ==
  LET lex[p \in from .. size] ==
        IF p = from THEN [mode |-> "out", level |-> 0]
        ELSE Lex(data[p])[lex[p - 1]]
  IN  lex

-----------------------------------------------------------------------------
(* Offset of the first '{' outside a string; -1 for NULL.                  *)
findJsonBeginningParams(data, from, size) ==
  LET lex == Lexed(data, from, size)
  IN  First({p \in from .. size - 1 : lex[p].mode = "out" /\ data[p + 1] = "{"})

(* An end that is the last '}' at level 0 received so far, not the first.  *)
LastEnd(data, from, size) ==
  LET lex  == Lexed(data, from, size)
      ends == {p \in from .. size - 1 : /\ data[p + 1] = "}"
                                        /\ lex[p].mode = "out"
                                        /\ lex[p + 1].level = 0}
  IN  IF ends = {} THEN -1 ELSE CHOOSE p \in ends : \A q \in ends : q <= p

(* Offset of the '}' that brings the level back to 0; -1 for NULL.  The    *)
(* code compares the level after every '}', one inside a string too.       *)
findJsonEndParams(data, from, size) ==
  LET lex == Lexed(data, from, size)
  IN  First({p \in from .. size - 1 : /\ data[p + 1] = "}"
                                      /\ lex[p].mode \in {"out", "str"}
                                      /\ lex[p + 1].level = 0})

(* The first JSON object of the first size bytes of data.                  *)
getPushJson(data, size) ==
  LET b == findJsonBeginningParams(data, 0, size)
      e == findJsonEndParams(data, b, size)
  IN  IF b = -1 THEN [start |-> -1, length |-> -1]
      ELSE IF e = -1 THEN [start |-> b, length |-> -1]
      ELSE [start |-> b, length |-> e - b + 1]

isCompleteJson(data) ==
  LET b == findJsonBeginningParams(data, 0, Len(data))
  IN  b # -1 /\ findJsonEndParams(data, b, Len(data)) # -1

(* A second object looked for inside the first.                            *)
SecondInsideFirst(data) ==
  LET b == findJsonBeginningParams(data, 0, Len(data))
      e == findJsonEndParams(data, b, Len(data))
  IN  IF b = -1 \/ e = -1 THEN -1
      ELSE findJsonBeginningParams(data, b + 1, Len(data))

(* The end is scanned from the byte after it in a fresh lexical state.     *)
findSecondJson(data) ==
  LET b == findJsonBeginningParams(data, 0, Len(data))
      e == findJsonEndParams(data, b, Len(data))
  IN  IF b = -1 \/ e = -1 THEN -1
      ELSE findJsonBeginningParams(data, e + 1, Len(data))

=============================================================================

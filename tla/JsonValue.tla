----------------------------- MODULE JsonValue -----------------------------
(***************************************************************************)
(* Looking up a member of a JSON object: simpleJsonProcessor of            *)
(* common/simplejson.c (unix/yun/utils.c has a copy of it), and stepping   *)
(* through an array of objects: getNextFromJSONArray and                   *)
(* getCountFromJSONArray of unix/yun/utils.c.                              *)
(*                                                                         *)
(* Offsets are as in SimpleJson.  The characters of the key that is looked *)
(* for are one byte, Key: the code compares them all at once, and where    *)
(* they stand is all that matters.  A text does not end right behind them  *)
(* (the loop would read past its end); neither does one that is an object. *)
(***************************************************************************)
EXTENDS SimpleJson, FiniteSetsExt

Key   == "key"
Space == "space"

Open  == {"{", "["}
Close == {"}", "]"}

(* The byte at an offset; the text ends with a NUL.                        *)
At(data, p) == IF p < Len(data) THEN data[p + 1] ELSE NUL

(* The first offset from p on that is not a blank.                         *)
SkipBlanks(data, p) == First({q \in p .. Len(data) : At(data, q) # Space})

(* What stands behind the key at offset p: where its value begins, or -1   *)
(* and where the search goes on.                                           *)
BehindKey(data, p) ==
  LET colon == SkipBlanks(data, p + 2)
  IN  CASE At(data, p + 1) # Quote -> [value |-> -1, next |-> p + 2]
        [] At(data, p + 1) = Quote /\ At(data, colon) # ":" -> [value |-> -1, next |-> colon + 1]
        [] OTHER -> [value |-> SkipBlanks(data, colon + 1), next |-> -1]

(* A search that takes a member of a nested object for one of the object.  *)
FindAtAnyLevel(data) ==
  LET keys == {p \in 0 .. Len(data) - 1 : At(data, p) = Key /\ BehindKey(data, p).value # -1}
  IN  IF keys = {} THEN -1 ELSE BehindKey(data, First(keys)).value

(* The first loop: the offset of the value, -1 if there is none.  The key  *)
(* is looked for before a byte is looked at as a quote or a bracket, and   *)
(* what is stepped over behind it is not looked at any more.               *)
FindValue(data) ==
  LET find[p \in 0 .. Len(data) + 2, inString \in BOOLEAN, level \in 0 .. Len(data)] ==
        LET c      == At(data, p)
            behind == BehindKey(data, p)
        IN  CASE c = NUL -> -1
              [] c = Key /\ level > 1 -> find[p + 1, inString, level]
              [] c = Key /\ level <= 1 -> IF behind.value # -1 THEN behind.value
                                          ELSE find[behind.next, inString, level]
              [] c = Quote -> find[p + 1, ~inString, level]
              [] c = Backslash /\ inString /\ At(data, p + 1) # NUL -> find[p + 2, inString, level]
              [] c \in Open /\ ~inString -> find[p + 1, inString, level + 1]
              [] c \in Close /\ ~inString -> IF level = 0 THEN -1
                                             ELSE find[p + 1, inString, level - 1]
              [] OTHER -> find[p + 1, inString, level]
  IN  find[0, FALSE, 0]

(* The second loop: the offset behind the last byte of the value that      *)
(* begins at v, Len(data) + 1 if the text ends first.  A quoted value ends *)
(* before a quote, a bare one before a comma, a quote or a bracket, an     *)
(* object or array with the bracket that closes it.                        *)
EndOfValue(data, v, kind) ==
  LET end[p \in 0 .. Len(data) + 1, inString \in BOOLEAN, level \in 0 .. Len(data)] ==
        LET c == At(data, p)
        IN  CASE c = NUL \/ (c = Backslash /\ At(data, p + 1) = NUL) -> Len(data) + 1
              [] c = Backslash /\ At(data, p + 1) # NUL -> end[p + 2, inString, level]
              [] kind = "quoted" /\ c = Quote -> p
              [] kind = "bare" /\ c \in Close \union {Quote, ","} -> p
              [] kind = "json" /\ c = Quote -> end[p + 1, ~inString, level]
              [] kind = "json" /\ c \in Open /\ ~inString -> end[p + 1, inString, level + 1]
              [] kind = "json" /\ c \in Close /\ ~inString ->
                   IF level <= 1 THEN p + 1 ELSE end[p + 1, inString, level - 1]
              [] OTHER -> end[p + 1, inString, level]
  IN  end[v, FALSE, 0]

(* At most size - 1 bytes of the value are copied; a value that is cut is  *)
(* found all the same.                                                     *)
simpleJsonProcessor(data, size) ==
  LET v    == FindValue(data)
      kind == CASE At(data, v) \in Open -> "json"
                [] At(data, v) = Quote -> "quoted"
                [] OTHER -> "bare"
      from == IF kind = "quoted" THEN v + 1 ELSE v
      end  == EndOfValue(data, from, kind)
      last == Min({end, from + size - 1, Len(data)})
  IN  IF v = -1 \/ At(data, v) = NUL THEN [found |-> FALSE, value |-> <<>>]
      ELSE [found |-> end <= Len(data) \/ last < Len(data),
            value |-> SubSeq(data, from + 1, last)]

-----------------------------------------------------------------------------
(* An object that ends with the first closing brace.                       *)
UpToFirstBrace(data, begin) ==
  LET stop  == First({p \in begin .. Len(data) - 1 : At(data, p) = "}"})
      start == First({p \in begin .. stop : At(data, p) = "{"})
  IN  [start |-> start, size |-> IF start = -1 THEN 0 ELSE stop - start + 1]

(* unix/yun/utils.c: the first object from an offset on; strings are not   *)
(* told apart from the rest of the text.                                   *)
getNextFromJSONArray(data, begin) ==
  LET depth[p \in begin .. Len(data)] ==  \* open braces before offset p
        IF p = begin THEN 0
        ELSE CASE At(data, p - 1) = "{" -> depth[p - 1] + 1
               [] At(data, p - 1) = "}" /\ depth[p - 1] > 0 -> depth[p - 1] - 1
               [] OTHER -> depth[p - 1]
      \* a brace that closes nothing ends the search too
      stop  == First({p \in begin .. Len(data) - 1 : At(data, p) = "}" /\ depth[p + 1] = 0})
      start == First({p \in begin .. Len(data) - 1 : At(data, p) = "{" /\ (stop = -1 \/ p < stop)})
  IN  [start |-> start,
       size  |-> CASE start = -1 -> 0
                   [] start # -1 /\ stop = -1 -> Len(data) - start
                   [] OTHER -> stop - start + 1]

(* Counting goes on behind each object, as the answers to queries are      *)
(* split by arduinoQueryHandler.                                           *)
getCountFromJSONArray(data) ==
  LET count[begin \in 0 .. Len(data)] ==
        LET next == getNextFromJSONArray(data, begin)
        IN  IF next.start = -1 THEN 0 ELSE 1 + count[next.start + next.size]
  IN  count[0]
=============================================================================

---------------------------- MODULE MCSimpleJson ----------------------------
(***************************************************************************)
(* Model checking of the scanner on every byte stream of at most MaxLen    *)
(* bytes, received one byte at a time as the push connection receives it,  *)
(* against a definition of "the first JSON object" that has no scanner;    *)
(* and of the lookup of a member on every object of at most MaxMembers     *)
(* members, against the members it is written from.                        *)
(***************************************************************************)
EXTENDS JsonValue, SequencesExt

CONSTANTS Bytes,       \* the bytes that can arrive
          MaxLen,      \* bound on the length of the stream
          Names,       \* the names a member can have
          Values,      \* the values, as they are written
          MaxMembers,  \* bound on the members of an object
          Sizes        \* the sizes of the buffer for a value

ASSUME MaxLen \in Nat /\ MaxMembers \in Nat

VARIABLES data,    \* the byte stream, or
          members  \* the members of the object

Init == data = <<>> /\ members = <<>>

Arrive(byte) ==
  /\ members = <<>> /\ Len(data) < MaxLen
  /\ data' = Append(data, byte) /\ UNCHANGED members

Write(member) ==
  /\ data = <<>> /\ Len(members) < MaxMembers
  /\ members' = Append(members, member) /\ UNCHANGED data

Next ==
  \/ \E byte \in Bytes : Arrive(byte)
  \/ \E member \in [name : Names, value : Values] : Write(member)

Spec == Init /\ [][Next]_<<data, members>>

-----------------------------------------------------------------------------
(* Reference: which bytes are structure, from the text alone.              *)

(* The offsets of the text: everything before the first NUL.               *)
Text == {p \in 0 .. Len(data) - 1 : \A q \in 0 .. p : data[q + 1] # NUL}

(* Number of backslashes in a row right before offset p.                   *)
BackslashesBefore(p) ==
  Cardinality({q \in 0 .. p - 1 : \A r \in q .. p - 1 : data[r + 1] = Backslash})

Odd(n) == n % 2 = 1

(* The quotes that open or close a string: every quote but the ones that   *)
(* stand inside a string behind an odd number of backslashes.              *)
Delimiters ==
  CHOOSE D \in SUBSET {p \in Text : data[p + 1] = Quote} :
    \A p \in Text :
      p \in D <=> /\ data[p + 1] = Quote
                  /\ ~ (/\ Odd(Cardinality({q \in D : q < p}))
                        /\ Odd(BackslashesBefore(p)))

Outside(p) == ~ Odd(Cardinality({q \in Delimiters : q < p}))

Braces(byte, from, to) ==
  Cardinality({p \in Text : /\ p \in from .. to
                            /\ data[p + 1] = byte
                            /\ Outside(p)})

(* Where the first object begins, and the first offset up to which it has  *)
(* as many closing braces as opening ones.                                 *)
RefPushJson ==
  LET begins == {p \in Text : data[p + 1] = "{" /\ Outside(p)}
      b      == First(begins)
      e      == First({p \in Text : p > b /\ Braces("{", b, p) = Braces("}", b, p)})
  IN  CASE begins = {} -> [start |-> -1, length |-> -1]
        [] begins # {} /\ e = -1 -> [start |-> b, length |-> -1]
        [] begins # {} /\ e # -1 -> [start |-> b, length |-> e - b + 1]

-----------------------------------------------------------------------------
(* getPushJson finds exactly the first object of the text: neither a brace *)
(* inside a string nor an escaped quote nor a nested object moves its      *)
(* beginning or its end.                                                   *)
MatchesReference == getPushJson(data, Len(data)) = RefPushJson

(* findSecondJson returns an object only when the first one is complete,   *)
(* and then the one getPushJson finds in what follows the first: callers   *)
(* may step from object to object with either of them.                     *)
SecondMatchesRest ==
  LET f    == getPushJson(data, Len(data))
      from == f.start + f.length
      rest == SubSeq(data, from + 1, Len(data))
      s    == getPushJson(rest, Len(rest))
  IN  /\ isCompleteJson(data) <=> f.length # -1
      /\ findSecondJson(data) =
           IF f.length = -1 \/ s.start = -1 THEN -1 ELSE from + s.start

(* The push receivers scan the whole buffer again after every recv.  That  *)
(* is sound because bytes that arrive later never move the beginning of an *)
(* object that was found, nor the end of a complete one.                   *)
LaterBytesChangeNothing ==
  [][LET old == getPushJson(data, Len(data))
         new == getPushJson(data', Len(data'))
     IN  /\ old.start # -1 => new.start = old.start
         /\ old.length # -1 => new.length = old.length]_data

-----------------------------------------------------------------------------
(* The object and the array of objects that the members are written as.    *)
Quoted(text) == <<Quote>> \o text \o <<Quote>>

Written(member) == Quoted(member.name) \o <<Space, ":">> \o member.value

Commas(texts) ==
  FlattenSeq([k \in DOMAIN texts |-> IF k = 1 THEN texts[k] ELSE <<",">> \o texts[k]])

Object == <<"{">> \o Commas([k \in DOMAIN members |-> Written(members[k])]) \o <<"}">>

Array ==
  <<"[">> \o Commas([k \in DOMAIN members |-> <<"{">> \o Written(members[k]) \o <<"}">>]) \o <<"]">>

(* The value of a member without its quotes, in a buffer of a size.        *)
Contents(value, size) ==
  LET text == IF value[1] = Quote THEN SubSeq(value, 2, Len(value) - 1) ELSE value
  IN  SubSeq(text, 1, Min({Len(text), size - 1}))

(* What the scanner takes for the key, or loses its place in: a name that  *)
(* only ends with the key, a string that has the key before its end or     *)
(* before a backslash.                                                     *)
Lookalike(member) ==
  LET name == member.name
      v    == member.value
  IN  \/ Len(name) > 1 /\ Last(name) = Key
      \/ v[1] = Quote /\ \E k \in 1 .. Len(v) - 1 : v[k] = Key /\ v[k + 1] \in {Quote, Backslash}

(* simpleJsonProcessor returns the value of the first member of the object *)
(* that has the key as its name, cut to the buffer, and nothing if there   *)
(* is none: not a member of a nested object, not a value, whatever quotes  *)
(* and brackets the values before it contain.  It is so for objects        *)
(* without a lookalike of the key.                                         *)
MemberFound ==
  LET hits == {k \in DOMAIN members : members[k].name = <<Key>>}
  IN  (\A k \in DOMAIN members : ~Lookalike(members[k])) =>
        \A size \in Sizes :
          simpleJsonProcessor(Object, size) =
            IF hits = {} THEN [found |-> FALSE, value |-> <<>>]
            ELSE [found |-> TRUE, value |-> Contents(members[Min(hits)].value, size)]

(* Each closing brace of a value has a brace before it to close, and each  *)
(* opening one is closed, whether or not they stand inside a string.       *)
BracesPair(value) ==
  LET braces(b, n) == Cardinality({k \in 1 .. n : value[k] = b})
  IN  /\ \A n \in 1 .. Len(value) : braces("}", n) <= braces("{", n)
      /\ braces("}", Len(value)) = braces("{", Len(value))

(* The objects of a query's answer are counted, and so split, one by one,  *)
(* nested objects included, unless the braces of a value, those of its     *)
(* strings among them, do not pair up: a brace that is missing, or one     *)
(* that closes before the one that opens ("}{"), ends an object early or   *)
(* joins two.                                                              *)
ObjectsCounted ==
  (\A k \in DOMAIN members : BracesPair(members[k].value)) =>
    getCountFromJSONArray(Array) = Len(members)

(* Names and values with the key in each place it can stand.               *)
MCNames == {<<Key>>, <<"x">>, <<Key, "x">>, <<"x", Key>>}
MCValues == {Quoted(<<>>), Quoted(<<Key>>), Quoted(<<Key, "x">>), Quoted(<<"{", "x">>),
             Quoted(<<"}", "{">>), Quoted(<<"{", "}">>),
             Quoted(<<Backslash, Quote, "]">>), <<"x", "x">>,
             <<"{">> \o Quoted(<<Key>>) \o <<":", "x", "}">>,
             <<"[", "{">> \o Quoted(<<"x">>) \o <<":">> \o Quoted(<<"}">>) \o <<"}", ",", "x", "]">>}
=============================================================================

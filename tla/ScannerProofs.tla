---------------------------- MODULE ScannerProofs ----------------------------
(***************************************************************************)
(* What the scanner finds in a stream of bytes that grows, for every set   *)
(* of bytes and streams of every length: the results of MCSimpleJson about *)
(* findJsonBeginning, findJsonEnd, getPushJson and findSecondJson without  *)
(* the bound on the length.                                                *)
(***************************************************************************)
EXTENDS MCSimpleJson, SimpleJsonProofs, FiniteSetTheorems

vars == <<data, members>>

(* The stream consists of bytes that can arrive.                           *)
StreamOK == data \in Seq(Bytes)

LEMMA StreamInvariant == Spec => []StreamOK
<1>1. Init => StreamOK
  BY DEF Init, StreamOK
<1>2. StreamOK /\ [Next]_vars => StreamOK'
  BY DEF StreamOK, Next, Arrive, Write, vars
<1> QED BY <1>1, <1>2, PTL DEF Spec, vars

-----------------------------------------------------------------------------
(* Bytes that arrive later move neither the beginning of an object that    *)
(* getPushJson found nor the end of a complete one.                        *)
THEOREM ScanIsStable == Spec => LaterBytesChangeNothing
<1> DEFINE A == LET old == getPushJson(data, Len(data))
                    new == getPushJson(data', Len(data'))
                IN  /\ old.start # -1 => new.start = old.start
                    /\ old.length # -1 => new.length = old.length
<1>1. StreamOK /\ [Next]_vars => [A]_data
  <2> SUFFICES ASSUME StreamOK, NEW byte \in Bytes, Arrive(byte) PROVE A
    BY DEF Next, Write, vars
  <2>1. /\ data' = Append(data, byte) /\ data \in Seq(Bytes)
        /\ Len(data) \in Nat /\ Len(data') \in Nat /\ Len(data) <= Len(data')
        /\ \A i \in 1 .. Len(data) : data[i] = data'[i]
    BY DEF Arrive, StreamOK
  <2>2. Grows(data, Len(data), data', Len(data'))
    BY <2>1 DEF Grows
  <2>3. Stays(getPushJson(data, Len(data)), getPushJson(data', Len(data')))
    BY <2>2, PushJsonStable
  <2> QED BY <2>3 DEF Stays
<1>. HIDE DEF A
<1>2. Spec => [][A]_data
  BY <1>1, StreamInvariant, PTL DEF Spec, vars
<1> QED BY <1>2 DEF A, LaterBytesChangeNothing

-----------------------------------------------------------------------------
(* findSecondJson, and what getPushJson finds behind the first object.     *)
LEMMA SecondIs ==
  ASSUME NEW S, NEW d \in Seq(S)
  PROVE  LET f    == getPushJson(d, Len(d))
             from == f.start + f.length
             rest == SubSeq(d, from + 1, Len(d))
             s    == getPushJson(rest, Len(rest))
         IN  /\ isCompleteJson(d) <=> f.length # -1
             /\ findSecondJson(d) =
                  IF f.length = -1 \/ s.start = -1 THEN -1 ELSE from + s.start
<1> DEFINE n == Len(d)
           b == First(Begins(d, 0, n))
           e == First(Ends(d, b, n))
           f == getPushJson(d, n)
           rest == SubSeq(d, f.start + f.length + 1, n)
           c == First(Begins(rest, 0, Len(rest)))
           s == getPushJson(rest, Len(rest))
<1>. n \in Nat
  OBVIOUS
<1>1. b \in (0 .. n - 1) \cup {-1}
  BY BeginningRange, BeginningIsFirst
<1>2. b # -1 => e \in (b .. n - 1) \cup {-1}
  BY <1>1, EndRange, EndIsFirst
<1>3. f = IF b = -1 THEN [start |-> -1, length |-> -1]
          ELSE IF e = -1 THEN [start |-> b, length |-> -1]
          ELSE [start |-> b, length |-> e - b + 1]
  BY PushJsonIs
<1>4. isCompleteJson(d) <=> b # -1 /\ e # -1
  BY BeginningIsFirst, EndIsFirst DEF isCompleteJson
<1>5. findSecondJson(d) = IF b = -1 \/ e = -1 THEN -1 ELSE First(Begins(d, e + 1, n))
  BY BeginningIsFirst, EndIsFirst DEF findSecondJson
<1>6. s.start = c
  BY PushJsonIs
<1>. HIDE DEF b, e, f, c, s
<1>7. isCompleteJson(d) <=> f.length # -1
  BY <1>1, <1>2, <1>3, <1>4
<1>8. ASSUME b # -1, e # -1
      PROVE  c \in Int /\ First(Begins(d, e + 1, n)) = IF c = -1 THEN -1 ELSE e + 1 + c
  <2>1. PICK k \in Nat : k = e + 1 /\ k <= n
    BY <1>1, <1>2, <1>8
  <2>2. f.start + f.length = k
    BY <1>1, <1>2, <1>3, <1>8, <2>1
  <2>3. Len(rest) = n - k /\ \A i \in 1 .. n - k : rest[i] = d[k + i]
    BY <2>1, <2>2
  <2>. HIDE DEF rest, n
  <2>4. Stretch(rest, 0, Len(rest), d, k, n)
    BY <2>1, <2>3 DEF Stretch
  <2>5. SameFirst(Begins(rest, 0, Len(rest)), Len(rest), Begins(d, k, n), n, k - 0)
    BY <2>4, BeginningsAgree
  <2>6. c \in (0 .. Len(rest) - 1) \cup {-1}
    BY <2>1, <2>3, BeginningRange, BeginningIsFirst DEF c
  <2>7. n = Len(rest) + (k - 0)
    BY <2>1, <2>3
  <2>8. /\ c # -1 => First(Begins(d, k, n)) = c + (k - 0)
        /\ c = -1 => First(Begins(d, k, n)) = -1
    BY <2>5, <2>7 DEF SameFirst, c
  <2> QED BY <2>1, <2>3, <2>6, <2>8
<1>9. findSecondJson(d) =
        IF f.length = -1 \/ s.start = -1 THEN -1 ELSE f.start + f.length + s.start
  <2>1. CASE b = -1 \/ e = -1
    BY <1>3, <1>5, <2>1
  <2>2. CASE b # -1 /\ e # -1
    <3>1. f.start + f.length = e + 1 /\ f.length # -1
      BY <1>1, <1>2, <1>3, <2>2
    <3> QED BY <1>5, <1>6, <1>8, <2>2, <3>1
  <2> QED BY <2>1, <2>2
<1> QED BY <1>7, <1>9 DEF f, s

(* Stepping from object to object with findSecondJson and with getPushJson *)
(* is the same.                                                            *)
THEOREM SecondIsNext == Spec => []SecondMatchesRest
<1>1. StreamOK => SecondMatchesRest
  BY SecondIs DEF StreamOK, SecondMatchesRest
<1> QED BY <1>1, StreamInvariant, PTL

-----------------------------------------------------------------------------
(* The scanner and the reference.  The mode in which a scan of the whole   *)
(* stream looks at an offset, and the text before it.                      *)
Mode(p) == Lexed(data, 0, Len(data))[p].mode

Clean(p) == \A q \in 0 .. p - 1 : data[q + 1] # NUL

Modes == {"out", "str", "esc", "stop"}

LEMMA ModeStep ==
  ASSUME StreamOK, NEW p \in 0 .. Len(data) - 1
  PROVE  /\ Mode(p) \in Modes /\ Mode(p + 1) \in Modes
         /\ Mode(p + 1) = NextMode(Mode(p), data[p + 1])
<1>1. Len(data) \in Int /\ 0 \in Int
  BY DEF StreamOK
<1> QED BY <1>1, ScanStep DEF Mode, Modes, LexState

LEMMA ModeStart == ASSUME StreamOK PROVE Mode(0) = "out"
<1>1. Len(data) \in Int /\ 0 \in Int /\ 0 <= Len(data)
  BY DEF StreamOK
<1> QED BY <1>1, LexedDef DEF Mode, Start

(* A scan stops at the first NUL, as the text does.                        *)
LEMMA StopsAtNul ==
  ASSUME StreamOK
  PROVE  \A p \in 0 .. Len(data) : Mode(p) = "stop" <=> ~ Clean(p)
<1> DEFINE T == {p \in Nat : p <= Len(data) => (Mode(p) = "stop" <=> ~ Clean(p))}
<1>. Len(data) \in Nat
  BY DEF StreamOK
<1>1. 0 \in T
  BY ModeStart DEF Clean
<1>2. ASSUME NEW p \in Nat, p \in T PROVE p + 1 \in T
  <2> SUFFICES ASSUME p + 1 <= Len(data) PROVE Mode(p + 1) = "stop" <=> ~ Clean(p + 1)
    OBVIOUS
  <2>1. Mode(p) = "stop" <=> ~ Clean(p)
    BY <1>2
  <2>2. Mode(p + 1) = "stop" <=> Mode(p) = "stop" \/ data[p + 1] = NUL
    <3>1. Mode(p) \in Modes /\ Mode(p + 1) = NextMode(Mode(p), data[p + 1])
      BY ModeStep
    <3> QED BY <3>1 DEF NextMode, Modes
  <2>3. Clean(p + 1) <=> Clean(p) /\ data[p + 1] # NUL
    BY DEF Clean
  <2> QED BY <2>1, <2>2, <2>3
<1>3. \A p \in Nat : p \in T
  <2>. HIDE DEF T
  <2> QED BY <1>1, <1>2, InductionSet
<1> QED BY <1>3

LEMMA TextIs ==
  ASSUME StreamOK
  PROVE  Text = {p \in 0 .. Len(data) - 1 : Mode(p) # "stop" /\ data[p + 1] # NUL}
<1>. Len(data) \in Nat
  BY DEF StreamOK
<1>1. ASSUME NEW p \in 0 .. Len(data) - 1
      PROVE  (\A q \in 0 .. p : data[q + 1] # NUL) <=> Mode(p) # "stop" /\ data[p + 1] # NUL
  <2>1. Mode(p) = "stop" <=> ~ Clean(p)
    BY StopsAtNul
  <2> QED BY <2>1 DEF Clean
<1> QED BY <1>1 DEF Text

LEMMA TextFinite == ASSUME StreamOK PROVE IsFiniteSet(Text) /\ Text \subseteq Nat
<1>1. Len(data) \in Nat
  BY DEF StreamOK
<1>2. IsFiniteSet(0 .. Len(data) - 1)
  BY <1>1, FS_Interval
<1>3. Text \in SUBSET (0 .. Len(data) - 1)
  BY DEF Text
<1>4. IsFiniteSet(Text)
  BY <1>2, <1>3, FS_Subset, Zenon
<1> QED BY <1>1, <1>3, <1>4

LEMMA TextClosed ==
  ASSUME StreamOK, NEW m \in Text, NEW p \in Nat, p <= m
  PROVE  p \in Text
<1>1. Len(data) \in Nat
  BY DEF StreamOK
<1> QED BY <1>1 DEF Text

-----------------------------------------------------------------------------
(* How the counts of the reference grow by one offset.                     *)
Before(D, p) == {q \in D : q < p}

LEMMA BeforeStep ==
  ASSUME StreamOK, NEW D \in SUBSET Text, NEW p \in Nat
  PROVE  /\ Cardinality(Before(D, p)) \in Nat
         /\ Cardinality(Before(D, p + 1)) =
              IF p \in D THEN Cardinality(Before(D, p)) + 1 ELSE Cardinality(Before(D, p))
<1>1. IsFiniteSet(Before(D, p))
  BY TextFinite, FS_Subset DEF Before
<1>2. Before(D, p + 1) = IF p \in D THEN Before(D, p) \cup {p} ELSE Before(D, p)
  BY TextFinite DEF Before
<1>3. p \notin Before(D, p)
  BY DEF Before
<1> QED BY <1>1, <1>2, <1>3, FS_AddElement, FS_CardinalityType

LEMMA BackslashesStep ==
  ASSUME NEW p \in Nat
  PROVE  /\ BackslashesBefore(p) \in Nat
         /\ BackslashesBefore(p + 1) =
              IF data[p + 1] = Backslash THEN BackslashesBefore(p) + 1 ELSE 0
<1> DEFINE B(k) == {q \in 0 .. k - 1 : \A r \in q .. k - 1 : data[r + 1] = Backslash}
<1>1. IsFiniteSet(B(p))
  <2>1. IsFiniteSet(0 .. p - 1)
    BY FS_Interval
  <2> QED BY <2>1, FS_Subset
<1>2. data[p + 1] = Backslash => B(p + 1) = B(p) \cup {p}
  OBVIOUS
<1>3. data[p + 1] # Backslash => B(p + 1) = {}
  OBVIOUS
<1>4. p \notin B(p)
  OBVIOUS
<1>5. BackslashesBefore(p) = Cardinality(B(p)) /\ BackslashesBefore(p + 1) = Cardinality(B(p + 1))
  BY DEF BackslashesBefore
<1>. HIDE DEF B
<1>6. Cardinality(B(p)) \in Nat
  BY <1>1, FS_CardinalityType
<1>7. Cardinality(B(p) \cup {p}) = Cardinality(B(p)) + 1
  BY <1>1, <1>4, FS_AddElement
<1> QED BY <1>2, <1>3, <1>5, <1>6, <1>7, FS_EmptySet

-----------------------------------------------------------------------------
(* The mode in the terms of the reference, for a set D of delimiters.      *)
InStep(D, p) ==
  LET inside == Odd(Cardinality(Before(D, p)))
  IN  /\ Mode(p) = "out" <=> ~ inside
      /\ Mode(p) = "esc" <=> inside /\ Odd(BackslashesBefore(p))

Delimits(D, p) == p \in D <=> data[p + 1] = Quote /\ Mode(p) \in {"out", "str"}

LEMMA OddStep ==
  ASSUME NEW k \in Nat
  PROVE  Odd(k + 1) <=> ~ Odd(k)
BY DEF Odd

LEMMA DelimiterStep ==
  ASSUME StreamOK, NEW D \in SUBSET Text, NEW p \in Text, InStep(D, p), Delimits(D, p)
  PROVE  InStep(D, p + 1)
<1> DEFINE c == Cardinality(Before(D, p))
           k == BackslashesBefore(p)
           byte == data[p + 1]
<1>1. /\ p \in 0 .. Len(data) - 1 /\ p \in Nat /\ Mode(p) # "stop" /\ byte # NUL
  BY TextIs, TextFinite
<1>2. c \in Nat /\ Cardinality(Before(D, p + 1)) = IF p \in D THEN c + 1 ELSE c
  BY <1>1, BeforeStep
<1>3. k \in Nat /\ BackslashesBefore(p + 1) = IF byte = Backslash THEN k + 1 ELSE 0
  BY <1>1, BackslashesStep
<1>4. Mode(p) \in {"out", "str", "esc"} /\ Mode(p + 1) = NextMode(Mode(p), byte)
  BY <1>1, ModeStep DEF Modes
<1>5. /\ Mode(p) = "out" <=> ~ Odd(c)
      /\ Mode(p) = "esc" <=> Odd(c) /\ Odd(k)
  BY DEF InStep
<1>6. p \in D <=> byte = Quote /\ Mode(p) \in {"out", "str"}
  BY DEF Delimits
<1>7. (Odd(c + 1) <=> ~ Odd(c)) /\ (Odd(k + 1) <=> ~ Odd(k)) /\ ~ Odd(0)
  BY <1>2, <1>3, OddStep DEF Odd
<1>8. Odd(Cardinality(Before(D, p + 1))) <=> IF p \in D THEN ~ Odd(c) ELSE Odd(c)
  BY <1>2, <1>7
<1>9. Odd(BackslashesBefore(p + 1)) <=> byte = Backslash /\ ~ Odd(k)
  BY <1>3, <1>7
<1>10. Quote # Backslash
  BY DEF Quote, Backslash
<1>11. /\ Mode(p + 1) = "out" <=> (Mode(p) = "out" /\ byte # Quote) \/ (Mode(p) = "str" /\ byte = Quote)
       /\ Mode(p + 1) = "esc" <=> Mode(p) = "str" /\ byte = Backslash
  BY <1>1, <1>4, <1>10 DEF NextMode
<1>. HIDE DEF c, k, byte
<1>12. Mode(p + 1) = "out" <=> ~ Odd(Cardinality(Before(D, p + 1)))
  BY <1>4, <1>5, <1>6, <1>8, <1>11
<1>13. Mode(p + 1) = "esc" <=> /\ Odd(Cardinality(Before(D, p + 1)))
                               /\ Odd(BackslashesBefore(p + 1))
  BY <1>4, <1>5, <1>6, <1>8, <1>9, <1>10, <1>11
<1> QED BY <1>12, <1>13 DEF InStep

(* A set that holds the right quotes as long as it was right so far, is    *)
(* right up to the end of the text.                                        *)
LEMMA DelimitersFollow ==
  ASSUME StreamOK, NEW D \in SUBSET Text,
         \A p \in Text : InStep(D, p) => Delimits(D, p)
  PROVE  \A p \in Text : InStep(D, p)
<1> DEFINE T == {p \in Nat : p \in Text => InStep(D, p)}
<1>1. 0 \in T
  <2>1. Before(D, 0) = {}
    BY TextFinite DEF Before
  <2>2. BackslashesBefore(0) = Cardinality({})
    BY DEF BackslashesBefore
  <2> QED BY <2>1, <2>2, FS_EmptySet, ModeStart DEF InStep, Odd
<1>2. ASSUME NEW p \in Nat, p \in T PROVE p + 1 \in T
  <2> SUFFICES ASSUME p + 1 \in Text PROVE InStep(D, p + 1)
    OBVIOUS
  <2>1. p \in Text
    BY DEF Text
  <2> QED BY <1>2, <2>1, DelimiterStep
<1>3. \A p \in Nat : p \in T
  <2>. HIDE DEF T
  <2> QED BY <1>1, <1>2, InductionSet
<1> QED BY <1>3, TextFinite

(* The delimiters of the reference exist, and a byte is outside of every   *)
(* string exactly where the scanner is.                                    *)
LEMMA OutsideIsOut ==
  ASSUME StreamOK
  PROVE  \A p \in Text : Outside(p) <=> Mode(p) = "out"
<1> DEFINE Right(D) == \A p \in Text :
                         p \in D <=> /\ data[p + 1] = Quote
                                     /\ ~ (/\ Odd(Cardinality({q \in D : q < p}))
                                           /\ Odd(BackslashesBefore(p)))
           Quotes == {p \in Text : data[p + 1] = Quote}
           D0 == {p \in Text : data[p + 1] = Quote /\ Mode(p) \in {"out", "str"}}
<1>1. \A p \in Text : Mode(p) \in {"out", "str", "esc"}
  <2>1. \A p \in Text : p \in 0 .. Len(data) - 1 /\ Mode(p) # "stop"
    BY TextIs
  <2> QED BY <2>1, ModeStep DEF Modes
<1>2. D0 \in SUBSET Quotes /\ Right(D0)
  <2>1. D0 \in SUBSET Text /\ \A p \in Text : Delimits(D0, p)
    BY DEF Delimits
  <2>2. \A p \in Text : InStep(D0, p)
    <3>. HIDE DEF D0
    <3> QED BY <2>1, DelimitersFollow
  <2>. HIDE DEF D0
  <2>3. Right(D0)
    BY <1>1, <2>1, <2>2 DEF Delimits, InStep, Before
  <2> QED BY <2>3 DEF D0
<1>3. Delimiters \in SUBSET Quotes /\ Right(Delimiters)
  <2>1. Delimiters = CHOOSE D \in SUBSET Quotes : Right(D)
    BY DEF Delimiters
  <2>2. \E D \in SUBSET Quotes : Right(D)
    BY <1>2
  <2>. HIDE DEF Quotes, Right
  <2> QED BY <2>1, <2>2
<1>4. Delimiters \in SUBSET Text
  BY <1>3
<1>5. \A p \in Text : InStep(Delimiters, p) => Delimits(Delimiters, p)
  BY <1>1, <1>3 DEF Delimits, InStep, Before
<1>6. \A p \in Text : InStep(Delimiters, p)
  BY <1>4, <1>5, DelimitersFollow
<1> QED BY <1>6 DEF InStep, Before, Outside

-----------------------------------------------------------------------------
(* Where an object begins.                                                 *)
RefBegins == {p \in Text : data[p + 1] = Brace1 /\ Outside(p)}

LEMMA BeginsAre == ASSUME StreamOK PROVE Begins(data, 0, Len(data)) = RefBegins
<1>1. ASSUME NEW p \in 0 .. Len(data) - 1, data[p + 1] = Brace1, Mode(p) = "out"
      PROVE  p \in Text
  BY <1>1, TextIs, BracesDiffer
<1>2. \A p \in Text : p \in 0 .. Len(data) - 1
  BY DEF Text
<1>3. Begins(data, 0, Len(data)) =
        {p \in 0 .. Len(data) - 1 : Mode(p) = "out" /\ data[p + 1] = Brace1}
  BY DEF Begins, Mode
<1> QED BY <1>1, <1>2, <1>3, OutsideIsOut DEF RefBegins

(* The scan for the end begins anew at the first brace, in the mode the    *)
(* first scan has there, so the two are in the same mode from there on.    *)
LEMMA SameModes ==
  ASSUME StreamOK, NEW b \in 0 .. Len(data) - 1, Mode(b) = "out"
  PROVE  \A p \in b .. Len(data) : Lexed(data, b, Len(data))[p].mode = Mode(p)
<1> DEFINE n == Len(data)
           L == Lexed(data, b, n)
           T == {j \in Nat : b + j <= n => L[b + j].mode = Mode(b + j)}
<1>. n \in Nat /\ b \in Nat
  BY DEF StreamOK
<1>1. 0 \in T
  <2>1. L[b] = Start
    <3>1. b \in Int /\ n \in Int /\ b <= n
      OBVIOUS
    <3> QED BY <3>1, LexedDef, Zenon
  <2> QED BY <2>1 DEF Start
<1>2. ASSUME NEW j \in Nat, j \in T PROVE j + 1 \in T
  <2> SUFFICES ASSUME b + (j + 1) <= n PROVE L[b + (j + 1)].mode = Mode(b + (j + 1))
    OBVIOUS
  <2>1. PICK p \in Nat : p = b + j /\ p + 1 = b + (j + 1)
    OBVIOUS
  <2>2. p \in b .. n - 1 /\ p \in 0 .. n - 1
    BY <2>1
  <2>3. L[p].mode = Mode(p)
    BY <1>2, <2>1, <2>2
  <2>4. L[p + 1].mode = NextMode(L[p].mode, data[p + 1])
    BY <2>2, ScanStep
  <2>5. Mode(p + 1) = NextMode(Mode(p), data[p + 1])
    BY <2>2, ModeStep
  <2>. HIDE DEF L, n
  <2> QED BY <2>1, <2>3, <2>4, <2>5
<1>3. \A j \in Nat : j \in T
  <2>. HIDE DEF T
  <2> QED BY <1>1, <1>2, InductionSet
<1>4. ASSUME NEW p \in b .. n PROVE L[p].mode = Mode(p)
  <2>1. p - b \in Nat /\ b + (p - b) = p
    OBVIOUS
  <2> QED BY <1>3, <2>1
<1> QED BY <1>4

(* How the number of braces grows by one offset.                           *)
LEMMA BracesStep ==
  ASSUME StreamOK, NEW byte, NEW b \in Nat, NEW p \in Text, b <= p
  PROVE  /\ Braces(byte, b, p) \in Nat /\ Braces(byte, b, p - 1) \in Nat
         /\ Braces(byte, b, p) = IF data[p + 1] = byte /\ Outside(p)
                                 THEN Braces(byte, b, p - 1) + 1
                                 ELSE Braces(byte, b, p - 1)
<1> DEFINE B(k) == {q \in Text : q \in b .. k /\ data[q + 1] = byte /\ Outside(q)}
<1>. p \in Nat
  BY TextFinite
<1>1. B(p) \in SUBSET Text /\ B(p - 1) \in SUBSET Text
  OBVIOUS
<1>2. B(p) = IF data[p + 1] = byte /\ Outside(p) THEN B(p - 1) \cup {p} ELSE B(p - 1)
  <2>1. \A q \in Text : q \in b .. p <=> q \in b .. p - 1 \/ q = p
    BY TextFinite
  <2> QED BY <2>1
<1>3. p \notin B(p - 1)
  OBVIOUS
<1>4. Braces(byte, b, p) = Cardinality(B(p)) /\ Braces(byte, b, p - 1) = Cardinality(B(p - 1))
  BY DEF Braces
<1>. HIDE DEF B
<1>5. IsFiniteSet(B(p)) /\ IsFiniteSet(B(p - 1))
  BY <1>1, TextFinite, FS_Subset, Zenon
<1>6. Cardinality(B(p)) \in Nat /\ Cardinality(B(p - 1)) \in Nat
  BY <1>5, FS_CardinalityType
<1>7. Cardinality(B(p - 1) \cup {p}) = Cardinality(B(p - 1)) + 1
  BY <1>3, <1>5, FS_AddElement
<1> QED BY <1>2, <1>4, <1>6, <1>7

(* The level of the scan for the end is the number of open braces.         *)
LEMMA LevelCounts ==
  ASSUME StreamOK, NEW b \in Text, Mode(b) = "out"
  PROVE  \A p \in Text : p >= b =>
           /\ Lexed(data, b, Len(data))[p + 1].level \in Int
           /\ Braces(Brace1, b, p) \in Nat /\ Braces(Brace2, b, p) \in Nat
           /\ Lexed(data, b, Len(data))[p + 1].level =
                Braces(Brace1, b, p) - Braces(Brace2, b, p)
<1> DEFINE n == Len(data)
           L == Lexed(data, b, n)
           T == {j \in Nat : b + j \in Text =>
                  /\ L[(b + j) + 1].level \in Int
                  /\ Braces(Brace1, b, b + j) \in Nat /\ Braces(Brace2, b, b + j) \in Nat
                  /\ L[(b + j) + 1].level = Braces(Brace1, b, b + j) - Braces(Brace2, b, b + j)}
<1>. n \in Nat /\ b \in Nat /\ b \in 0 .. n - 1
  BY TextIs DEF StreamOK
<1>0. ASSUME NEW p \in Text, p >= b, L[p].level = Braces(Brace1, b, p - 1) - Braces(Brace2, b, p - 1)
      PROVE  /\ L[p + 1].level \in Int
             /\ Braces(Brace1, b, p) \in Nat /\ Braces(Brace2, b, p) \in Nat
             /\ L[p + 1].level = Braces(Brace1, b, p) - Braces(Brace2, b, p)
  <2>1. p \in b .. n - 1 /\ p \in Nat
    BY <1>0, TextIs, TextFinite
  <2>2. /\ L[p + 1] \in LexState
        /\ L[p + 1].level = IF L[p].mode = "out" /\ data[p + 1] = Brace1 THEN L[p].level + 1
                            ELSE IF L[p].mode = "out" /\ data[p + 1] = Brace2 THEN L[p].level - 1
                            ELSE L[p].level
    <3>1. b \in Int /\ n \in Int
      OBVIOUS
    <3> QED BY <2>1, <3>1, ScanStep, Zenon
  <2>3. L[p].mode = "out" <=> Outside(p)
    <3>1. L[p].mode = Mode(p)
      BY <2>1, SameModes
    <3> QED BY <3>1, OutsideIsOut
  <2>4. /\ Braces(Brace1, b, p) \in Nat /\ Braces(Brace1, b, p - 1) \in Nat
        /\ Braces(Brace1, b, p) = IF data[p + 1] = Brace1 /\ Outside(p)
                                  THEN Braces(Brace1, b, p - 1) + 1 ELSE Braces(Brace1, b, p - 1)
    BY <1>0, BracesStep
  <2>5. /\ Braces(Brace2, b, p) \in Nat /\ Braces(Brace2, b, p - 1) \in Nat
        /\ Braces(Brace2, b, p) = IF data[p + 1] = Brace2 /\ Outside(p)
                                  THEN Braces(Brace2, b, p - 1) + 1 ELSE Braces(Brace2, b, p - 1)
    BY <1>0, BracesStep
  <2>. HIDE DEF L, n
  <2> QED BY <1>0, <2>2, <2>3, <2>4, <2>5, BracesDiffer
<1>1. 0 \in T
  <2>1. L[b].level = 0
    BY LexedDef DEF Start
  <2>2. Braces(Brace1, b, b - 1) = 0 /\ Braces(Brace2, b, b - 1) = 0
    <3>1. \A p \in Text : p \notin b .. b - 1
      BY TextFinite
    <3>2. \A byte : {p \in Text : p \in b .. b - 1 /\ data[p + 1] = byte /\ Outside(p)} = {}
      BY <3>1
    <3> QED BY <3>2, FS_EmptySet DEF Braces
  <2> QED BY <1>0, <2>1, <2>2
<1>2. ASSUME NEW j \in Nat, j \in T PROVE j + 1 \in T
  <2>1. PICK p \in Nat : p = b + j /\ p + 1 = b + (j + 1) /\ (p + 1) - 1 = p /\ p + 1 >= b
    OBVIOUS
  <2> SUFFICES ASSUME p + 1 \in Text
               PROVE  /\ L[(p + 1) + 1].level \in Int
                      /\ Braces(Brace1, b, p + 1) \in Nat /\ Braces(Brace2, b, p + 1) \in Nat
                      /\ L[(p + 1) + 1].level = Braces(Brace1, b, p + 1) - Braces(Brace2, b, p + 1)
    BY <2>1
  <2>2. p \in Text
    BY DEF Text
  <2>3. L[p + 1].level = Braces(Brace1, b, p) - Braces(Brace2, b, p)
    BY <1>2, <2>1, <2>2
  <2>. HIDE DEF L, n, T
  <2> QED BY <1>0, <2>1, <2>3
<1>3. \A j \in Nat : j \in T
  <2>. HIDE DEF T
  <2> QED BY <1>1, <1>2, InductionSet
<1>4. ASSUME NEW p \in Text, p >= b
      PROVE  /\ L[p + 1].level \in Int
             /\ Braces(Brace1, b, p) \in Nat /\ Braces(Brace2, b, p) \in Nat
             /\ L[p + 1].level = Braces(Brace1, b, p) - Braces(Brace2, b, p)
  <2>1. p - b \in Nat /\ b + (p - b) = p
    BY <1>4, TextFinite
  <2> QED BY <1>3, <2>1
<1> QED BY <1>4

(* Where the object that begins at b ends.  Up to there at least one brace *)
(* is open, so the byte that closes the last one is a closing brace.       *)
RefEnds(b) == {p \in Text : p > b /\ Braces(Brace1, b, p) = Braces(Brace2, b, p)}

LEMMA EndsAre ==
  ASSUME StreamOK, NEW b \in RefBegins
  PROVE  First(Ends(data, b, Len(data))) = First(RefEnds(b))
<1> DEFINE n == Len(data)
           L == Lexed(data, b, n)
           E == Ends(data, b, n)
           R == RefEnds(b)
<1>1. b \in Text /\ data[b + 1] = Brace1 /\ Mode(b) = "out"
  BY OutsideIsOut DEF RefBegins
<1>. n \in Nat /\ b \in Nat /\ b \in 0 .. n - 1
  BY <1>1, TextIs DEF StreamOK
<1>2. \A p \in Text : p \in Nat /\ p \in 0 .. n - 1
  BY TextFinite, TextIs
<1>3. R \in SUBSET Text /\ \A p \in Text : p \in R <=> p > b /\ L[p + 1].level = 0
  BY <1>1, <1>2, LevelCounts DEF RefEnds
<1>4. \A p \in E : p \in R
  <2> SUFFICES ASSUME NEW p \in E PROVE p \in R
    OBVIOUS
  <2>1. p \in b .. n - 1 /\ data[p + 1] = Brace2 /\ L[p].mode # "stop" /\ L[p + 1].level = 0
    BY DEF Ends
  <2>2. L[p].mode = Mode(p)
    BY <1>1, <2>1, SameModes
  <2>3. p \in Text
    BY <2>1, <2>2, TextIs, BracesDiffer
  <2>4. p # b
    BY <1>1, <2>1, BracesDiffer
  <2> QED BY <1>3, <2>1, <2>3, <2>4
<1>5. CASE R = {}
  <2>1. E = {}
    BY <1>4, <1>5
  <2> QED BY <1>5, <2>1
<1>6. CASE R # {}
  <2>1. R \in SUBSET Nat
    BY <1>2, <1>3
  <2>2. PICK m \in R : m = First(R) /\ \A q \in R : m <= q
    <3>. HIDE DEF R
    <3> QED BY <1>6, <2>1, FirstOfSome
  <2>3. m \in Text /\ m > b /\ L[m + 1].level = 0 /\ m \in Nat
    BY <1>2, <1>3, <2>2
  <2>. DEFINE T == {j \in Nat : b + j < m => L[(b + j) + 1].level \in Int /\ L[(b + j) + 1].level >= 1}
  <2>4. \A p \in b .. n - 1 :
          /\ L[p] \in LexState /\ L[p + 1] \in LexState
          /\ L[p + 1].level = IF L[p].mode = "out" /\ data[p + 1] = Brace1 THEN L[p].level + 1
                              ELSE IF L[p].mode = "out" /\ data[p + 1] = Brace2 THEN L[p].level - 1
                              ELSE L[p].level
    <3>1. b \in Int /\ n \in Int
      OBVIOUS
    <3> QED BY <3>1, ScanStep, Zenon
  <2>5. L[b] = Start
    <3>1. b \in Int /\ n \in Int /\ b <= n
      OBVIOUS
    <3> QED BY <3>1, LexedDef, Zenon
  <2>. HIDE DEF L, n, R
  <2>6. \A p \in b .. n - 1 : L[p].level \in Int /\ L[p + 1].level \in Int
    BY <2>4 DEF LexState
  <2>7. 0 \in T
    BY <1>1, <2>4, <2>5 DEF Start
  <2>8. ASSUME NEW j \in Nat, j \in T PROVE j + 1 \in T
    <3>1. PICK p \in Nat : p = b + j /\ p + 1 = b + (j + 1)
      OBVIOUS
    <3> SUFFICES ASSUME p + 1 < m PROVE L[(p + 1) + 1].level \in Int /\ L[(p + 1) + 1].level >= 1
      BY <3>1
    <3>2. p + 1 \in Text
      BY <2>3, TextClosed
    <3>3. p + 1 \in b .. n - 1 /\ p + 1 > b
      BY <1>2, <3>1, <3>2
    <3>4. p + 1 \notin R
      BY <2>2, <2>3
    <3>5. L[(p + 1) + 1].level # 0
      BY <1>3, <3>2, <3>3, <3>4
    <3>6. L[p + 1].level >= 1
      BY <2>3, <2>8, <3>1
    <3> QED BY <2>4, <2>6, <3>3, <3>5, <3>6
  <2>9. \A j \in Nat : j \in T
    <3>. HIDE DEF T
    <3> QED BY <2>7, <2>8, InductionSet
  <2>10. L[m].level \in Int /\ L[m].level >= 1
    <3>1. (m - b) - 1 \in Nat /\ b + ((m - b) - 1) < m /\ (b + ((m - b) - 1)) + 1 = m
      BY <2>3
    <3> QED BY <2>9, <3>1
  <2>11. m \in b .. n - 1
    BY <1>2, <2>3
  <2>12. data[m + 1] = Brace2 /\ L[m].mode = "out"
    BY <2>3, <2>4, <2>10, <2>11
  <2>13. m \in E
    BY <2>3, <2>11, <2>12 DEF Ends, L, n
  <2>. HIDE DEF E
  <2>14. E \in SUBSET Int /\ \A q \in E : m <= q
    <3>1. \A q \in E : q \in Nat /\ m <= q
      BY <1>4, <2>1, <2>2
    <3> QED BY <3>1
  <2>15. First(E) = m
    BY <2>13, <2>14, FirstIs
  <2> QED BY <2>2, <2>15 DEF E, R, n
<1> QED BY <1>5, <1>6

LEMMA RefPushJsonIs ==
  LET b == First(RefBegins)
      e == First(RefEnds(b))
  IN  RefPushJson = CASE RefBegins = {} -> [start |-> -1, length |-> -1]
                      [] RefBegins # {} /\ e = -1 -> [start |-> b, length |-> -1]
                      [] RefBegins # {} /\ e # -1 -> [start |-> b, length |-> e - b + 1]
BY Zenon DEF RefPushJson, RefBegins, RefEnds, Brace1, Brace2

(* getPushJson finds the object the reference finds, in every stream.      *)
THEOREM ScannerIsRight == Spec => []MatchesReference
<1>1. ASSUME StreamOK PROVE MatchesReference
  <2> DEFINE n == Len(data)
             b == First(RefBegins)
             e == First(RefEnds(b))
  <2>1. Begins(data, 0, n) = RefBegins
    BY <1>1, BeginsAre
  <2>2. getPushJson(data, n) = IF b = -1 THEN [start |-> -1, length |-> -1]
                               ELSE IF First(Ends(data, b, n)) = -1
                                    THEN [start |-> b, length |-> -1]
                               ELSE [start |-> b, length |-> First(Ends(data, b, n)) - b + 1]
    BY <2>1, PushJsonIs
  <2>3. RefPushJson = CASE RefBegins = {} -> [start |-> -1, length |-> -1]
                        [] RefBegins # {} /\ e = -1 -> [start |-> b, length |-> -1]
                        [] RefBegins # {} /\ e # -1 -> [start |-> b, length |-> e - b + 1]
    BY RefPushJsonIs
  <2>4. CASE RefBegins = {}
    <3>1. b = -1
      BY <2>4, FirstOfNone
    <3> QED BY <2>2, <2>3, <2>4, <3>1 DEF MatchesReference
  <2>5. CASE RefBegins # {}
    <3>1. RefBegins \in SUBSET Nat
      BY <1>1, TextFinite DEF RefBegins
    <3>2. b \in RefBegins
      BY <2>5, <3>1, FirstOfSome
    <3>3. b # -1
      BY <3>1, <3>2
    <3>4. First(Ends(data, b, n)) = e
      BY <1>1, <3>2, EndsAre
    <3>. HIDE DEF b, e
    <3> QED BY <2>2, <2>3, <2>5, <3>3, <3>4 DEF MatchesReference
  <2> QED BY <2>4, <2>5
<1>2. StreamOK => MatchesReference
  BY <1>1
<1> QED BY <1>2, StreamInvariant, PTL

=============================================================================

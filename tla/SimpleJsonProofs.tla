-------------------------- MODULE SimpleJsonProofs --------------------------
(***************************************************************************)
(* What the scanner of SimpleJson returns, for every buffer, and what it   *)
(* finds in the first bytes of a stream of framed messages: the facts the  *)
(* proofs about the two push services rest on.                             *)
(***************************************************************************)
EXTENDS SimpleJson, SequenceTheorems, WellFoundedInduction, TLAPS

(* First returns a member of the set or -1.                                *)
LEMMA FirstRange == ASSUME NEW S PROVE First(S) \in S \cup {-1}
BY DEF First

(* An object begins inside the bytes scanned.                              *)
LEMMA BeginningRange ==
  ASSUME NEW data, NEW from \in Int, NEW n \in Int
  PROVE  findJsonBeginningParams(data, from, n) \in (from .. n - 1) \cup {-1}
<1> DEFINE S == {p \in from .. n - 1 :
                   Lexed(data, from, n)[p].mode = "out" /\ data[p + 1] = "{"}
<1>1. findJsonBeginningParams(data, from, n) = First(S)
  BY DEF findJsonBeginningParams
<1>2. S \subseteq from .. n - 1
  OBVIOUS
<1>. HIDE DEF S
<1> QED BY <1>1, <1>2, FirstRange

(* It ends inside the bytes scanned.                                       *)
LEMMA EndRange ==
  ASSUME NEW data, NEW from \in Int, NEW n \in Int
  PROVE  findJsonEndParams(data, from, n) \in (from .. n - 1) \cup {-1}
<1> DEFINE S == {p \in from .. n - 1 :
                   /\ data[p + 1] = "}"
                   /\ Lexed(data, from, n)[p].mode \in {"out", "str"}
                   /\ Lexed(data, from, n)[p + 1].level = 0}
<1>1. findJsonEndParams(data, from, n) = First(S)
  BY DEF findJsonEndParams
<1>2. S \subseteq from .. n - 1
  OBVIOUS
<1>. HIDE DEF S
<1> QED BY <1>1, <1>2, FirstRange

(* A complete message lies inside the bytes received and is not empty.     *)
LEMMA PushJsonRange ==
  ASSUME NEW data, NEW n \in Nat
  PROVE  LET json == getPushJson(data, n)
         IN  /\ json \in [start : Int, length : Int]
             /\ json.length = -1 \/ (/\ json.start >= 0
                                     /\ json.length > 0
                                     /\ json.start + json.length <= n)
<1> DEFINE b == findJsonBeginningParams(data, 0, n)
           e == findJsonEndParams(data, b, n)
<1>1. b \in (0 .. n - 1) \cup {-1}
  BY BeginningRange
<1>2. e \in (b .. n - 1) \cup {-1}
  BY <1>1, EndRange
<1>3. getPushJson(data, n) = IF b = -1 THEN [start |-> -1, length |-> -1]
                             ELSE IF e = -1 THEN [start |-> b, length |-> -1]
                             ELSE [start |-> b, length |-> e - b + 1]
  BY DEF getPushJson
<1>. HIDE DEF b, e
<1> QED BY <1>1, <1>2, <1>3

(* A part of a sequence is a sequence over the same set.                   *)
LEMMA PartOfSeq ==
  ASSUME NEW S, NEW s \in Seq(S), NEW m \in Int, NEW n \in Int, 1 <= m, n <= Len(s)
  PROVE  /\ SubSeq(s, m, n) \in Seq(S)
         /\ Len(SubSeq(s, m, n)) = IF m <= n THEN n - m + 1 ELSE 0
<1>1. \A i \in m .. n : s[i] \in S
  BY ElementOfSeq
<1> QED BY <1>1, SubSeqProperties

LEMMA PairIsSeq == ASSUME NEW S, NEW x \in S, NEW y \in S PROVE <<x, y>> \in Seq(S)
OBVIOUS

-----------------------------------------------------------------------------
(* Induction, for sets of numbers: every set of naturals that is not empty *)
(* has a smallest element.                                                 *)
LEMMA LeastNatural ==
  ASSUME NEW T \in SUBSET Nat, T # {}
  PROVE  \E x \in T : \A y \in T : x <= y
<1> DEFINE R == {ss \in Nat \X Nat : ss[1] < ss[2]}
<1>1. IsWellFoundedOn(R, Nat)
  BY NatLessThanWellFounded DEF OpToRel
<1>2. \E x \in T : \A y \in T : ~ (<<y, x>> \in R)
  <2>. HIDE DEF R
  <2> QED BY <1>1, WFMin
<1>3. PICK x \in T : \A y \in T : ~ (<<y, x>> \in R)
  BY <1>2
<1>4. \A y \in T : ~ (y < x)
  BY <1>3
<1> QED BY <1>4

LEMMA InductionSet ==
  ASSUME NEW T, 0 \in T, \A n \in Nat : n \in T => n + 1 \in T
  PROVE  \A n \in Nat : n \in T
<1> SUFFICES ASSUME Nat \ T # {} PROVE FALSE
  OBVIOUS
<1>1. PICK x \in Nat \ T : \A y \in Nat \ T : x <= y
  BY LeastNatural
<1> QED BY <1>1, x - 1 \in Nat

-----------------------------------------------------------------------------
(* The state of a scan.  The recursion of Lexed has a solution: one byte   *)
(* more extends a solution by one state.                                   *)
Start == [mode |-> "out", level |-> 0]

Solves(g, data, from, n) ==
  g = [p \in from .. n |-> IF p = from THEN Start ELSE Lex(data[p])[g[p - 1]]]

LEMMA ScanExists ==
  ASSUME NEW data, NEW from \in Int, NEW k \in Nat
  PROVE  \E g : Solves(g, data, from, from + k)
<1> DEFINE T == {j \in Nat : \E g : Solves(g, data, from, from + j)}
<1>1. 0 \in T
  <2> DEFINE g == [p \in from .. from + 0 |-> Start]
  <2>1. Solves(g, data, from, from + 0)
    BY DEF Solves
  <2> QED BY <2>1
<1>2. ASSUME NEW j \in Nat, j \in T PROVE j + 1 \in T
  <2>1. PICK g : Solves(g, data, from, from + j)
    BY <1>2
  <2> DEFINE h == [p \in from .. from + (j + 1) |->
                     IF p <= from + j THEN g[p] ELSE Lex(data[p])[g[p - 1]]]
  <2>2. \A p \in from .. from + j : g[p] = IF p = from THEN Start ELSE Lex(data[p])[g[p - 1]]
    BY <2>1 DEF Solves
  <2>3. \A p \in from .. from + j : h[p] = g[p]
    OBVIOUS
  <2>4. \A p \in from .. from + (j + 1) :
          h[p] = IF p = from THEN Start ELSE Lex(data[p])[h[p - 1]]
    <3> SUFFICES ASSUME NEW p \in from .. from + (j + 1)
                 PROVE  h[p] = IF p = from THEN Start ELSE Lex(data[p])[h[p - 1]]
      OBVIOUS
    <3>1. CASE p <= from + j
      <4>1. p # from => p - 1 \in from .. from + j
        BY <3>1
      <4> QED BY <2>2, <2>3, <3>1, <4>1
    <3>2. CASE p = from + (j + 1)
      <4>1. p # from /\ p - 1 \in from .. from + j /\ ~ (p <= from + j)
        BY <3>2
      <4> QED BY <2>3, <3>2, <4>1
    <3> QED BY <3>1, <3>2
  <2>5. Solves(h, data, from, from + (j + 1))
    BY <2>4 DEF Solves
  <2> QED BY <2>5
<1>. HIDE DEF T
<1>3. k \in T
  BY <1>1, <1>2, InductionSet
<1> QED BY <1>3 DEF T

(* So Lexed is one.                                                        *)
LEMMA LexedDef ==
  ASSUME NEW data, NEW from \in Int, NEW n \in Int, from <= n
  PROVE  /\ Lexed(data, from, n)[from] = Start
         /\ \A p \in from + 1 .. n :
              Lexed(data, from, n)[p] = Lex(data[p])[Lexed(data, from, n)[p - 1]]
<1>1. PICK k \in Nat : n = from + k
  BY n - from \in Nat
<1>2. \E g : Solves(g, data, from, n)
  BY <1>1, ScanExists
<1>3. Lexed(data, from, n) = CHOOSE g : Solves(g, data, from, n)
  BY DEF Lexed, Solves, Start
<1>4. Solves(Lexed(data, from, n), data, from, n)
  BY <1>2, <1>3
<1>. DEFINE L == Lexed(data, from, n)
<1>5. L = [p \in from .. n |-> IF p = from THEN Start ELSE Lex(data[p])[L[p - 1]]]
  BY <1>4 DEF Solves
<1>. HIDE DEF L
<1>6. PICK M : M = L
  OBVIOUS
<1>7. M = [p \in from .. n |-> IF p = from THEN Start ELSE Lex(data[p])[L[p - 1]]]
  BY <1>5, <1>6
<1>8. /\ M[from] = Start
      /\ \A p \in from + 1 .. n : M[p] = Lex(data[p])[L[p - 1]]
  BY <1>7
<1> QED BY <1>6, <1>8 DEF L

(* The braces, by names: the strings themselves are of no interest.        *)
Brace1 == "{"
Brace2 == "}"

LEMMA BracesDiffer ==
  /\ Brace1 # Brace2 /\ Brace1 # NUL /\ Brace2 # NUL
  /\ Brace1 # Quote /\ Brace2 # Quote
BY Zenon DEF Brace1, Brace2, NUL, Quote

(* One byte in a lexical state: the next state and the braces it counts.   *)
LEMMA LexStep ==
  ASSUME NEW byte, NEW st \in LexState
  PROVE  /\ Lex(byte)[st] \in LexState
         /\ Lex(byte)[st].mode = NextMode(st.mode, byte)
         /\ Lex(byte)[st].level = IF st.mode = "out" /\ byte = Brace1 THEN st.level + 1
                                  ELSE IF st.mode = "out" /\ byte = Brace2 THEN st.level - 1
                                  ELSE st.level
<1>1. Lex(byte) = [s \in LexState |->
                     [mode  |-> NextMode(s.mode, byte),
                      level |-> CASE s.mode = "out" /\ byte = Brace1 -> s.level + 1
                                  [] s.mode = "out" /\ byte = Brace2 -> s.level - 1
                                  [] OTHER -> s.level]]
  BY Zenon DEF Lex, Brace1, Brace2
<1>2. NextMode(st.mode, byte) \in {"out", "str", "esc", "stop"}
  BY DEF NextMode, LexState
<1>3. Lex(byte)[st] = [mode  |-> NextMode(st.mode, byte),
                       level |-> CASE st.mode = "out" /\ byte = Brace1 -> st.level + 1
                                   [] st.mode = "out" /\ byte = Brace2 -> st.level - 1
                                   [] OTHER -> st.level]
  BY <1>1
<1> QED BY <1>2, <1>3, BracesDiffer DEF LexState

(* Every state of a scan is a lexical state, and follows from the one      *)
(* before it.                                                              *)
LEMMA ScanTypes ==
  ASSUME NEW data, NEW from \in Int, NEW n \in Int, from <= n
  PROVE  \A p \in from .. n : Lexed(data, from, n)[p] \in LexState
<1> DEFINE L == Lexed(data, from, n)
           T == {j \in Nat : from + j <= n => L[from + j] \in LexState}
<1>1. /\ L[from] = Start
      /\ \A p \in from + 1 .. n : L[p] = Lex(data[p])[L[p - 1]]
  BY LexedDef
<1>. HIDE DEF L
<1>2. 0 \in T
  BY <1>1 DEF Start, LexState
<1>3. ASSUME NEW j \in Nat, j \in T PROVE j + 1 \in T
  <2> SUFFICES ASSUME from + (j + 1) <= n PROVE L[from + (j + 1)] \in LexState
    OBVIOUS
  <2>1. L[from + j] \in LexState
    BY <1>3
  <2>2. from + (j + 1) \in from + 1 .. n /\ (from + (j + 1)) - 1 = from + j
    OBVIOUS
  <2>3. L[from + (j + 1)] = Lex(data[from + (j + 1)])[L[from + j]]
    BY <1>1, <2>2
  <2> QED BY <2>1, <2>3, LexStep
<1>4. \A j \in Nat : j \in T
  <2>. HIDE DEF T
  <2> QED BY <1>2, <1>3, InductionSet
<1>5. ASSUME NEW p \in from .. n PROVE L[p] \in LexState
  <2>1. p - from \in Nat /\ from + (p - from) = p
    OBVIOUS
  <2> QED BY <1>4, <2>1
<1> QED BY <1>5 DEF L

LEMMA ScanStep ==
  ASSUME NEW data, NEW from \in Int, NEW n \in Int, NEW p \in from .. n - 1
  PROVE  LET old == Lexed(data, from, n)[p]
             new == Lexed(data, from, n)[p + 1]
             byte == data[p + 1]
         IN  /\ old \in LexState /\ new \in LexState
             /\ new.mode = NextMode(old.mode, byte)
             /\ new.level = IF old.mode = "out" /\ byte = Brace1 THEN old.level + 1
                            ELSE IF old.mode = "out" /\ byte = Brace2 THEN old.level - 1
                            ELSE old.level
<1> DEFINE L == Lexed(data, from, n)
<1>1. L[p] \in LexState
  BY ScanTypes
<1>2. L[p + 1] = Lex(data[p + 1])[L[p]]
  <2>1. p + 1 \in from + 1 .. n /\ (p + 1) - 1 = p /\ from <= n
    OBVIOUS
  <2>2. \A q \in from + 1 .. n : L[q] = Lex(data[q])[L[q - 1]]
    BY <2>1, LexedDef
  <2>. HIDE DEF L
  <2> QED BY <2>1, <2>2
<1>. HIDE DEF L
<1>3. /\ Lex(data[p + 1])[L[p]] \in LexState
      /\ Lex(data[p + 1])[L[p]].mode = NextMode(L[p].mode, data[p + 1])
      /\ Lex(data[p + 1])[L[p]].level =
           IF L[p].mode = "out" /\ data[p + 1] = Brace1 THEN L[p].level + 1
           ELSE IF L[p].mode = "out" /\ data[p + 1] = Brace2 THEN L[p].level - 1
           ELSE L[p].level
  BY <1>1, LexStep
<1> QED BY <1>1, <1>2, <1>3 DEF L

(* Two buffers hold the same k bytes, each from an offset on.              *)
SameBytes(data1, from1, n1, data2, from2, n2, k) ==
  /\ from1 \in Int /\ n1 \in Int /\ from2 \in Int /\ n2 \in Int /\ k \in Nat
  /\ from1 + k <= n1 /\ from2 + k <= n2
  /\ \A i \in 1 .. k : data1[from1 + i] = data2[from2 + i]

SameStates(data1, from1, n1, data2, from2, n2, k) ==
  \A j \in 0 .. k : Lexed(data1, from1, n1)[from1 + j] = Lexed(data2, from2, n2)[from2 + j]

(* Two scans that have seen the same bytes are in the same state, wherever *)
(* they began and however much follows.                                    *)
LEMMA ScansAgree ==
  ASSUME NEW data1, NEW from1, NEW n1, NEW data2, NEW from2, NEW n2, NEW k,
         SameBytes(data1, from1, n1, data2, from2, n2, k)
  PROVE  SameStates(data1, from1, n1, data2, from2, n2, k)
<1> /\ from1 \in Int /\ n1 \in Int /\ from2 \in Int /\ n2 \in Int /\ k \in Nat
    /\ from1 + k <= n1 /\ from2 + k <= n2
    /\ \A i \in 1 .. k : data1[from1 + i] = data2[from2 + i]
  BY DEF SameBytes
<1> DEFINE L1 == Lexed(data1, from1, n1)
           L2 == Lexed(data2, from2, n2)
           T  == {j \in Nat : j <= k => L1[from1 + j] = L2[from2 + j]}
<1>1. /\ L1[from1] = Start
      /\ \A p \in from1 + 1 .. n1 : L1[p] = Lex(data1[p])[L1[p - 1]]
  BY LexedDef
<1>2. /\ L2[from2] = Start
      /\ \A p \in from2 + 1 .. n2 : L2[p] = Lex(data2[p])[L2[p - 1]]
  BY LexedDef
<1>. HIDE DEF L1, L2
<1>3. 0 \in T
  BY <1>1, <1>2
<1>4. ASSUME NEW j \in Nat, j \in T PROVE j + 1 \in T
  <2> SUFFICES ASSUME j + 1 <= k PROVE L1[from1 + (j + 1)] = L2[from2 + (j + 1)]
    OBVIOUS
  <2>1. L1[from1 + j] = L2[from2 + j]
    BY <1>4
  <2>2. L1[from1 + (j + 1)] = Lex(data1[from1 + (j + 1)])[L1[from1 + j]]
    <3>1. from1 + (j + 1) \in from1 + 1 .. n1 /\ (from1 + (j + 1)) - 1 = from1 + j
      OBVIOUS
    <3> QED BY <1>1, <3>1
  <2>3. L2[from2 + (j + 1)] = Lex(data2[from2 + (j + 1)])[L2[from2 + j]]
    <3>1. from2 + (j + 1) \in from2 + 1 .. n2 /\ (from2 + (j + 1)) - 1 = from2 + j
      OBVIOUS
    <3> QED BY <1>2, <3>1
  <2>4. data1[from1 + (j + 1)] = data2[from2 + (j + 1)]
    BY j + 1 \in 1 .. k
  <2> QED BY <2>1, <2>2, <2>3, <2>4
<1>5. \A j \in Nat : j \in T
  <2>. HIDE DEF T
  <2> QED BY <1>3, <1>4, InductionSet
<1> QED BY <1>5 DEF L1, L2, SameStates

-----------------------------------------------------------------------------
(* First returns the smallest offset of a set, and -1 only if it has none. *)
LEMMA FirstIs ==
  ASSUME NEW S \in SUBSET Int, NEW m \in S, \A q \in S : m <= q
  PROVE  First(S) = m
<1>1. First(S) \in S /\ \A q \in S : First(S) <= q
  BY DEF First
<1>2. First(S) \in Int /\ m \in Int /\ First(S) <= m /\ m <= First(S)
  BY <1>1
<1> QED BY <1>2

LEMMA FirstOfNone == ASSUME NEW S, S = {} PROVE First(S) = -1
BY DEF First

LEMMA FirstOfSome ==
  ASSUME NEW S \in SUBSET Nat, S # {}
  PROVE  First(S) \in S /\ \A q \in S : First(S) <= q
<1>1. \E x \in S : \A y \in S : x <= y
  BY LeastNatural
<1> QED BY <1>1 DEF First

(* Two sets that agree up to an offset, one of them shifted: a first       *)
(* element found below it in one is found in the other.                    *)
LEMMA FirstAgrees ==
  ASSUME NEW S1 \in SUBSET Nat, NEW S2 \in SUBSET Nat, NEW d \in Int, NEW n \in Int,
         \A p \in S1 : p < n,
         \A p \in Int : p < n => (p \in S1 <=> p + d \in S2)
  PROVE  /\ First(S1) # -1 => First(S2) = First(S1) + d
         /\ (\A q \in S2 : q < n + d) /\ First(S1) = -1 => First(S2) = -1
<1>1. ASSUME First(S1) # -1 PROVE First(S2) = First(S1) + d
  <2>1. S1 # {}
    BY <1>1, FirstOfNone
  <2>2. PICK f \in S1 : f = First(S1) /\ \A q \in S1 : f <= q
    BY <2>1, FirstOfSome
  <2>3. f + d \in S2
    BY <2>2
  <2>4. ASSUME NEW q \in S2 PROVE f + d <= q
    <3>1. CASE q - d < n
      <4>1. (q - d) + d = q /\ q - d \in Int
        OBVIOUS
      <4>2. q - d \in S1
        BY <3>1, <4>1
      <4>3. f <= q - d
        BY <2>2, <4>2
      <4> QED BY <2>2, <4>3
    <3>2. CASE ~ (q - d < n)
      BY <2>2, <3>2
    <3> QED BY <3>1, <3>2
  <2>5. S2 \in SUBSET Int
    OBVIOUS
  <2> QED BY <2>2, <2>3, <2>4, <2>5, FirstIs
<1>2. ASSUME \A q \in S2 : q < n + d, First(S1) = -1 PROVE First(S2) = -1
  <2>1. S1 = {}
    BY <1>2, FirstOfSome
  <2>2. ASSUME NEW q \in S2 PROVE FALSE
    <3>1. (q - d) + d = q /\ q - d \in Int /\ q - d < n
      BY <1>2
    <3> QED BY <2>1, <3>1
  <2>3. S2 = {}
    BY <2>2
  <2> QED BY <2>3, FirstOfNone
<1> QED BY <1>1, <1>2

-----------------------------------------------------------------------------
(* The offsets at which an object begins and ends.                         *)
Begins(data, from, n) ==
  {p \in from .. n - 1 : Lexed(data, from, n)[p].mode = "out" /\ data[p + 1] = Brace1}

Ends(data, from, n) ==
  {p \in from .. n - 1 : /\ data[p + 1] = Brace2
                         /\ Lexed(data, from, n)[p].mode \in {"out", "str"}
                         /\ Lexed(data, from, n)[p + 1].level = 0}

LEMMA BeginningIsFirst ==
  ASSUME NEW data, NEW from, NEW n
  PROVE  findJsonBeginningParams(data, from, n) = First(Begins(data, from, n))
BY Zenon DEF findJsonBeginningParams, Begins, Brace1

LEMMA EndIsFirst ==
  ASSUME NEW data, NEW from, NEW n
  PROVE  findJsonEndParams(data, from, n) = First(Ends(data, from, n))
BY Zenon DEF findJsonEndParams, Ends, Brace2

LEMMA PushJsonIs ==
  ASSUME NEW data, NEW n
  PROVE  LET b == First(Begins(data, 0, n))
             e == First(Ends(data, b, n))
         IN  getPushJson(data, n) = IF b = -1 THEN [start |-> -1, length |-> -1]
                                    ELSE IF e = -1 THEN [start |-> b, length |-> -1]
                                    ELSE [start |-> b, length |-> e - b + 1]
BY BeginningIsFirst, EndIsFirst DEF getPushJson

(* The first n1 bytes of data1 from an offset on stand in data2 too.       *)
Stretch(data1, from1, n1, data2, from2, n2) ==
  /\ from1 \in Nat /\ n1 \in Nat /\ from2 \in Nat /\ n2 \in Nat
  /\ from1 <= n1 /\ from2 + (n1 - from1) <= n2
  /\ \A i \in 1 .. n1 - from1 : data1[from1 + i] = data2[from2 + i]

SameFirst(S1, n1, S2, n2, d) ==
  /\ First(S1) # -1 => First(S2) = First(S1) + d
  /\ n2 = n1 + d /\ First(S1) = -1 => First(S2) = -1

(* Two buffers that hold the same bytes from two offsets on: what a scan   *)
(* finds in the shorter stretch, a scan of the longer one finds too, and   *)
(* if the stretches are equally long it finds nothing else.                *)
LEMMA BeginningsAgree ==
  ASSUME NEW data1, NEW from1, NEW n1, NEW data2, NEW from2, NEW n2,
         Stretch(data1, from1, n1, data2, from2, n2)
  PROVE  SameFirst(Begins(data1, from1, n1), n1, Begins(data2, from2, n2), n2, from2 - from1)
<1> /\ from1 \in Nat /\ n1 \in Nat /\ from2 \in Nat /\ n2 \in Nat
    /\ from1 <= n1 /\ from2 + (n1 - from1) <= n2
    /\ \A i \in 1 .. n1 - from1 : data1[from1 + i] = data2[from2 + i]
  BY DEF Stretch
<1>0. PICK d \in Int : d = from2 - from1
  OBVIOUS
<1> DEFINE S1 == Begins(data1, from1, n1)
           S2 == Begins(data2, from2, n2)
           L1 == Lexed(data1, from1, n1)
           L2 == Lexed(data2, from2, n2)
<1>1. \A j \in 0 .. n1 - from1 : L1[from1 + j] = L2[from2 + j]
  <2>1. PICK k \in Nat : k = n1 - from1
    BY n1 - from1 \in Nat
  <2>2. \A j \in 0 .. k : L1[from1 + j] = L2[from2 + j]
    <3>1. SameBytes(data1, from1, n1, data2, from2, n2, k)
      BY <2>1 DEF SameBytes
    <3>2. SameStates(data1, from1, n1, data2, from2, n2, k)
      BY <3>1, ScansAgree
    <3> QED BY <3>2 DEF SameStates
  <2> QED BY <2>1, <2>2
<1>2. S1 \in SUBSET Nat /\ S2 \in SUBSET Nat /\ (\A p \in S1 : p < n1) /\ (\A p \in S2 : p < n2)
  BY DEF Begins
<1>3. ASSUME NEW p \in Int, p < n1 PROVE p \in S1 <=> p + d \in S2
  <2>1. CASE p < from1
    BY <1>0, <2>1 DEF Begins
  <2>2. CASE p >= from1
    <3>1. L1[p] = L2[p + d]
      <4>1. /\ p - from1 \in 0 .. n1 - from1
            /\ from1 + (p - from1) = p /\ from2 + (p - from1) = p + d
        BY <1>3, <1>0, <2>2
      <4>. HIDE DEF L1, L2
      <4> QED BY <1>1, <4>1
    <3>2. data1[p + 1] = data2[(p + d) + 1]
      <4>1. /\ p + 1 - from1 \in 1 .. n1 - from1
            /\ from1 + (p + 1 - from1) = p + 1 /\ from2 + (p + 1 - from1) = (p + d) + 1
        BY <1>3, <1>0, <2>2
      <4> QED BY <4>1
    <3>3. p \in from1 .. n1 - 1 /\ p + d \in from2 .. n2 - 1
      BY <1>3, <1>0, <2>2
    <3> QED BY <3>1, <3>2, <3>3 DEF Begins
  <2> QED BY <2>1, <2>2
<1>. HIDE DEF S1, S2, SameFirst
<1>4. /\ First(S1) # -1 => First(S2) = First(S1) + d
      /\ (\A q \in S2 : q < n1 + d) /\ First(S1) = -1 => First(S2) = -1
  <2>1. n1 \in Int
    OBVIOUS
  <2> QED BY <1>2, <1>3, <2>1, FirstAgrees, Zenon
<1> QED BY <1>2, <1>4, <1>0 DEF S1, S2, SameFirst

LEMMA EndsAgree ==
  ASSUME NEW data1, NEW from1, NEW n1, NEW data2, NEW from2, NEW n2,
         Stretch(data1, from1, n1, data2, from2, n2)
  PROVE  SameFirst(Ends(data1, from1, n1), n1, Ends(data2, from2, n2), n2, from2 - from1)
<1> /\ from1 \in Nat /\ n1 \in Nat /\ from2 \in Nat /\ n2 \in Nat
    /\ from1 <= n1 /\ from2 + (n1 - from1) <= n2
    /\ \A i \in 1 .. n1 - from1 : data1[from1 + i] = data2[from2 + i]
  BY DEF Stretch
<1>0. PICK d \in Int : d = from2 - from1
  OBVIOUS
<1> DEFINE S1 == Ends(data1, from1, n1)
           S2 == Ends(data2, from2, n2)
           L1 == Lexed(data1, from1, n1)
           L2 == Lexed(data2, from2, n2)
<1>1. \A j \in 0 .. n1 - from1 : L1[from1 + j] = L2[from2 + j]
  <2>1. PICK k \in Nat : k = n1 - from1
    BY n1 - from1 \in Nat
  <2>2. \A j \in 0 .. k : L1[from1 + j] = L2[from2 + j]
    <3>1. SameBytes(data1, from1, n1, data2, from2, n2, k)
      BY <2>1 DEF SameBytes
    <3>2. SameStates(data1, from1, n1, data2, from2, n2, k)
      BY <3>1, ScansAgree
    <3> QED BY <3>2 DEF SameStates
  <2> QED BY <2>1, <2>2
<1>2. S1 \in SUBSET Nat /\ S2 \in SUBSET Nat /\ (\A p \in S1 : p < n1) /\ (\A p \in S2 : p < n2)
  BY DEF Ends
<1>3. ASSUME NEW p \in Int, p < n1 PROVE p \in S1 <=> p + d \in S2
  <2>1. CASE p < from1
    BY <1>0, <2>1 DEF Ends
  <2>2. CASE p >= from1
    <3>1. L1[p] = L2[p + d]
      <4>1. /\ p - from1 \in 0 .. n1 - from1
            /\ from1 + (p - from1) = p /\ from2 + (p - from1) = p + d
        BY <1>3, <1>0, <2>2
      <4>. HIDE DEF L1, L2
      <4> QED BY <1>1, <4>1
    <3>2. data1[p + 1] = data2[(p + d) + 1]
      <4>1. /\ p + 1 - from1 \in 1 .. n1 - from1
            /\ from1 + (p + 1 - from1) = p + 1 /\ from2 + (p + 1 - from1) = (p + d) + 1
        BY <1>3, <1>0, <2>2
      <4> QED BY <4>1
    <3>3. p \in from1 .. n1 - 1 /\ p + d \in from2 .. n2 - 1
      BY <1>3, <1>0, <2>2
    <3>4. L1[p + 1] = L2[(p + d) + 1]
      <4>1. /\ p + 1 - from1 \in 0 .. n1 - from1
            /\ from1 + (p + 1 - from1) = p + 1 /\ from2 + (p + 1 - from1) = (p + d) + 1
        BY <1>3, <1>0, <2>2
      <4>. HIDE DEF L1, L2
      <4> QED BY <1>1, <4>1
    <3> QED BY <3>1, <3>2, <3>3, <3>4 DEF Ends
  <2> QED BY <2>1, <2>2
<1>. HIDE DEF S1, S2, SameFirst
<1>4. /\ First(S1) # -1 => First(S2) = First(S1) + d
      /\ (\A q \in S2 : q < n1 + d) /\ First(S1) = -1 => First(S2) = -1
  <2>1. n1 \in Int
    OBVIOUS
  <2> QED BY <1>2, <1>3, <2>1, FirstAgrees, Zenon
<1> QED BY <1>2, <1>4, <1>0 DEF S1, S2, SameFirst

(* What was found in the bytes received stays where it is when more bytes  *)
(* arrive: the beginning of an object, and the end of a complete one.      *)
Grows(data1, n1, data2, n2) ==
  /\ n1 \in Nat /\ n2 \in Nat /\ n1 <= n2
  /\ \A i \in 1 .. n1 : data1[i] = data2[i]

Stays(old, new) ==
  /\ old.start # -1 => new.start = old.start
  /\ old.length # -1 => new.length = old.length

LEMMA PushJsonStable ==
  ASSUME NEW data1, NEW n1, NEW data2, NEW n2, Grows(data1, n1, data2, n2)
  PROVE  Stays(getPushJson(data1, n1), getPushJson(data2, n2))
<1> /\ n1 \in Nat /\ n2 \in Nat /\ n1 <= n2
    /\ \A i \in 1 .. n1 : data1[i] = data2[i]
  BY DEF Grows
<1> DEFINE b1 == First(Begins(data1, 0, n1))
           e1 == First(Ends(data1, b1, n1))
           b2 == First(Begins(data2, 0, n2))
           e2 == First(Ends(data2, b2, n2))
<1>1. b1 \in (0 .. n1 - 1) \cup {-1}
  BY BeginningRange, BeginningIsFirst
<1>2. b1 # -1 => b2 = b1
  <2>1. Stretch(data1, 0, n1, data2, 0, n2)
    BY DEF Stretch
  <2>2. SameFirst(Begins(data1, 0, n1), n1, Begins(data2, 0, n2), n2, 0 - 0)
    BY <2>1, BeginningsAgree
  <2>3. b1 # -1 => b2 = b1 + (0 - 0)
    BY <2>2 DEF SameFirst
  <2>. HIDE DEF b1, b2
  <2> QED BY <1>1, <2>3
<1>3. b1 # -1 => e1 \in (b1 .. n1 - 1) \cup {-1}
  BY <1>1, EndRange, EndIsFirst
<1>4. b1 # -1 /\ e1 # -1 => e2 = e1
  <2> SUFFICES ASSUME b1 # -1, e1 # -1 PROVE e2 = e1
    OBVIOUS
  <2>1. PICK b \in Nat : b = b1 /\ b <= n1
    BY <1>1
  <2>2. Stretch(data1, b, n1, data2, b, n2)
    BY <2>1 DEF Stretch
  <2>3. SameFirst(Ends(data1, b, n1), n1, Ends(data2, b, n2), n2, b - b)
    BY <2>2, EndsAgree
  <2>4. First(Ends(data1, b, n1)) # -1
    BY <2>1
  <2>5. First(Ends(data2, b, n2)) = First(Ends(data1, b, n1)) + (b - b)
    BY <2>3, <2>4 DEF SameFirst
  <2>6. e1 = First(Ends(data1, b, n1)) /\ e2 = First(Ends(data2, b, n2)) /\ e1 \in Int
    BY <1>1, <1>2, <1>3, <2>1
  <2>. HIDE DEF e1, e2
  <2> QED BY <2>1, <2>5, <2>6
<1>5. /\ getPushJson(data1, n1) = IF b1 = -1 THEN [start |-> -1, length |-> -1]
                                  ELSE IF e1 = -1 THEN [start |-> b1, length |-> -1]
                                  ELSE [start |-> b1, length |-> e1 - b1 + 1]
      /\ getPushJson(data2, n2) = IF b2 = -1 THEN [start |-> -1, length |-> -1]
                                  ELSE IF e2 = -1 THEN [start |-> b2, length |-> -1]
                                  ELSE [start |-> b2, length |-> e2 - b2 + 1]
  BY PushJsonIs
<1>. HIDE DEF b1, e1, b2, e2
<1> QED BY <1>1, <1>2, <1>3, <1>4, <1>5 DEF Stays

(* A pair of braces is one JSON object.                                    *)
LEMMA BracesJson == getPushJson(<<Brace1, Brace2>>, 2) = [start |-> 0, length |-> 2]
<1> PICK pair : pair = <<Brace1, Brace2>>
  OBVIOUS
<1> DEFINE L == Lexed(pair, 0, 2)
<1>1. Len(pair) = 2 /\ pair[1] = Brace1 /\ pair[2] = Brace2
  OBVIOUS
<1>2. L[0] = Start
  BY LexedDef
<1>3. L[1] \in LexState /\ L[1].mode = NextMode("out", Brace1) /\ L[1].level = 1
  <2>1. 0 \in Int /\ 2 \in Int /\ 0 \in 0 .. 2 - 1 /\ 0 + 1 = 1
    OBVIOUS
  <2>2. /\ L[0 + 1] \in LexState
        /\ L[0 + 1].mode = NextMode(L[0].mode, pair[0 + 1])
        /\ L[0 + 1].level = IF L[0].mode = "out" /\ pair[0 + 1] = Brace1 THEN L[0].level + 1
                            ELSE IF L[0].mode = "out" /\ pair[0 + 1] = Brace2 THEN L[0].level - 1
                            ELSE L[0].level
    BY <2>1, ScanStep, Zenon
  <2>. HIDE DEF L
  <2> QED BY <1>1, <1>2, <2>1, <2>2 DEF Start
<1>4. L[1].mode = "out"
  BY <1>3, BracesDiffer DEF NextMode
<1>5. L[2].level = 0
  <2>1. 0 \in Int /\ 2 \in Int /\ 1 \in 0 .. 2 - 1 /\ 1 + 1 = 2
    OBVIOUS
  <2>2. /\ L[1 + 1] \in LexState
        /\ L[1 + 1].mode = NextMode(L[1].mode, pair[1 + 1])
        /\ L[1 + 1].level = IF L[1].mode = "out" /\ pair[1 + 1] = Brace1 THEN L[1].level + 1
                            ELSE IF L[1].mode = "out" /\ pair[1 + 1] = Brace2 THEN L[1].level - 1
                            ELSE L[1].level
    BY <2>1, ScanStep
  <2>. HIDE DEF L
  <2> QED BY <1>1, <1>3, <1>4, <2>1, <2>2, BracesDiffer
<1>. HIDE DEF L
<1>6. Begins(pair, 0, 2) = {0}
  <2>1. \A p \in 0 .. 2 - 1 : p = 0 \/ p = 1
    OBVIOUS
  <2>2. Begins(pair, 0, 2) = {p \in 0 .. 2 - 1 : L[p].mode = "out" /\ pair[p + 1] = Brace1}
    BY DEF Begins, L
  <2>3. L[0].mode = "out" /\ 0 + 1 = 1 /\ 1 + 1 = 2 /\ 0 \in 0 .. 2 - 1
    BY <1>2 DEF Start
  <2> QED BY <1>1, <2>1, <2>2, <2>3, BracesDiffer
<1>7. Ends(pair, 0, 2) = {1}
  <2>1. \A p \in 0 .. 2 - 1 : p = 0 \/ p = 1
    OBVIOUS
  <2>2. Ends(pair, 0, 2) = {p \in 0 .. 2 - 1 : /\ pair[p + 1] = Brace2
                                                    /\ L[p].mode \in {"out", "str"}
                                                    /\ L[p + 1].level = 0}
    BY DEF Ends, L
  <2>3. 0 + 1 = 1 /\ 1 + 1 = 2 /\ 1 \in 0 .. 2 - 1
    OBVIOUS
  <2> QED BY <1>1, <1>4, <1>5, <2>1, <2>2, <2>3, BracesDiffer
<1>8. First(Begins(pair, 0, 2)) = 0
  BY <1>6, FirstIs
<1>9. First(Ends(pair, 0, 2)) = 1
  BY <1>7, FirstIs
<1>10. getPushJson(pair, 2) = [start |-> 0, length |-> 2]
  BY <1>8, <1>9, PushJsonIs
<1> QED BY <1>10


-----------------------------------------------------------------------------
(* The framing of a stream.  A protocol f has the texts f.text[1], .. of   *)
(* f.count pushes and the text f.text[0] of a heartbeat, each of them one  *)
(* JSON object, and f.separator behind every message.                      *)
Whole(m) == getPushJson(m, Len(m)) = [start |-> 0, length |-> Len(m)]

Protocol(f) ==
  /\ f.count \in Nat /\ f.separator \in f.bytes
  /\ \A j \in 0 .. f.count : f.text[j] \in Seq(f.bytes) /\ Whole(f.text[j])

(* A stream is cut at cut[0] = 0, .., cut[K] into messages with their      *)
(* separators; idx[k] is the last push of the first k messages, so the     *)
(* k-th message is a heartbeat if idx[k] is what it was.                   *)
Msg(f, idx, k) == IF idx[k] = idx[k - 1] THEN f.text[0] ELSE f.text[idx[k]]

Piece(f, st, a, c, m) ==
  /\ c = a + Len(m) + 1
  /\ \A p \in 1 .. Len(m) : st[a + p] = m[p]
  /\ st[c] = f.separator

Frames(f, st, i, s, K, cut, idx) ==
  /\ K \in Nat /\ cut \in [0 .. K -> Nat] /\ idx \in [0 .. K -> 0 .. f.count]
  /\ cut[0] = 0 /\ cut[K] = Len(st) /\ idx[0] = i /\ idx[K] = s
  /\ \A k \in 1 .. K : /\ idx[k] = idx[k - 1] \/ idx[k] = idx[k - 1] + 1
                       /\ Piece(f, st, cut[k - 1], cut[k], Msg(f, idx, k))
  /\ \A j, k \in 0 .. K : j <= k => idx[j] <= idx[k] /\ cut[j] <= cut[k]

(* The stream holds heartbeats and the pushes after i up to s.             *)
Framing(f, st, i, s) == \E K, cut, idx : Frames(f, st, i, s, K, cut, idx)

LEMMA TextType ==
  ASSUME NEW f, Protocol(f), NEW m, m = f.text[0] \/ \E j \in 1 .. f.count : m = f.text[j]
  PROVE  /\ m \in Seq(f.bytes) /\ Len(m) \in Nat
         /\ getPushJson(m, Len(m)) = [start |-> 0, length |-> Len(m)]
<1>1. PICK j \in 0 .. f.count : m = f.text[j]
  BY DEF Protocol
<1>2. m \in Seq(f.bytes) /\ Whole(m)
  BY <1>1 DEF Protocol
<1> QED BY <1>2, LenProperties DEF Whole

(* The same piece at another place: in a stream shifted by d.              *)
Shifted(st, new, n, d) ==
  n \in Nat /\ d \in Nat /\ \A p \in d + 1 .. n : new[p - d] = st[p]

LEMMA PieceMoves ==
  ASSUME NEW f, NEW st, NEW new, NEW a \in Nat, NEW c \in Nat, NEW m, NEW n, NEW d,
         Len(m) \in Nat, Piece(f, st, a, c, m), Shifted(st, new, n, d), d <= a, c <= n
  PROVE  Piece(f, new, a - d, c - d, m)
<1>. n \in Nat /\ d \in Nat /\ \A p \in d + 1 .. n : new[p - d] = st[p]
  BY DEF Shifted
<1>1. /\ c = a + Len(m) + 1
      /\ \A p \in 1 .. Len(m) : st[a + p] = m[p]
      /\ st[c] = f.separator
  BY DEF Piece
<1>2. c - d = (a - d) + Len(m) + 1
  BY <1>1
<1>3. ASSUME NEW p \in 1 .. Len(m) PROVE new[(a - d) + p] = m[p]
  <2>1. a + p \in d + 1 .. n /\ (a + p) - d = (a - d) + p
    BY <1>1
  <2> QED BY <1>1, <2>1
<1>4. new[c - d] = f.separator
  <2>1. c \in d + 1 .. n
    BY <1>1
  <2> QED BY <1>1, <2>1
<1> QED BY <1>2, <1>3, <1>4 DEF Piece

LEMMA EmptyFraming ==
  ASSUME NEW f, Protocol(f), NEW i \in 0 .. f.count
  PROVE  Framing(f, <<>>, i, i)
<1> DEFINE cut == [k \in 0 .. 0 |-> 0]
           idx == [k \in 0 .. 0 |-> i]
<1>1. Frames(f, <<>>, i, i, 0, cut, idx)
  BY DEF Frames
<1> QED BY <1>1 DEF Framing

(* A message more at the end.                                              *)
LEMMA FramingGrows ==
  ASSUME NEW f, Protocol(f), NEW st \in Seq(f.bytes), NEW i, NEW s \in 0 .. f.count, NEW s2 \in 0 .. f.count,
         NEW m, Framing(f, st, i, s),
         (m = f.text[0] /\ s2 = s) \/ (s2 = s + 1 /\ m = f.text[s2])
  PROVE  Framing(f, st \o Append(m, f.separator), i, s2)
<1>. m \in Seq(f.bytes) /\ Len(m) \in Nat
  BY TextType DEF Protocol
<1>1. PICK K, cut, idx : Frames(f, st, i, s, K, cut, idx)
  BY DEF Framing
<1>. DEFINE new  == st \o Append(m, f.separator)
            cut2 == [k \in 0 .. K + 1 |-> IF k <= K THEN cut[k] ELSE Len(st) + Len(m) + 1]
            idx2 == [k \in 0 .. K + 1 |-> IF k <= K THEN idx[k] ELSE s2]
<1>. Len(st) \in Nat /\ f.count \in Nat
  BY LenProperties DEF Protocol
<1>2. /\ Len(new) = Len(st) + Len(m) + 1
      /\ \A p \in 1 .. Len(st) : new[p] = st[p]
      /\ \A p \in 1 .. Len(m) : new[Len(st) + p] = m[p]
      /\ new[Len(st) + Len(m) + 1] = f.separator
  OBVIOUS
<1>. HIDE DEF new
<1>3. /\ K \in Nat /\ cut \in [0 .. K -> Nat] /\ idx \in [0 .. K -> 0 .. f.count]
      /\ cut[0] = 0 /\ cut[K] = Len(st) /\ idx[0] = i /\ idx[K] = s
      /\ \A k \in 1 .. K : idx[k] = idx[k - 1] \/ idx[k] = idx[k - 1] + 1
      /\ \A k \in 1 .. K : Piece(f, st, cut[k - 1], cut[k], Msg(f, idx, k))
      /\ \A j, k \in 0 .. K : j <= k => idx[j] <= idx[k] /\ cut[j] <= cut[k]
  BY <1>1 DEF Frames
<1>4. /\ \A k \in 0 .. K : cut2[k] = cut[k] /\ idx2[k] = idx[k]
      /\ cut2[K + 1] = Len(new) /\ idx2[K + 1] = s2
  BY <1>2, <1>3
<1>5. /\ K + 1 \in Nat /\ cut2 \in [0 .. K + 1 -> Nat] /\ idx2 \in [0 .. K + 1 -> 0 .. f.count]
      /\ cut2[0] = 0 /\ idx2[0] = i
  <2>1. PICK x \in Nat : x = Len(st) + Len(m) + 1
    OBVIOUS
  <2>2. cut2 = [k \in 0 .. K + 1 |-> IF k <= K THEN cut[k] ELSE x]
    BY <2>1
  <2>3. cut2 \in [0 .. K + 1 -> Nat]
    BY <1>3, <2>2
  <2>4. idx2 \in [0 .. K + 1 -> 0 .. f.count]
    BY <1>3
  <2> QED BY <1>3, <1>4, <2>3, <2>4
<1>. HIDE DEF cut2, idx2
<1>6. ASSUME NEW k \in 1 .. K + 1
      PROVE  /\ idx2[k] = idx2[k - 1] \/ idx2[k] = idx2[k - 1] + 1
             /\ Piece(f, new, cut2[k - 1], cut2[k], Msg(f, idx2, k))
  <2>1. CASE k \in 1 .. K
    <3>1. k - 1 \in 0 .. K /\ k \in 0 .. K /\ cut[k] <= Len(st)
      BY <1>3, <2>1
    <3>2. Msg(f, idx2, k) = Msg(f, idx, k)
      BY <1>4, <3>1 DEF Msg
    <3>3. Piece(f, st, cut[k - 1], cut[k], Msg(f, idx, k))
      BY <1>3, <2>1
    <3>4. Msg(f, idx, k) = f.text[0] \/ \E j \in 1 .. f.count : Msg(f, idx, k) = f.text[j]
      <4>1. idx[k] \in 0 .. f.count /\ idx[k - 1] \in 0 .. f.count
        BY <1>3, <3>1
      <4>2. idx[k] = idx[k - 1] \/ idx[k] \in 1 .. f.count
        BY <1>3, <2>1, <4>1
      <4> QED BY <4>2 DEF Msg
    <3>5. Len(Msg(f, idx, k)) \in Nat
      BY <3>4, TextType
    <3>6. cut[k - 1] \in Nat /\ cut[k] \in Nat
      BY <1>3, <3>1
    <3>7. Piece(f, new, cut[k - 1], cut[k], Msg(f, idx, k))
      <4>1. Shifted(st, new, Len(st), 0)
        BY <1>2 DEF Shifted
      <4>2. Piece(f, new, cut[k - 1] - 0, cut[k] - 0, Msg(f, idx, k))
        BY <3>1, <3>3, <3>5, <3>6, <4>1, PieceMoves
      <4> QED BY <3>6, <4>2
    <3> QED BY <1>3, <1>4, <2>1, <3>1, <3>2, <3>7
  <2>2. CASE k = K + 1
    <3>1. k - 1 = K /\ k - 1 \in 0 .. K
      BY <1>3, <2>2
    <3>2. idx2[k] = s2 /\ idx2[k - 1] = s /\ cut2[k] = Len(new) /\ cut2[k - 1] = Len(st)
      BY <1>3, <1>4, <2>2, <3>1
    <3>3. Msg(f, idx2, k) = m
      BY <3>2 DEF Msg
    <3>4. Piece(f, new, Len(st), Len(new), m)
      BY <1>2 DEF Piece
    <3> QED BY <3>2, <3>3, <3>4
  <2> QED BY <1>3, <2>1, <2>2
<1>7. ASSUME NEW j \in 0 .. K + 1, NEW k \in 0 .. K + 1, j <= k
      PROVE  idx2[j] <= idx2[k] /\ cut2[j] <= cut2[k]
  <2>1. CASE k \in 0 .. K
    <3>1. j \in 0 .. K
      BY <1>3, <1>7, <2>1
    <3> QED BY <1>3, <1>4, <1>7, <2>1, <3>1
  <2>2. CASE k = K + 1 /\ j \in 0 .. K
    <3>1. idx[j] <= idx[K] /\ cut[j] <= cut[K] /\ cut[j] \in Nat /\ idx[j] \in Nat
      BY <1>3, <2>2
    <3> QED BY <1>2, <1>3, <1>4, <2>2, <3>1
  <2>3. CASE k = K + 1 /\ j = K + 1
    BY <1>2, <1>4, <2>3
  <2> QED BY <1>3, <2>1, <2>2, <2>3
<1>8. Frames(f, new, i, s2, K + 1, cut2, idx2)
  BY <1>4, <1>5, <1>6, <1>7 DEF Frames
<1> QED BY <1>8 DEF Framing, new

(* The first message taken off: a heartbeat, or the next push.             *)
FirstMessage(f, i, s, j, m) ==
  \/ m = f.text[0] /\ j = i
  \/ j = i + 1 /\ j <= s /\ j \in 1 .. f.count /\ m = f.text[j]

LEMMA FramingShrinks ==
  ASSUME NEW f, Protocol(f), NEW st \in Seq(f.bytes), NEW i, NEW s, Framing(f, st, i, s), Len(st) > 0
  PROVE  \E m, j : /\ FirstMessage(f, i, s, j, m) /\ j \in 0 .. f.count
                   /\ Len(m) \in Nat /\ Len(m) + 1 <= Len(st)
                   /\ Piece(f, st, 0, Len(m) + 1, m)
                   /\ Framing(f, SubSeq(st, Len(m) + 2, Len(st)), j, s)
<1>1. PICK K, cut, idx : Frames(f, st, i, s, K, cut, idx)
  BY DEF Framing
<1>. Len(st) \in Nat /\ f.count \in Nat
  BY LenProperties DEF Protocol
<1>2. /\ K \in Nat /\ cut \in [0 .. K -> Nat] /\ idx \in [0 .. K -> 0 .. f.count]
      /\ cut[0] = 0 /\ cut[K] = Len(st) /\ idx[0] = i /\ idx[K] = s
      /\ \A k \in 1 .. K : idx[k] = idx[k - 1] \/ idx[k] = idx[k - 1] + 1
      /\ \A k \in 1 .. K : Piece(f, st, cut[k - 1], cut[k], Msg(f, idx, k))
      /\ \A j, k \in 0 .. K : j <= k => idx[j] <= idx[k] /\ cut[j] <= cut[k]
  BY <1>1 DEF Frames
<1>3. K >= 1 /\ 1 \in 1 .. K /\ 1 \in 0 .. K /\ 0 \in 0 .. K /\ K \in 0 .. K
  BY <1>2
<1>4. \A k \in 1 .. K : /\ Msg(f, idx, k) = f.text[0] \/ \E j \in 1 .. f.count : Msg(f, idx, k) = f.text[j]
                        /\ Len(Msg(f, idx, k)) \in Nat
  <2> SUFFICES ASSUME NEW k \in 1 .. K
               PROVE  /\ Msg(f, idx, k) = f.text[0] \/ \E j \in 1 .. f.count : Msg(f, idx, k) = f.text[j]
                      /\ Len(Msg(f, idx, k)) \in Nat
    OBVIOUS
  <2>1. k \in 0 .. K /\ k - 1 \in 0 .. K
    BY <1>2
  <2>2. Msg(f, idx, k) = f.text[0] \/ \E j \in 1 .. f.count : Msg(f, idx, k) = f.text[j]
    BY <1>2, <2>1 DEF Msg
  <2> QED BY <2>2, TextType
<1>. DEFINE m == Msg(f, idx, 1)
            d == cut[1]
            new == SubSeq(st, d + 1, Len(st))
            cut2 == [k \in 0 .. K - 1 |-> cut[k + 1] - d]
            idx2 == [k \in 0 .. K - 1 |-> idx[k + 1]]
<1>5. Piece(f, st, 0, d, m) /\ d = Len(m) + 1 /\ Len(m) \in Nat /\ d \in Nat /\ d <= Len(st)
  <2>1. Piece(f, st, cut[1 - 1], cut[1], Msg(f, idx, 1))
    BY <1>2, <1>3
  <2>2. Piece(f, st, 0, d, m) /\ Len(m) \in Nat /\ d \in Nat /\ d <= Len(st)
    BY <1>2, <1>3, <1>4, <2>1
  <2>3. d = 0 + Len(m) + 1
    BY <2>2 DEF Piece
  <2> QED BY <2>2, <2>3
<1>6. FirstMessage(f, i, s, idx[1], m) /\ idx[1] \in 0 .. f.count
  <2>1. idx[1] = idx[1 - 1] \/ idx[1] = idx[1 - 1] + 1
    BY <1>2, <1>3
  <2>2. idx[1] <= s /\ idx[1] \in 0 .. f.count /\ idx[0] \in 0 .. f.count
    BY <1>2, <1>3
  <2>3. m = IF idx[1] = idx[0] THEN f.text[0] ELSE f.text[idx[1]]
    BY DEF Msg
  <2>. HIDE DEF m
  <2> QED BY <1>2, <2>1, <2>2, <2>3 DEF FirstMessage
<1>7. Len(new) = Len(st) - d /\ \A p \in 1 .. Len(st) - d : new[p] = st[p + d]
  <2>. HIDE DEF d, m
  <2> QED BY <1>5
<1>8. /\ K - 1 \in Nat /\ cut2 \in [0 .. K - 1 -> Nat] /\ idx2 \in [0 .. K - 1 -> 0 .. f.count]
      /\ \A k \in 0 .. K - 1 : cut2[k] = cut[k + 1] - d /\ idx2[k] = idx[k + 1]
  <2>1. \A k \in 0 .. K - 1 : k + 1 \in 0 .. K /\ 1 <= k + 1
    BY <1>2
  <2>2. \A k \in 0 .. K - 1 : cut[k + 1] - d \in Nat /\ idx[k + 1] \in 0 .. f.count
    BY <1>2, <1>3, <2>1
  <2>3. K - 1 \in Nat
    BY <1>2, <1>3
  <2> QED BY <2>2, <2>3
<1>9. Shifted(st, new, Len(st), d)
  <2>1. ASSUME NEW p \in d + 1 .. Len(st) PROVE new[p - d] = st[p]
    <3>1. p - d \in 1 .. Len(st) - d /\ (p - d) + d = p
      BY <1>5
    <3>. HIDE DEF new, d
    <3> QED BY <1>7, <3>1
  <2> QED BY <1>5, <2>1 DEF Shifted
<1>. HIDE DEF new, cut2, idx2, m, d
<1>10. cut2[0] = 0 /\ cut2[K - 1] = Len(new) /\ idx2[0] = idx[1] /\ idx2[K - 1] = s
  <2>1. 0 \in 0 .. K - 1 /\ K - 1 \in 0 .. K - 1 /\ 0 + 1 = 1 /\ (K - 1) + 1 = K
    BY <1>2, <1>3
  <2>2. cut2[0] = cut[1] - d /\ cut2[K - 1] = cut[K] - d /\ idx2[0] = idx[1] /\ idx2[K - 1] = idx[K]
    BY <1>8, <2>1
  <2> QED BY <1>2, <1>5, <1>7, <2>2 DEF d
<1>11. ASSUME NEW k \in 1 .. K - 1
       PROVE  /\ idx2[k] = idx2[k - 1] \/ idx2[k] = idx2[k - 1] + 1
              /\ Piece(f, new, cut2[k - 1], cut2[k], Msg(f, idx2, k))
  <2>1. /\ k \in 0 .. K - 1 /\ k - 1 \in 0 .. K - 1 /\ (k - 1) + 1 = k
        /\ k + 1 \in 1 .. K /\ (k + 1) - 1 = k /\ k \in 0 .. K /\ k + 1 \in 0 .. K /\ 1 <= k
    BY <1>2
  <2>2. idx2[k] = idx[k + 1] /\ idx2[k - 1] = idx[k]
    BY <1>8, <2>1
  <2>3. cut2[k] = cut[k + 1] - d /\ cut2[k - 1] = cut[k] - d
    BY <1>8, <2>1
  <2>4. Msg(f, idx2, k) = Msg(f, idx, k + 1)
    BY <2>1, <2>2 DEF Msg
  <2>5. Piece(f, st, cut[k], cut[k + 1], Msg(f, idx, k + 1))
    BY <1>2, <2>1
  <2>6. cut[k] \in Nat /\ cut[k + 1] \in Nat /\ d <= cut[k] /\ cut[k + 1] <= Len(st)
    BY <1>2, <1>3, <2>1 DEF d
  <2>7. Piece(f, new, cut[k] - d, cut[k + 1] - d, Msg(f, idx, k + 1))
    BY <1>4, <1>9, <2>1, <2>5, <2>6, PieceMoves
  <2>8. idx[k + 1] = idx[k] \/ idx[k + 1] = idx[k] + 1
    BY <1>2, <2>1
  <2> QED BY <2>2, <2>3, <2>4, <2>7, <2>8
<1>12. ASSUME NEW j \in 0 .. K - 1, NEW k \in 0 .. K - 1, j <= k
       PROVE  idx2[j] <= idx2[k] /\ cut2[j] <= cut2[k]
  <2>1. j + 1 \in 0 .. K /\ k + 1 \in 0 .. K /\ j + 1 <= k + 1
    BY <1>2, <1>12
  <2>2. idx[j + 1] <= idx[k + 1] /\ cut[j + 1] <= cut[k + 1] /\ cut[j + 1] \in Nat /\ cut[k + 1] \in Nat
    BY <1>2, <2>1
  <2> QED BY <1>5, <1>8, <2>2
<1>13. Frames(f, new, idx[1], s, K - 1, cut2, idx2)
  BY <1>8, <1>10, <1>11, <1>12 DEF Frames
<1>14. Framing(f, SubSeq(st, Len(m) + 2, Len(st)), idx[1], s)
  <2>1. Framing(f, new, idx[1], s)
    BY <1>13 DEF Framing
  <2>2. d + 1 = Len(m) + 2
    BY <1>5
  <2> QED BY <2>1, <2>2 DEF new
<1>15. Piece(f, st, 0, Len(m) + 1, m) /\ Len(m) + 1 <= Len(st)
  BY <1>5
<1> QED BY <1>5, <1>6, <1>14, <1>15

-----------------------------------------------------------------------------
(* The scanner on the first bytes of a framed stream.  Unless they end     *)
(* between a message and its separator, either the first message is not    *)
(* complete, or it is found whole, with its separator behind it.           *)
Taken(f, bytes, st, i, s, j, m) ==
  /\ FirstMessage(f, i, s, j, m) /\ j \in 0 .. f.count
  /\ Len(m) \in Nat /\ Len(m) + 1 <= Len(bytes)
  /\ getPushJson(bytes, Len(bytes)) = [start |-> 0, length |-> Len(m)]
  /\ SubSeq(bytes, 1, Len(m)) = m
  /\ st[Len(m) + 1] = f.separator
  /\ Framing(f, SubSeq(st, Len(m) + 2, Len(st)), j, s)

FirstBytes(bytes, st, sep) ==
  /\ Len(bytes) <= Len(st)
  /\ \A p \in 1 .. Len(bytes) : bytes[p] = st[p]
  /\ Len(bytes) < Len(st) => st[Len(bytes) + 1] # sep

ChunkOf(f, bytes, st) ==
  bytes \in Seq(f.bytes) /\ st \in Seq(f.bytes) /\ FirstBytes(bytes, st, f.separator)

LEMMA ScanFramed ==
  ASSUME NEW f, Protocol(f), NEW bytes, NEW st, NEW i, NEW s, ChunkOf(f, bytes, st), Framing(f, st, i, s)
  PROVE  \/ /\ getPushJson(bytes, Len(bytes)).length = -1
            /\ Len(bytes) < Len(st) \/ Len(st) = 0
         \/ \E m, j : Taken(f, bytes, st, i, s, j, m)
<1>. /\ bytes \in Seq(f.bytes) /\ st \in Seq(f.bytes) /\ Len(bytes) <= Len(st)
     /\ \A p \in 1 .. Len(bytes) : bytes[p] = st[p]
     /\ Len(bytes) < Len(st) => st[Len(bytes) + 1] # f.separator
  BY DEF ChunkOf, FirstBytes
<1>. Len(bytes) \in Nat /\ Len(st) \in Nat
  BY LenProperties
<1> DEFINE json == getPushJson(bytes, Len(bytes))
<1>1. /\ json \in [start : Int, length : Int]
      /\ json.length = -1 \/ (/\ json.start >= 0 /\ json.length > 0
                              /\ json.start + json.length <= Len(bytes))
  BY PushJsonRange
<1>. HIDE DEF json
<1>2. CASE Len(st) = 0
  BY <1>1, <1>2 DEF json
<1>3. CASE Len(st) > 0
  <2>1. PICK m, j : /\ FirstMessage(f, i, s, j, m) /\ j \in 0 .. f.count
                    /\ Len(m) \in Nat /\ Len(m) + 1 <= Len(st)
                    /\ Piece(f, st, 0, Len(m) + 1, m)
                    /\ Framing(f, SubSeq(st, Len(m) + 2, Len(st)), j, s)
    BY <1>3, FramingShrinks
  <2>2. m \in Seq(f.bytes) /\ getPushJson(m, Len(m)) = [start |-> 0, length |-> Len(m)]
    BY <2>1, TextType DEF FirstMessage
  <2>3. (\A p \in 1 .. Len(m) : st[p] = m[p]) /\ st[Len(m) + 1] = f.separator
    BY <2>1 DEF Piece
  <2>4. CASE Len(bytes) < Len(m)
    <3>1. Grows(bytes, Len(bytes), m, Len(m))
      BY <2>1, <2>3, <2>4 DEF Grows
    <3>2. Stays(json, getPushJson(m, Len(m)))
      BY <3>1, PushJsonStable DEF json
    <3>3. json.length # -1 => Len(m) = json.length
      BY <2>2, <3>2 DEF Stays
    <3>4. json.length = -1
      BY <1>1, <2>1, <2>4, <3>3
    <3> QED BY <2>1, <2>4, <3>4 DEF json
  <2>5. CASE Len(bytes) = Len(m)
    BY <2>1, <2>3, <2>5
  <2>6. CASE Len(bytes) > Len(m)
    <3>1. Grows(m, Len(m), bytes, Len(bytes))
      BY <2>1, <2>3, <2>6 DEF Grows
    <3>2. Stays(getPushJson(m, Len(m)), json)
      BY <3>1, PushJsonStable DEF json
    <3>3. json.start = 0 /\ json.length = Len(m)
      BY <2>1, <2>2, <3>2 DEF Stays
    <3>4. json = [start |-> 0, length |-> Len(m)]
      BY <1>1, <3>3
    <3>5. SubSeq(bytes, 1, Len(m)) = m
      <4>1. /\ SubSeq(bytes, 1, Len(m)) \in Seq(f.bytes) /\ Len(SubSeq(bytes, 1, Len(m))) = Len(m)
            /\ \A p \in 1 .. Len(m) : SubSeq(bytes, 1, Len(m))[p] = m[p]
        <5>1. PICK B : B = f.bytes
          OBVIOUS
        <5>2. m \in Seq(B) /\ bytes \in Seq(B)
          BY <2>2, <5>1
        <5>3. 1 \in Int /\ Len(m) \in Int /\ 1 <= 1 /\ Len(m) <= Len(bytes)
          BY <2>1, <2>6
        <5>4. /\ SubSeq(bytes, 1, Len(m)) \in Seq(B)
              /\ Len(SubSeq(bytes, 1, Len(m))) = IF 1 <= Len(m) THEN Len(m) - 1 + 1 ELSE 0
          BY <5>2, <5>3, PartOfSeq
        <5>5. \A p \in 1 .. Len(m) : SubSeq(bytes, 1, Len(m))[p] = bytes[p]
          BY <2>1, <2>6, <5>2
        <5> QED BY <2>1, <2>3, <2>6, <5>1, <5>4, <5>5
      <4> QED BY <2>2, <4>1, SeqEqual
    <3>6. Len(m) + 1 <= Len(bytes)
      BY <2>1, <2>6
    <3>7. Taken(f, bytes, st, i, s, j, m)
      BY <2>1, <2>3, <3>4, <3>5, <3>6 DEF Taken, json
    <3> QED BY <3>7
  <2> QED BY <2>1, <2>4, <2>5, <2>6
<1> QED BY <1>2, <1>3

(* What is left of a stream after its first bytes, when more is added.     *)
LEMMA SuffixOfConcat ==
  ASSUME NEW B, NEW t \in Seq(B), NEW u \in Seq(B), NEW a \in Nat, 1 <= a, a <= Len(t) + 1
  PROVE  /\ SubSeq(t \o u, a, Len(t \o u)) = SubSeq(t, a, Len(t)) \o u
         /\ SubSeq(t, a, Len(t)) \in Seq(B)
         /\ Len(SubSeq(t, a, Len(t))) = Len(t) - a + 1
<1>1. PICK n \in Nat : n = Len(t)
  BY LenProperties
<1>2. PICK k \in Nat : k = Len(u)
  BY LenProperties
<1>3. PICK v \in Seq(B) : v = t \o u
  BY ConcatProperties
<1>4. /\ Len(v) = n + k
      /\ \A i \in 1 .. n + k : v[i] = IF i <= n THEN t[i] ELSE u[i - n]
  BY <1>1, <1>2, <1>3, ConcatProperties
<1>5. PICK x : x = SubSeq(t, a, n)
  OBVIOUS
<1>6. /\ x \in Seq(B) /\ Len(x) = n - a + 1
      /\ \A i \in 1 .. n - a + 1 : x[i] = t[a + i - 1]
  BY <1>1, <1>5
<1>7. PICK y : y = SubSeq(v, a, n + k)
  OBVIOUS
<1>8. /\ y \in Seq(B) /\ Len(y) = n + k - a + 1
      /\ \A i \in 1 .. n + k - a + 1 : y[i] = v[a + i - 1]
  BY <1>1, <1>2, <1>3, <1>4, <1>7
<1>9. PICK z \in Seq(B) : z = x \o u
  BY <1>6, ConcatProperties
<1>10. /\ Len(z) = (n - a + 1) + k
       /\ \A i \in 1 .. (n - a + 1) + k : z[i] = IF i <= n - a + 1 THEN x[i] ELSE u[i - (n - a + 1)]
  <2>1. PICK r \in Nat : r = n - a + 1
    BY <1>1, n - a + 1 \in Nat
  <2>2. x \in Seq(B) /\ u \in Seq(B) /\ Len(x) = r /\ Len(u) = k
    BY <1>2, <1>6, <2>1
  <2>3. /\ Len(x \o u) = Len(x) + Len(u)
        /\ \A i \in 1 .. Len(x) + Len(u) : (x \o u)[i] = IF i <= Len(x) THEN x[i] ELSE u[i - Len(x)]
    BY <2>2, ConcatProperties
  <2>4. Len(z) = r + k /\ \A i \in 1 .. r + k : z[i] = IF i <= r THEN x[i] ELSE u[i - r]
    BY <1>9, <2>2, <2>3
  <2> QED BY <2>1, <2>4
<1>11. ASSUME NEW i \in 1 .. Len(y) PROVE y[i] = z[i]
  <2>1. i \in 1 .. n + k - a + 1 /\ i \in 1 .. (n - a + 1) + k /\ a + i - 1 \in 1 .. n + k
    BY <1>1, <1>8
  <2>2. y[i] = v[a + i - 1]
    BY <1>8, <2>1
  <2>3. CASE i <= n - a + 1
    <3>1. a + i - 1 <= n /\ i \in 1 .. n - a + 1
      BY <1>1, <2>1, <2>3
    <3> QED BY <1>4, <1>6, <1>10, <2>1, <2>2, <2>3, <3>1
  <2>4. CASE ~ (i <= n - a + 1)
    <3>1. ~ (a + i - 1 <= n) /\ (a + i - 1) - n = i - (n - a + 1)
      BY <1>1, <2>1, <2>4
    <3> QED BY <1>4, <1>10, <2>1, <2>2, <2>4, <3>1
  <2> QED BY <2>3, <2>4
<1>12. Len(y) = Len(z)
  BY <1>1, <1>8, <1>10
<1>13. y = z
  BY <1>8, <1>11, <1>12, SeqEqual
<1> QED BY <1>1, <1>3, <1>4, <1>5, <1>6, <1>7, <1>9, <1>13

(* n more bytes arrive behind the ones kept: the first bytes of the same   *)
(* stream.                                                                 *)
CutWell(wire, n, sep) ==
  n \in Nat /\ 1 <= n /\ n <= Len(wire) /\ (n < Len(wire) => wire[n + 1] # sep)

Arrived(B, kept, wire, n, sep) ==
  LET bytes == kept \o SubSeq(wire, 1, n)
      w2    == SubSeq(wire, n + 1, Len(wire))
  IN  /\ FirstBytes(bytes, kept \o wire, sep)
      /\ bytes \in Seq(B) /\ w2 \in Seq(B) /\ bytes \o w2 = kept \o wire

LEMMA BytesArrive ==
  ASSUME NEW B, NEW sep, NEW kept \in Seq(B), NEW wire \in Seq(B), NEW n, CutWell(wire, n, sep)
  PROVE  Arrived(B, kept, wire, n, sep)
<1>0. Len(kept) \in Nat /\ Len(wire) \in Nat /\ n \in Nat /\ 1 <= n /\ n <= Len(wire)
  BY LenProperties DEF CutWell
<1>1. PICK w1 \in Seq(B) : w1 = SubSeq(wire, 1, n) /\ Len(w1) = n
  <2>1. n \in Int /\ n <= Len(wire) /\ 1 <= n /\ 1 \in Int /\ 1 <= 1
    BY <1>0
  <2>2. SubSeq(wire, 1, n) \in Seq(B) /\ Len(SubSeq(wire, 1, n)) = IF 1 <= n THEN n - 1 + 1 ELSE 0
    BY <2>1, PartOfSeq, Zenon
  <2>3. Len(SubSeq(wire, 1, n)) = n
    BY <2>1, <2>2
  <2> QED BY <2>2, <2>3, Zenon
<1>2. PICK w2 \in Seq(B) : w2 = SubSeq(wire, n + 1, Len(wire)) /\ wire = w1 \o w2
  <2>1. SubSeq(wire, n + 1, Len(wire)) \in Seq(B)
    <3>1. n + 1 \in Int /\ Len(wire) \in Int /\ 1 <= n + 1 /\ Len(wire) <= Len(wire)
      BY <1>0
    <3> QED BY <3>1, PartOfSeq
  <2>2. wire = SubSeq(wire, 1, n) \o SubSeq(wire, n + 1, Len(wire))
    BY <1>0
  <2> QED BY <1>1, <2>1, <2>2
<1>3. PICK st \in Seq(B) : st = kept \o wire
  BY ConcatProperties
<1>4. PICK bytes \in Seq(B) : bytes = kept \o w1 /\ bytes \o w2 = st
  <2>1. (kept \o w1) \o w2 = kept \o (w1 \o w2)
    OBVIOUS
  <2>2. kept \o w1 \in Seq(B)
    BY ConcatProperties
  <2> QED BY <1>2, <1>3, <2>1, <2>2
<1>5. PICK a \in Nat : a = Len(bytes)
  BY LenProperties
<1>6. PICK c \in Nat : c = Len(w2)
  BY LenProperties
<1>7. Len(st) = a + c /\ \A p \in 1 .. a + c : st[p] = IF p <= a THEN bytes[p] ELSE w2[p - a]
  BY <1>4, <1>5, <1>6, ConcatProperties
<1>8. \A p \in 1 .. a : bytes[p] = st[p]
  BY <1>7
<1>9. a < Len(st) => st[a + 1] # sep
  <2> SUFFICES ASSUME a < Len(st) PROVE st[a + 1] # sep
    OBVIOUS
  <2>1. c > 0 /\ a + 1 \in 1 .. a + c /\ ~ (a + 1 <= a) /\ (a + 1) - a = 1
    BY <1>7
  <2>2. st[a + 1] = w2[1]
    BY <1>7, <2>1
  <2>3. w2[1] = wire[n + 1] /\ n < Len(wire)
    <3>1. /\ Len(wire) = n + c
          /\ \A p \in 1 .. n + c : wire[p] = IF p <= n THEN w1[p] ELSE w2[p - n]
      <4>1. /\ Len(w1 \o w2) = Len(w1) + Len(w2)
            /\ \A p \in 1 .. Len(w1) + Len(w2) :
                 (w1 \o w2)[p] = IF p <= Len(w1) THEN w1[p] ELSE w2[p - Len(w1)]
        BY ConcatProperties
      <4> QED BY <1>1, <1>2, <1>6, <4>1, Zenon
    <3>2. n + 1 \in 1 .. n + c /\ ~ (n + 1 <= n) /\ (n + 1) - n = 1
      BY <1>0, <2>1
    <3> QED BY <1>0, <2>1, <3>1, <3>2
  <2> QED BY <2>2, <2>3 DEF CutWell
<1>10. FirstBytes(bytes, st, sep)
  BY <1>5, <1>7, <1>8, <1>9 DEF FirstBytes
<1> QED BY <1>1, <1>2, <1>3, <1>4, <1>10 DEF Arrived

(* The first k + 1 bytes are taken off the ones kept, after a byte was     *)
(* written over the last of them.                                          *)
Remains(kept, k, x) ==
  LET over == [p \in 1 .. Len(kept) |-> IF p = k + 1 THEN x ELSE kept[p]]
  IN  IF Len(kept) - (k + 1) > 0 THEN SubSeq(over, k + 2, Len(kept)) ELSE <<>>

LEMMA MessageComesOff ==
  ASSUME NEW B, NEW kept \in Seq(B), NEW wire \in Seq(B), NEW k \in Nat, k + 1 <= Len(kept), NEW x
  PROVE  /\ Remains(kept, k, x) \o wire = SubSeq(kept \o wire, k + 2, Len(kept \o wire))
         /\ Remains(kept, k, x) \in Seq(B) /\ Len(Remains(kept, k, x)) = Len(kept) - (k + 1)
<1>1. PICK n \in Nat : n = Len(kept)
  BY LenProperties
<1> DEFINE T == [p \in 1 .. n |-> IF p = k + 1 THEN x ELSE kept[p]]
<1>2. Remains(kept, k, x) = IF n - (k + 1) > 0 THEN SubSeq(T, k + 2, n) ELSE <<>>
  BY <1>1 DEF Remains
<1>3. \A p \in k + 2 .. n : T[p] = kept[p]
  BY <1>1
<1>4. PICK y : y = SubSeq(kept, k + 2, n)
  OBVIOUS
<1>5. SubSeq(T, k + 2, n) = y
  <2>1. \A p \in k + 2 .. n : kept[p] \in B
    <3>1. \A p \in k + 2 .. n : p \in 1 .. Len(kept)
      BY <1>1
    <3> QED BY <3>1, ElementOfSeq
  <2>2. \A p \in k + 2 .. n : T[p] \in B
    BY <1>3, <2>1
  <2>. HIDE DEF T
  <2>3. PICK z : z = SubSeq(T, k + 2, n)
    OBVIOUS
  <2>4. /\ z \in Seq(B) /\ Len(z) = IF k + 2 <= n THEN n - (k + 2) + 1 ELSE 0
        /\ \A i \in 1 .. n - (k + 2) + 1 : z[i] = T[(k + 2) + i - 1]
    BY <2>2, <2>3, SubSeqProperties
  <2>5. /\ y \in Seq(B) /\ Len(y) = IF k + 2 <= n THEN n - (k + 2) + 1 ELSE 0
        /\ \A i \in 1 .. n - (k + 2) + 1 : y[i] = kept[(k + 2) + i - 1]
    BY <1>4, <2>1, SubSeqProperties
  <2>6. ASSUME NEW i \in 1 .. Len(z) PROVE z[i] = y[i]
    <3>1. i \in 1 .. n - (k + 2) + 1 /\ (k + 2) + i - 1 \in k + 2 .. n
      BY <2>4
    <3> QED BY <1>3, <2>4, <2>5, <3>1
  <2> QED BY <2>3, <2>4, <2>5, <2>6, SeqEqual
<1>6. n - (k + 1) > 0 \/ y = <<>>
  BY <1>4, SubSeqEmpty
<1>7. Remains(kept, k, x) = y
  BY <1>2, <1>5, <1>6
<1>8. PICK a \in Nat : a = k + 2 /\ 1 <= a /\ a <= Len(kept) + 1
  BY <1>1
<1>9. /\ SubSeq(kept \o wire, a, Len(kept \o wire)) = SubSeq(kept, a, Len(kept)) \o wire
      /\ SubSeq(kept, a, Len(kept)) \in Seq(B)
      /\ Len(SubSeq(kept, a, Len(kept))) = Len(kept) - a + 1
  BY <1>8, SuffixOfConcat
<1>10. Len(kept) - a + 1 = Len(kept) - (k + 1)
  BY <1>1, <1>8
<1> QED BY <1>1, <1>4, <1>7, <1>8, <1>9, <1>10

=============================================================================

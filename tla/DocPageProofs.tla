--------------------------- MODULE DocPageProofs ---------------------------
(***************************************************************************)
(* Theorems about a documentation page, for every index, every class tree  *)
(* and every habit of the reader.                                          *)
(***************************************************************************)
EXTENDS MCDocPage, SequenceTheorems, FiniteSetTheorems, WellFoundedInduction, TLAPS

LEMMA MinIs ==
  ASSUME NEW S \in SUBSET Nat, S # {}
  PROVE  Min(S) \in S
<1> DEFINE R == {ss \in Nat \X Nat : ss[1] < ss[2]}
<1>1. IsWellFoundedOn(R, Nat)
  BY NatLessThanWellFounded DEF OpToRel
<1>2. PICK x \in S : \A y \in S : ~ (<<y, x>> \in R)
  <2>. HIDE DEF R
  <2> QED BY <1>1, WFMin
<1>3. \A y \in S : ~ (y < x)
  BY <1>2
<1>4. \A y \in S : x <= y
  BY <1>3
<1> QED BY <1>4 DEF Min

-----------------------------------------------------------------------------
(* The class tree.                                                         *)

LEMMA PrefixIs ==
  ASSUME NEW a \in Seq(Nat), NEW b \in Seq(Nat)
  PROVE  IsPrefix(a, b) <=> Len(a) <= Len(b) /\ \A i \in 1 .. Len(a) : a[i] = b[i]
<1>. Len(a) \in Nat /\ Len(b) \in Nat
  BY LenProperties
<1> SUFFICES ASSUME Len(a) <= Len(b)
             PROVE  SubSeq(a, 1, Len(a)) = SubSeq(b, 1, Len(a)) <=> \A i \in 1 .. Len(a) : a[i] = b[i]
  BY DEF IsPrefix
<1>1. PICK n \in Nat : n = Len(a)
  OBVIOUS
<1>2. PICK x : x = SubSeq(a, 1, n)
  OBVIOUS
<1>3. PICK y : y = SubSeq(b, 1, n)
  OBVIOUS
<1>4. x \in Seq(Nat) /\ Len(x) = n /\ \A i \in 1 .. n : x[i] = a[i]
  BY <1>1, <1>2
<1>5. y \in Seq(Nat) /\ Len(y) = n /\ \A i \in 1 .. n : y[i] = b[i]
  BY <1>1, <1>3
<1>6. (\A i \in 1 .. n : a[i] = b[i]) => x = y
  <2> SUFFICES ASSUME \A i \in 1 .. n : a[i] = b[i] PROVE x = y
    OBVIOUS
  <2>1. \A i \in 1 .. Len(x) : x[i] = y[i]
    BY <1>4, <1>5
  <2> QED BY <1>4, <1>5, <2>1, SeqEqual
<1> QED BY <1>1, <1>2, <1>3, <1>4, <1>5, <1>6

LEMMA PrefixFacts ==
  ASSUME NEW a \in Seq(Nat), NEW b \in Seq(Nat), NEW c \in Seq(Nat)
  PROVE  /\ IsPrefix(a, c) /\ IsPrefix(b, c) /\ Len(a) <= Len(b) => IsPrefix(a, b)
         /\ IsPrefix(a, b) /\ IsPrefix(b, c) => IsPrefix(a, c)
         /\ IsPrefix(a, b) /\ Len(a) = Len(b) => a = b
<1>. Len(a) \in Nat /\ Len(b) \in Nat /\ Len(c) \in Nat
  BY LenProperties
<1>1. ASSUME IsPrefix(a, c), IsPrefix(b, c), Len(a) <= Len(b) PROVE IsPrefix(a, b)
  <2>1. \A i \in 1 .. Len(a) : i \in 1 .. Len(b) /\ a[i] = c[i]
    BY <1>1, PrefixIs
  <2>2. \A i \in 1 .. Len(b) : b[i] = c[i]
    BY <1>1, PrefixIs
  <2> QED BY <1>1, <2>1, <2>2, PrefixIs
<1>2. ASSUME IsPrefix(a, b), IsPrefix(b, c) PROVE IsPrefix(a, c)
  <2>1. Len(a) <= Len(b) /\ \A i \in 1 .. Len(a) : i \in 1 .. Len(b) /\ a[i] = b[i]
    BY <1>2, PrefixIs
  <2>2. Len(b) <= Len(c) /\ \A i \in 1 .. Len(b) : b[i] = c[i]
    BY <1>2, PrefixIs
  <2>3. Len(a) <= Len(c) /\ \A i \in 1 .. Len(a) : a[i] = c[i]
    BY <2>1, <2>2
  <2> QED BY <2>3, PrefixIs
<1>3. ASSUME IsPrefix(a, b), Len(a) = Len(b) PROVE a = b
  BY <1>3, PrefixIs, SeqEqual
<1> QED BY <1>1, <1>2, <1>3

LEMMA RowsAreIds == \A r \in TreeRows : r \in Seq(Nat) /\ Len(r) \in Nat
<1> SUFFICES ASSUME NEW r \in TreeRows PROVE r \in Seq(Nat)
  BY LenProperties
<1>1. Tree \in Seq(Seq(Nat))
  BY TreeAssumption
<1>2. PICK k \in DOMAIN Tree : r = Tree[k]
  BY DEF TreeRows, Range
<1> QED BY <1>1, <1>2, ElementOfSeq, LenProperties

(* A row has one parent; what is below a row below another is below that.  *)
LEMMA OneParent ==
  ASSUME NEW f \in TreeRows, NEW g \in TreeRows, NEW r, r \in ChildRows(f), r \in ChildRows(g)
  PROVE  f = g
<1>1. /\ r \in Seq(Nat) /\ f \in Seq(Nat) /\ g \in Seq(Nat)
      /\ Len(r) \in Nat /\ Len(f) \in Nat /\ Len(g) \in Nat
  BY RowsAreIds DEF ChildRows
<1>2. Len(r) = Len(f) + 1 /\ Len(r) = Len(g) + 1 /\ IsPrefix(f, r) /\ IsPrefix(g, r)
  BY DEF ChildRows
<1>3. Len(f) = Len(g)
  BY <1>1, <1>2
<1> QED BY <1>1, <1>2, <1>3, PrefixFacts

LEMMA BelowBelow ==
  ASSUME NEW id \in TreeRows, NEW f \in TreeRows, NEW r, r \in ChildRows(f)
  PROVE  /\ f = id \/ f \in Descendants(id) => r \in Descendants(id)
         /\ r \in Descendants(id) => f = id \/ f \in Descendants(id)
         /\ f \notin ChildRows(f)
<1>1. /\ r \in Seq(Nat) /\ f \in Seq(Nat) /\ id \in Seq(Nat) /\ r \in TreeRows
      /\ Len(r) \in Nat /\ Len(f) \in Nat /\ Len(id) \in Nat
  BY RowsAreIds DEF ChildRows
<1>2. Len(r) = Len(f) + 1 /\ IsPrefix(f, r)
  BY DEF ChildRows
<1>3. ASSUME f = id \/ f \in Descendants(id) PROVE r \in Descendants(id)
  <2>1. f = id \/ IsPrefix(id, f)
    BY <1>3 DEF Descendants
  <2>2. IsPrefix(id, r)
    BY <1>1, <1>2, <2>1, PrefixFacts
  <2>3. Len(id) <= Len(f)
    BY <1>1, <2>1, PrefixIs
  <2>4. r # id
    BY <1>1, <1>2, <2>3
  <2> QED BY <1>1, <2>2, <2>4 DEF Descendants
<1>4. ASSUME r \in Descendants(id) PROVE f = id \/ f \in Descendants(id)
  <2>1. IsPrefix(id, r) /\ r # id
    BY <1>4 DEF Descendants
  <2>2. Len(id) # Len(r)
    BY <1>1, <2>1, PrefixFacts
  <2>3. Len(id) <= Len(f)
    BY <1>1, <1>2, <2>1, <2>2, PrefixIs
  <2>4. IsPrefix(id, f)
    BY <1>1, <1>2, <2>1, <2>3, PrefixFacts
  <2> QED BY <2>4 DEF Descendants
<1>5. f \notin ChildRows(f)
  BY <1>1 DEF ChildRows
<1> QED BY <1>3, <1>4, <1>5

LEMMA FirstChildIs == ASSUME NEW id \in Folders PROVE FirstChild(id) \in ChildRows(id)
<1> DEFINE S == {k \in DOMAIN Tree : Tree[k] \in ChildRows(id)}
<1>1. DOMAIN Tree \subseteq Nat
  BY TreeAssumption
<1>2. S # {}
  BY DEF Folders, ChildRows, TreeRows, Range
<1>3. S \in SUBSET Nat
  BY <1>1
<1>. HIDE DEF S
<1>4. Min(S) \in S
  BY <1>2, <1>3, MinIs
<1> QED BY <1>4 DEF S, FirstChild

-----------------------------------------------------------------------------
(* The stripes: each row on display has a rank one above the one before.   *)
LEMMA RankIs ==
  ASSUME NEW rows, NEW k \in 1 .. Len(Tree)
  PROVE  Rank(rows, k) \in Nat
<1>1. IsFiniteSet(1 .. k)
  BY FS_Interval
<1>2. {j \in 1 .. k : Tree[j] \in rows} \subseteq 1 .. k
  OBVIOUS
<1>3. IsFiniteSet({j \in 1 .. k : Tree[j] \in rows})
  BY <1>1, <1>2, FS_Subset
<1> QED BY <1>3, FS_CardinalityType DEF Rank

LEMMA NextRank ==
  ASSUME NEW rows, NEW j \in 1 .. Len(Tree), NEW k \in 1 .. Len(Tree), j < k, Tree[k] \in rows,
         \A i \in j + 1 .. k - 1 : Tree[i] \notin rows
  PROVE  Rank(rows, k) = Rank(rows, j) + 1
<1>. Len(Tree) \in Nat
  BY TreeAssumption, LenProperties
<1> DEFINE S == {i \in 1 .. j : Tree[i] \in rows}
           T == {i \in 1 .. k : Tree[i] \in rows}
<1>1. T = S \cup {k}
  <2>1. ASSUME NEW i \in T PROVE i \in S \cup {k}
    <3>1. i \in 1 .. j \/ i \in j + 1 .. k - 1 \/ i = k
      OBVIOUS
    <3> QED BY <3>1
  <2>2. S \cup {k} \subseteq T
    OBVIOUS
  <2> QED BY <2>1, <2>2
<1>2. k \notin S
  OBVIOUS
<1>3. IsFiniteSet(S)
  <2>1. IsFiniteSet(1 .. j) /\ S \subseteq 1 .. j
    BY FS_Interval
  <2> QED BY <2>1, FS_Subset
<1>. HIDE DEF S, T
<1>4. Cardinality(S \cup {k}) = Cardinality(S) + 1
  BY <1>2, <1>3, FS_AddElement
<1>5. Cardinality(T) = Cardinality(S) + 1
  BY <1>1, <1>4
<1> QED BY <1>5 DEF S, T, Rank

LEMMA StripesAlternate ==
  ASSUME NEW rows, rows \subseteq TreeRows
  PROVE  /\ updateStripes(rows) \subseteq rows
         /\ \A j, k \in 1 .. Len(Tree) :
              /\ j < k /\ Tree[j] \in rows /\ Tree[k] \in rows
              /\ \A i \in j + 1 .. k - 1 : Tree[i] \notin rows
              => (Tree[j] \in updateStripes(rows) <=> Tree[k] \notin updateStripes(rows))
<1>1. updateStripes(rows) \subseteq rows
  BY DEF updateStripes
<1>2. ASSUME NEW k \in 1 .. Len(Tree)
      PROVE  Tree[k] \in updateStripes(rows) <=> Tree[k] \in rows /\ Rank(rows, k) % 2 = 1
  BY TreeAssumption DEF updateStripes
<1>3. ASSUME NEW j \in 1 .. Len(Tree), NEW k \in 1 .. Len(Tree),
             j < k, Tree[j] \in rows, Tree[k] \in rows,
             \A i \in j + 1 .. k - 1 : Tree[i] \notin rows
      PROVE  Tree[j] \in updateStripes(rows) <=> Tree[k] \notin updateStripes(rows)
  <2>1. PICK n \in Nat : n = Rank(rows, j)
    BY RankIs
  <2>2. Rank(rows, k) = n + 1
    BY <1>3, <2>1, NextRank
  <2>3. n % 2 = 1 <=> ~ ((n + 1) % 2 = 1)
    OBVIOUS
  <2> QED BY <1>2, <1>3, <2>1, <2>2, <2>3
<1> QED BY <1>1, <1>3

-----------------------------------------------------------------------------
(* The inductive invariant of the tree: in parts, as the arrows say it.    *)
Arrows(vis, open) ==
  \A id \in Folders :
    /\ id \notin vis => ChildRows(id) \cap vis = {}
    /\ id \in vis /\ id \in open => ChildRows(id) \subseteq vis
    /\ id \in vis /\ id \notin open => ChildRows(id) \cap vis = {}

TreeInv == visible \subseteq TreeRows /\ Arrows(visible, opened) /\ even = updateStripes(visible)

LEMMA TreeInvImplies == TreeInv => TreeConsistent
<1> SUFFICES ASSUME TreeInv PROVE TreeConsistent
  OBVIOUS
<1>1. visible \subseteq TreeRows /\ even = updateStripes(visible)
  BY DEF TreeInv
<1>2. \A id \in Folders :
        /\ id \notin visible => ChildRows(id) \cap visible = {}
        /\ id \in visible /\ id \in opened => ChildRows(id) \subseteq visible
        /\ id \in visible /\ id \notin opened => ChildRows(id) \cap visible = {}
  BY DEF TreeInv, Arrows
<1>3. /\ even \subseteq visible
      /\ \A j, k \in 1 .. Len(Tree) :
           /\ j < k /\ Tree[j] \in visible /\ Tree[k] \in visible
           /\ \A i \in j + 1 .. k - 1 : Tree[i] \notin visible
           => (Tree[j] \in even <=> Tree[k] \notin even)
  BY <1>1, StripesAlternate
<1> QED BY <1>2, <1>3 DEF TreeConsistent

LEMMA TreeInitInv == TreeInit => TreeInv
BY DEF TreeInit, TreeInv, Arrows, Folders, ChildRows

LEMMA LevelKeepsTree ==
  ASSUME TreeInv, NEW level \in Levels, toggleLevel(level)
  PROVE  TreeInv'
<1>1. level \in Nat
  BY RowsAreIds DEF Levels
<1>2. /\ visible' = {r \in TreeRows : Len(r) <= level}
      /\ opened' = {r \in Folders : Len(r) < level \/ (Len(r) > level /\ r \in opened)}
      /\ even' = updateStripes(visible')
  BY DEF toggleLevel
<1>3. Arrows(visible', opened')
  <2> SUFFICES ASSUME NEW id \in Folders
               PROVE  /\ id \notin visible' => ChildRows(id) \cap visible' = {}
                      /\ id \in visible' /\ id \in opened' => ChildRows(id) \subseteq visible'
                      /\ id \in visible' /\ id \notin opened' => ChildRows(id) \cap visible' = {}
    BY DEF Arrows
  <2>1. id \in TreeRows /\ Len(id) \in Nat
    BY RowsAreIds DEF Folders
  <2>2. \A r \in ChildRows(id) : r \in TreeRows /\ Len(r) = Len(id) + 1
    BY DEF ChildRows
  <2> QED BY <1>1, <1>2, <2>1, <2>2
<1> QED BY <1>2, <1>3 DEF TreeInv

LEMMA FolderKeepsTree ==
  ASSUME TreeInv, NEW id \in Folders, toggleFolder(id)
  PROVE  TreeInv'
<1>1. visible \subseteq TreeRows /\ Arrows(visible, opened) /\ id \in TreeRows /\ id \in visible
  BY DEF TreeInv, Folders, toggleFolder
<1>2. even' = updateStripes(visible')
  BY DEF toggleFolder
<1>3. CASE FirstChild(id) \in visible
  <2>1. visible' = visible \ Descendants(id) /\ opened' = opened \ {id}
    BY <1>3 DEF toggleFolder
  <2>2. ASSUME NEW f \in Folders
        PROVE  /\ f \notin visible' => ChildRows(f) \cap visible' = {}
               /\ f \in visible' /\ f \in opened' => ChildRows(f) \subseteq visible'
               /\ f \in visible' /\ f \notin opened' => ChildRows(f) \cap visible' = {}
    <3>1. f \in TreeRows
      BY DEF Folders
    <3>2. /\ f \notin visible => ChildRows(f) \cap visible = {}
          /\ f \in visible /\ f \in opened => ChildRows(f) \subseteq visible
          /\ f \in visible /\ f \notin opened => ChildRows(f) \cap visible = {}
      BY <1>1 DEF Arrows
    <3>3. \A r \in ChildRows(f) : /\ f = id \/ f \in Descendants(id) => r \in Descendants(id)
                                  /\ r \in Descendants(id) => f = id \/ f \in Descendants(id)
      BY <1>1, <3>1, BelowBelow
    <3> QED BY <2>1, <3>2, <3>3
  <2>3. Arrows(visible', opened')
    BY <2>2 DEF Arrows
  <2> QED BY <1>1, <1>2, <2>1, <2>3 DEF TreeInv
<1>4. CASE FirstChild(id) \notin visible
  <2>1. visible' = visible \cup ChildRows(id) /\ opened' = (opened \cup {id}) \ ChildRows(id)
    BY <1>4 DEF toggleFolder
  <2>2. ChildRows(id) \cap visible = {}
    BY <1>1, <1>4, FirstChildIs DEF Arrows
  <2>3. ASSUME NEW f \in Folders
        PROVE  /\ f \notin visible' => ChildRows(f) \cap visible' = {}
               /\ f \in visible' /\ f \in opened' => ChildRows(f) \subseteq visible'
               /\ f \in visible' /\ f \notin opened' => ChildRows(f) \cap visible' = {}
    <3>1. f \in TreeRows
      BY DEF Folders
    <3>2. /\ f \notin visible => ChildRows(f) \cap visible = {}
          /\ f \in visible /\ f \in opened => ChildRows(f) \subseteq visible
          /\ f \in visible /\ f \notin opened => ChildRows(f) \cap visible = {}
      BY <1>1 DEF Arrows
    <3>3. f # id => ChildRows(f) \cap ChildRows(id) = {}
      BY <1>1, <3>1, OneParent
    <3>4. id \notin ChildRows(id)
      <4>1. PICK r : r \in ChildRows(id)
        BY FirstChildIs
      <4> QED BY <1>1, <4>1, BelowBelow
    <3> QED BY <1>1, <2>1, <2>2, <3>2, <3>3, <3>4
  <2>4. Arrows(visible', opened')
    BY <2>3 DEF Arrows
  <2>5. visible' \subseteq TreeRows
    BY <1>1, <2>1 DEF ChildRows
  <2> QED BY <1>2, <2>4, <2>5 DEF TreeInv
<1> QED BY <1>3, <1>4

(* However levels and folders of the class tree are opened and closed, a   *)
(* visible row is below a visible one, the arrows of the visible folders   *)
(* tell the truth and the stripes alternate.                               *)
THEOREM TreeStaysTree == PageSpec => []TreeConsistent
<1>1. PageInit => TreeInv
  BY TreeInitInv DEF PageInit
<1>2. TreeInv /\ [PageNext]_<<vars, treeVars>> => TreeInv'
  <2> SUFFICES ASSUME TreeInv, PageNext \/ UNCHANGED <<vars, treeVars>> PROVE TreeInv'
    OBVIOUS
  <2>1. CASE TreeNext
    BY <2>1, LevelKeepsTree, FolderKeepsTree DEF TreeNext
  <2>2. CASE UNCHANGED treeVars
    BY <2>2 DEF treeVars, TreeInv
  <2> QED BY <2>1, <2>2 DEF PageNext
<1>3. TreeInv => TreeConsistent
  BY TreeInvImplies
<1> QED BY <1>1, <1>2, <1>3, PTL DEF PageSpec

-----------------------------------------------------------------------------
(* The search box.  Its inductive invariant, as a predicate of the record, *)
(* so that it can be followed through the handlers: a box with the focus   *)
(* in the field searches, one that does not search shows its label, a last *)
(* search and a focus in the results belong to results on display.         *)
FocusType == [at : {"none", "field", "select", "row"}, item : Int, child : Int]

BoxInv(b) ==
  /\ b \in Boxes
  /\ b.keyTimeout => b.timers > 0
  /\ b.searchActive => b.active
  /\ ~ b.searchActive => b.value = searchLabel
  /\ b.focus = Field => b.searchActive
  /\ b.lastSearchValue # <<>> => b.popup
  /\ b.focus.at = "row" => b.popup
  /\ b.location # NoLocation => b.location.page \in DOMAIN searchData \cup {"nomatches"}

(* For a patient reader: at most one timer runs, the box knows it, and no  *)
(* selection is under way; a box that was left is closed.                  *)
Quiet(b, key) ==
  b.timers > 0 => b.timers = 1 /\ b.keyTimeout /\ b.focus # Select /\ key # "shift-down"

Closed(b) ==
  b.active \/ (~ b.popup /\ b.timers = 0 /\ b.value = searchLabel /\ b.lastSearchValue = <<>>)

(* The text in the field is the last one searched or is about to be; that  *)
(* of a hasty reader may be neither while older results are open.          *)
LastSearched(b) == b.lastSearchValue \in {StripAll(b.value), StripLeading(b.value)}

Answered(b) ==
  \/ StripAll(b.value) = <<>> \/ b.timers > 0 \/ SearchThrows(b)
  \/ b.popup /\ ("hasty" \in faults \/ LastSearched(b))
  \/ b.focus # Field /\ b.value = searchLabel

(* While the results are open, the document for the last text searched is  *)
(* in the frame or on its way.                                             *)
AskedFor(b, place) ==
  \E section \in DOMAIN indexSections : place = Place(section, b.lastSearchValue)

OnTheWay(b, f) ==
  b.popup =>
    \/ AskedFor(b, b.location)
    \/ /\ b.location = NoLocation
       /\ \E section \in DOMAIN indexSections :
            LET place == Place(section, b.lastSearchValue)
            IN  f.page = place.page /\ f.shown = LoadedFrame(place).shown

(* A handler keeps the last search and what it asked for, or searches.     *)
Follows(b, r) ==
  r.popup =>
    \/ b.popup /\ r.lastSearchValue = b.lastSearchValue /\ r.location = b.location
    \/ AskedFor(r, r.location)

SameRows(f, g) == g.page = f.page /\ g.shown = f.shown

LEMMA OnTheWayKept ==
  ASSUME NEW b, NEW f, NEW r, NEW g, OnTheWay(b, f), Follows(b, r), SameRows(f, g)
  PROVE  OnTheWay(r, g)
BY DEF OnTheWay, Follows, SameRows, AskedFor

LEMMA FollowsOn ==
  ASSUME NEW b, NEW c, NEW r, Follows(b, c), Follows(c, r)
  PROVE  Follows(b, r)
BY DEF Follows, AskedFor

LEMMA SearchFacts ==
  /\ SelectItemCount \in Nat /\ DOMAIN indexSections = 0 .. SelectItemCount - 1
  /\ searchLabel \in Texts /\ <<>> \in Texts /\ Typed \subseteq Texts
<1>1. SelectItemCount \in Nat /\ DOMAIN indexSections = 0 .. SelectItemCount - 1
  BY SearchAssumption, FS_CardinalityType DEF SelectItemCount
<1>2. \A S, T : \A text \in Seq(S) : text \in Seq(S \cup T) /\ text \in Seq(T \cup S)
  OBVIOUS
<1>3. searchLabel \in Texts
  BY <1>2, SearchAssumption DEF Texts
<1>4. Typed \subseteq Texts
  BY <1>2, SearchAssumption DEF Texts
<1> QED BY <1>1, <1>3, <1>4 DEF Texts

LEMMA StripAllEmpty == StripAll(<<>>) = <<>>
<1> DEFINE Kept(f) == f = [k \in 0 .. 0 |->
                             IF k = 0 THEN <<>>
                             ELSE IF <<>>[k] = Blank THEN f[k - 1] ELSE Append(f[k - 1], <<>>[k])]
<1>1. StripAll(<<>>) = (CHOOSE f : Kept(f))[0]
  BY DEF StripAll
<1>2. Kept([k \in 0 .. 0 |-> <<>>])
  OBVIOUS
<1>3. PICK g : g = CHOOSE f : Kept(f)
  OBVIOUS
<1>4. Kept(g)
  BY <1>2, <1>3
<1>5. g[0] = <<>>
  BY <1>4
<1> QED BY <1>1, <1>3, <1>5

LEMMA StripLeadingType ==
  ASSUME NEW text \in Texts
  PROVE  StripLeading(text) \in Texts
<1>. DEFINE kept == {k \in DOMAIN text : \E j \in 1 .. k : text[j] # Blank}
<1>1. PICK n \in Nat : n = Len(text) /\ DOMAIN text = 1 .. n
  BY LenProperties DEF Texts
<1>2. IsFiniteSet(1 .. n) /\ Cardinality(1 .. n) = n
  BY FS_Interval
<1>3. kept \subseteq 1 .. n
  BY <1>1
<1>. HIDE DEF kept
<1>4. Cardinality(kept) \in Nat /\ Cardinality(kept) <= n
  BY <1>2, <1>3, FS_Subset, FS_CardinalityType
<1>5. PICK c \in Nat : c = Cardinality(kept) /\ c <= n
  BY <1>4
<1>6. SubSeq(text, n - c + 1, n) \in Texts
  BY <1>1, <1>5 DEF Texts
<1> QED BY <1>1, <1>5, <1>6 DEF StripLeading, kept

-----------------------------------------------------------------------------
(* What the handlers do to a box.                                          *)
SameElse(b, r) ==
  /\ r.popup = b.popup /\ r.select = b.select /\ r.searchIndex = b.searchIndex
  /\ r.keyTimeout = b.keyTimeout /\ r.timers = b.timers
  /\ r.hideTimeout = b.hideTimeout /\ r.location = b.location

Entered(b, r) ==
  /\ r.active /\ r.searchActive = (b.searchActive \/ b.value = searchLabel)
  /\ r.value = IF b.value = searchLabel THEN <<>> ELSE b.value
  /\ r.lastSearchValue = b.lastSearchValue

LeftAlone(r) ==
  ~ r.active /\ ~ r.searchActive /\ r.value = searchLabel /\ r.lastSearchValue = <<>>

LEMMA ActivateFacts ==
  ASSUME NEW b \in Boxes, NEW isActive \in BOOLEAN
  PROVE  /\ Activate(b, isActive) \in Boxes /\ Activate(b, isActive).focus = b.focus
         /\ SameElse(b, Activate(b, isActive))
         /\ isActive \/ b.popup => Entered(b, Activate(b, isActive))
         /\ ~ (isActive \/ b.popup) => LeftAlone(Activate(b, isActive))
<1>1. CASE isActive \/ b.popup
  <2>1. PICK r : r = [b EXCEPT !.active = TRUE,
                               !.value = IF b.value = searchLabel THEN <<>> ELSE b.value,
                               !.searchActive = b.searchActive \/ b.value = searchLabel]
    OBVIOUS
  <2>2. Activate(b, isActive) = r
    BY <1>1, <2>1 DEF Activate
  <2>3. r \in Boxes
    BY <2>1, SearchFacts DEF Boxes
  <2>4. r.focus = b.focus /\ SameElse(b, r) /\ Entered(b, r)
    BY <2>1 DEF Boxes, SameElse, Entered
  <2> QED BY <1>1, <2>2, <2>3, <2>4
<1>2. CASE ~ (isActive \/ b.popup)
  <2>1. PICK r : r = [b EXCEPT !.active = FALSE, !.value = searchLabel,
                               !.searchActive = FALSE, !.lastSearchValue = <<>>]
    OBVIOUS
  <2>2. Activate(b, isActive) = r
    BY <1>2, <2>1 DEF Activate
  <2>3. r \in Boxes
    BY <2>1, SearchFacts DEF Boxes
  <2>4. r.focus = b.focus /\ SameElse(b, r) /\ LeftAlone(r)
    BY <2>1 DEF Boxes, SameElse, LeftAlone
  <2> QED BY <1>2, <2>2, <2>3, <2>4
<1> QED BY <1>1, <1>2

SameText(b, r) ==
  /\ r.active = b.active /\ r.searchActive = b.searchActive
  /\ r.value = b.value /\ r.lastSearchValue = b.lastSearchValue

(* element.focus(): the field is left, entered, or not concerned.          *)
Moved(b, r, e) ==
  /\ r \in Boxes /\ r.focus = e /\ SameElse(b, r)
  /\ \/ (b.focus = e \/ (b.focus # Field /\ e # Field)) /\ SameText(b, r)
     \/ b.focus = Field /\ e # Field /\ ~ b.popup /\ LeftAlone(r)
     \/ b.focus = Field /\ e # Field /\ b.popup /\ Entered(b, r)
     \/ b.focus # Field /\ e = Field /\ Entered(b, r)

LEMMA FocusFacts ==
  ASSUME NEW b \in Boxes, NEW e \in FocusType
  PROVE  Moved(b, FocusOn(b, e), e)
<1>1. PICK m : m = [b EXCEPT !.focus = e]
  OBVIOUS
<1>2. m \in Boxes /\ m.focus = e /\ SameElse(b, m) /\ SameText(b, m)
  BY <1>1 DEF Boxes, FocusType, SameElse, SameText
<1>3. CASE b.focus = e
  <2>1. FocusOn(b, e) = b
    BY <1>3 DEF FocusOn
  <2> QED BY <1>3, <2>1 DEF Moved, SameElse, SameText
<1>4. CASE b.focus # e /\ b.focus = Field
  <2>1. FocusOn(b, e) = Activate(m, FALSE)
    BY <1>1, <1>4 DEF FocusOn
  <2>2. PICK r : r = Activate(m, FALSE)
    OBVIOUS
  <2>3. /\ r \in Boxes /\ r.focus = e /\ SameElse(m, r)
        /\ m.popup => Entered(m, r)
        /\ ~ m.popup => LeftAlone(r)
    BY <1>2, <2>2, ActivateFacts
  <2>4. r \in Boxes /\ r.focus = e /\ SameElse(b, r)
    BY <1>2, <2>3 DEF SameElse
  <2>5. CASE b.popup
    <3>1. Entered(b, r)
      BY <1>2, <2>3, <2>5 DEF SameElse, SameText, Entered
    <3> QED BY <1>4, <2>1, <2>2, <2>4, <2>5, <3>1 DEF Moved
  <2>6. CASE ~ b.popup
    <3>1. LeftAlone(r)
      BY <1>2, <2>3, <2>6 DEF SameElse
    <3> QED BY <1>4, <2>1, <2>2, <2>4, <2>6, <3>1 DEF Moved
  <2> QED BY <2>5, <2>6
<1>5. CASE b.focus # e /\ b.focus # Field /\ e = Field
  <2>1. FocusOn(b, e) = Activate(m, TRUE)
    BY <1>1, <1>5 DEF FocusOn
  <2>2. PICK r : r = Activate(m, TRUE)
    OBVIOUS
  <2>3. r \in Boxes /\ r.focus = e /\ SameElse(m, r) /\ Entered(m, r)
    BY <1>2, <2>2, ActivateFacts
  <2> QED BY <1>2, <1>5, <2>1, <2>2, <2>3 DEF Moved, SameElse, SameText, Entered
<1>6. CASE b.focus # e /\ b.focus # Field /\ e # Field
  <2>1. FocusOn(b, e) = m
    BY <1>1, <1>6 DEF FocusOn
  <2> QED BY <1>2, <1>6, <2>1 DEF Moved
<1> QED BY <1>3, <1>4, <1>5, <1>6

(* Moving the focus leaves a text answered: a box that is left without     *)
(* results shows its label.                                                *)
LEMMA FocusKeepsBox ==
  ASSUME NEW b, BoxInv(b), NEW e \in FocusType, e.at = "row" => b.popup
  PROVE  /\ BoxInv(FocusOn(b, e)) /\ Moved(b, FocusOn(b, e), e) /\ Follows(b, FocusOn(b, e))
         /\ Closed(b) /\ (b.focus = Field /\ e # Field => b.timers = 0 \/ b.popup)
              => Closed(FocusOn(b, e))
         /\ Answered(b) \/ (b.focus = Field /\ e # Field /\ ~ b.popup) => Answered(FocusOn(b, e))
<1>1. PICK r : r = FocusOn(b, e)
  OBVIOUS
<1>2. b \in Boxes
  BY DEF BoxInv
<1>3. Moved(b, r, e)
  BY <1>1, <1>2, FocusFacts
<1>4. r.searchActive => r.active
  BY <1>3 DEF BoxInv, Moved, SameText, Entered, LeftAlone
<1>5. ~ r.searchActive => r.value = searchLabel
  BY <1>3 DEF BoxInv, Moved, SameText, Entered, LeftAlone
<1>6. r.focus = Field => r.searchActive
  BY <1>3 DEF BoxInv, Moved, SameText, Entered, LeftAlone
<1>7. r.lastSearchValue # <<>> => r.popup
  BY <1>3 DEF BoxInv, Moved, SameElse, SameText, Entered, LeftAlone
<1>8. r.keyTimeout => r.timers > 0
  BY <1>3 DEF BoxInv, Moved, SameElse
<1>9. r.location # NoLocation => r.location.page \in DOMAIN searchData \cup {"nomatches"}
  BY <1>3 DEF BoxInv, Moved, SameElse
<1>10. BoxInv(r)
  BY <1>3, <1>4, <1>5, <1>6, <1>7, <1>8, <1>9 DEF BoxInv, Moved, SameElse
<1>11. ASSUME Closed(b), b.focus = Field /\ e # Field => b.timers = 0 \/ b.popup
       PROVE  Closed(r)
  BY <1>3, <1>11 DEF Moved, SameElse, SameText, Entered, LeftAlone, Closed
<1>12. SearchThrows(b) <=> SearchThrows(r)
  BY <1>3 DEF Moved, SameElse, SearchThrows
<1>13. ASSUME Answered(b) \/ (b.focus = Field /\ e # Field /\ ~ b.popup)
       PROVE  Answered(r)
  <2>1. CASE b.focus = e \/ (b.focus # Field /\ e # Field)
    BY <1>3, <1>12, <1>13, <2>1 DEF Moved, SameElse, SameText, Answered, LastSearched
  <2>2. CASE b.focus = Field /\ e # Field
    <3>1. CASE ~ b.popup
      BY <1>3, <2>2, <3>1 DEF Moved, LeftAlone, Answered
    <3>2. CASE b.popup /\ b.value = searchLabel
      BY <1>3, <2>2, <3>2, StripAllEmpty DEF Moved, Entered, Answered
    <3>3. CASE b.popup /\ b.value # searchLabel
      BY <1>3, <1>12, <1>13, <2>2, <3>3 DEF Moved, SameElse, Entered, Answered, LastSearched
    <3> QED BY <3>1, <3>2, <3>3
  <2>3. CASE b.focus # Field /\ e = Field
    <3>1. SameElse(b, r) /\ Entered(b, r)
      BY <1>3, <2>3 DEF Moved
    <3>2. CASE b.value = searchLabel
      BY <3>1, <3>2, StripAllEmpty DEF Entered, Answered
    <3>3. CASE b.value # searchLabel
      BY <1>12, <1>13, <2>3, <3>1, <3>3 DEF SameElse, Entered, Answered, LastSearched
    <3> QED BY <3>2, <3>3
  <2> QED BY <2>1, <2>2, <2>3
<1>14. Follows(b, r)
  BY <1>3 DEF Moved, SameElse, SameText, Entered, Follows
<1> QED BY <1>1, <1>3, <1>10, <1>11, <1>13, <1>14

(* Search: only the place to load, the results window and what was last    *)
(* searched change, none of them when it throws.                           *)
SameBox(b, r) ==
  /\ r \in Boxes /\ r.focus = b.focus /\ r.timers = b.timers /\ r.value = b.value
  /\ r.active = b.active /\ r.searchActive = b.searchActive

Unsearched(b, r) ==
  r.popup = b.popup /\ r.lastSearchValue = b.lastSearchValue /\ r.location = b.location

Pages == DOMAIN searchData \cup {"nomatches"}

Found(r) ==
  /\ r.popup /\ r.location.page \in Pages
  /\ r.lastSearchValue = StripLeading(r.value) /\ AskedFor(r, r.location)

Searched(b, r) ==
  /\ SameBox(b, r) /\ r.searchIndex = b.searchIndex /\ ~ r.keyTimeout
  /\ \/ SearchThrows(b) /\ Unsearched(b, r)
     \/ Found(r)

LEMMA ResultsPageType ==
  ASSUME NEW section \in DOMAIN indexSections, NEW text
  PROVE  ResultsPage(section, text) \in Pages
<1>1. PICK chars : chars = indexSections[section].chars
  OBVIOUS
<1>2. PICK pages : pages = indexSections[section].pages
  OBVIOUS
<1>3. pages \in Seq(DOMAIN searchData) /\ DOMAIN chars = DOMAIN pages
  BY <1>1, <1>2, SearchAssumption
<1>4. PICK found : found = {k \in DOMAIN chars : text = <<>> \/ chars[k] = Lower(text)[1]}
  OBVIOUS
<1>5. ResultsPage(section, text) = IF found = {} THEN "nomatches" ELSE pages[Min(found)]
  BY <1>1, <1>2, <1>4 DEF ResultsPage
<1>6. DOMAIN pages = 1 .. Len(pages) /\ Len(pages) \in Nat
  BY <1>3, LenProperties
<1>7. found \subseteq Nat /\ found \subseteq DOMAIN pages
  BY <1>3, <1>4, <1>6
<1>8. ASSUME found # {} PROVE pages[Min(found)] \in DOMAIN searchData
  <2>1. PICK k : k = Min(found)
    OBVIOUS
  <2>2. k \in DOMAIN pages
    BY <1>7, <1>8, <2>1, MinIs
  <2> QED BY <1>3, <1>6, <2>1, <2>2, ElementOfSeq
<1> QED BY <1>5, <1>8 DEF Pages

LEMMA SearchFactsOfBox ==
  ASSUME NEW b \in Boxes
  PROVE  Searched(b, Search(b))
<1>1. PICK r0 : r0 = [b EXCEPT !.keyTimeout = FALSE]
  OBVIOUS
<1>2. /\ r0 \in Boxes /\ SameBox(b, r0) /\ Unsearched(b, r0)
      /\ r0.searchIndex = b.searchIndex /\ r0.keyTimeout = FALSE
  BY <1>1 DEF Boxes, SameBox, Unsearched
<1>3. CASE SearchThrows(b)
  <2>1. Search(b) = r0
    BY <1>1, <1>3 DEF Search
  <2> QED BY <1>2, <1>3, <2>1 DEF Searched
<1>4. CASE ~ SearchThrows(b)
  <2>1. PICK text : text = StripLeading(b.value)
    OBVIOUS
  <2>2. text \in Texts
    <3>1. b.value \in Texts
      BY DEF Boxes
    <3> QED BY <2>1, <3>1, StripLeadingType
  <2>3. PICK page : page = ResultsPage(b.searchIndex, text)
    OBVIOUS
  <2>4. page \in Pages
    BY <1>4, <2>3, ResultsPageType DEF SearchThrows
  <2>5. PICK place : place = Place(b.searchIndex, text)
    OBVIOUS
  <2>6. /\ place \in [page : DOMAIN searchData \union {"none", "nomatches"}, search : Texts]
        /\ place.page \in Pages
    BY <2>2, <2>3, <2>4, <2>5, SearchFacts DEF Place, Pages
  <2>7. PICK r : r = [r0 EXCEPT !.location = place, !.popup = TRUE, !.lastSearchValue = text]
    OBVIOUS
  <2>8. Search(b) = r
    BY <1>1, <1>4, <2>1, <2>5, <2>7 DEF Search
  <2>9. /\ r \in Boxes /\ r.popup /\ r.location = place /\ r.focus = r0.focus
        /\ r.lastSearchValue = text /\ r.timers = r0.timers /\ r.value = r0.value /\ r.active = r0.active
        /\ r.searchActive = r0.searchActive /\ r.searchIndex = r0.searchIndex
        /\ r.keyTimeout = r0.keyTimeout
    BY <1>2, <2>2, <2>6, <2>7 DEF Boxes
  <2>10. Found(r)
    BY <1>2, <1>4, <2>1, <2>5, <2>6, <2>9 DEF SearchThrows, SameBox, Found, AskedFor
  <2> QED BY <1>2, <2>8, <2>9, <2>10 DEF Searched, SameBox
<1> QED BY <1>3, <1>4

(* OnSelectItem searches again only for a text that is searched for.       *)
Picked(b, r, id) ==
  /\ SameBox(b, r) /\ r.searchIndex = id
  /\ r.keyTimeout => b.keyTimeout
  /\ \/ ~ Searches(b) /\ Unsearched(b, r)
     \/ SearchThrows(r) /\ Unsearched(b, r)
     \/ Searches(b) /\ Found(r)

LEMMA SelectFacts ==
  ASSUME NEW b \in Boxes, NEW id \in 0 .. SelectItemCount
  PROVE  Picked(b, OnSelectItem(b, id), id)
<1>1. PICK c : c = [b EXCEPT !.searchIndex = id]
  OBVIOUS
<1>2. c \in Boxes /\ SameBox(b, c) /\ Unsearched(b, c) /\ c.searchIndex = id /\ c.keyTimeout = b.keyTimeout
  BY <1>1 DEF Boxes, SameBox, Unsearched
<1>3. CASE Searches(b)
  <2>1. PICK r : r = Search(c)
    OBVIOUS
  <2>2. OnSelectItem(b, id) = r
    BY <1>1, <1>3, <2>1 DEF OnSelectItem
  <2>3. Searched(c, r)
    BY <1>2, <2>1, SearchFactsOfBox
  <2> QED BY <1>2, <1>3, <2>2, <2>3 DEF Searched, SameBox, Unsearched, Picked, SearchThrows
<1>4. CASE ~ Searches(b)
  <2>1. OnSelectItem(b, id) = c
    BY <1>1, <1>4 DEF OnSelectItem
  <2> QED BY <1>2, <1>4, <2>1 DEF Picked
<1> QED BY <1>3, <1>4

LEMMA SelectKeepsBox ==
  ASSUME NEW b, BoxInv(b), NEW id \in 0 .. SelectItemCount
  PROVE  /\ BoxInv(OnSelectItem(b, id)) /\ Picked(b, OnSelectItem(b, id), id)
         /\ Follows(b, OnSelectItem(b, id)) /\ (Closed(b) => Closed(OnSelectItem(b, id)))
         /\ b.focus # Field => Answered(OnSelectItem(b, id))
<1>1. PICK r : r = OnSelectItem(b, id)
  OBVIOUS
<1>2. Picked(b, r, id)
  BY <1>1, SelectFacts DEF BoxInv
<1>3. BoxInv(r)
  BY <1>2 DEF Picked, SameBox, Unsearched, Found, BoxInv, Pages
<1>4. Closed(b) => Closed(r)
  <2>1. CASE Unsearched(b, r)
    BY <1>2, <2>1 DEF Picked, SameBox, Unsearched, Closed
  <2>2. CASE Searches(b)
    BY <1>2, <2>2 DEF Picked, SameBox, Searches, BoxInv, Closed
  <2> QED BY <1>2, <2>1, <2>2 DEF Picked
<1>5. b.focus # Field => Answered(r)
  <2>1. CASE Searches(b)
    BY <1>2, <2>1 DEF Picked, Found, Answered, LastSearched
  <2>2. CASE ~ Searches(b)
    BY <1>2, <2>2 DEF Picked, SameBox, Answered, Searches, BoxInv
  <2> QED BY <2>1, <2>2
<1>6. Follows(b, r)
  BY <1>2 DEF Picked, Unsearched, Found, Follows
<1> QED BY <1>1, <1>2, <1>3, <1>4, <1>5, <1>6

(* KillTimer stops the timer that the box knows: all of them, for a        *)
(* patient reader.                                                         *)
LEMMA KillKeepsBox ==
  ASSUME NEW b, BoxInv(b)
  PROVE  /\ BoxInv(KillTimer(b)) /\ ~ KillTimer(b).keyTimeout
         /\ KillTimer(b).focus = b.focus /\ KillTimer(b).popup = b.popup
         /\ SameText(b, KillTimer(b)) /\ KillTimer(b).timers <= b.timers
         /\ Follows(b, KillTimer(b)) /\ (b.timers = 0 /\ Answered(b) => Answered(KillTimer(b)))
         /\ \A key : Quiet(b, key) => KillTimer(b).timers = 0
<1>1. PICK n : n = IF b.keyTimeout THEN b.timers - 1 ELSE b.timers
  OBVIOUS
<1>2. n \in Nat /\ n <= b.timers
  BY <1>1 DEF BoxInv, Boxes
<1>3. PICK r : r = [b EXCEPT !.keyTimeout = FALSE, !.timers = n]
  OBVIOUS
<1>4. KillTimer(b) = r
  BY <1>1, <1>3 DEF KillTimer
<1>5. b \in Boxes
  BY DEF BoxInv
<1>6. /\ r \in Boxes /\ ~ r.keyTimeout /\ r.timers = n /\ SameText(b, r) /\ Unsearched(b, r)
      /\ r.focus = b.focus /\ r.searchIndex = b.searchIndex
  BY <1>2, <1>3, <1>5 DEF Boxes, SameText, Unsearched
<1>7. BoxInv(r)
  BY <1>6 DEF BoxInv, SameText, Unsearched
<1>8. \A key : Quiet(b, key) => n = 0
  <2>1. b.timers \in Nat
    BY <1>5 DEF Boxes
  <2> QED BY <1>1, <2>1 DEF Quiet, BoxInv
<1>9. Follows(b, r) /\ (b.timers = 0 /\ Answered(b) => Answered(r))
  BY <1>6 DEF SameText, Unsearched, Follows, Answered, LastSearched, SearchThrows
<1> QED BY <1>2, <1>4, <1>6, <1>7, <1>8, <1>9 DEF Unsearched

LEMMA ChangeKeepsBox ==
  ASSUME NEW b, BoxInv(b), b.active, b.focus # Select
  PROVE  /\ BoxInv(SearchIfChanged(b)) /\ Answered(SearchIfChanged(b))
         /\ Follows(b, SearchIfChanged(b))
         /\ SearchIfChanged(b).active /\ SearchIfChanged(b).focus \in {b.focus, Nowhere}
         /\ b.timers = 0 => Quiet(SearchIfChanged(b), "none")
<1>1. PICK r : r = SearchIfChanged(b)
  OBVIOUS
<1>2. b \in Boxes
  BY DEF BoxInv
<1>3. CASE StripAll(b.value) = b.lastSearchValue
  <2>1. r = b
    BY <1>1, <1>3 DEF SearchIfChanged
  <2>2. Answered(r) /\ Follows(b, r)
    BY <1>3, <2>1 DEF BoxInv, Answered, LastSearched, Follows
  <2>3. b.timers = 0 => Quiet(r, "none")
    BY <2>1 DEF Quiet
  <2> QED BY <1>1, <2>1, <2>2, <2>3
<1>4. CASE StripAll(b.value) # b.lastSearchValue /\ StripAll(b.value) = <<>>
  <2>1. PICK e : e = IF b.focus.at = "row" THEN Nowhere ELSE b.focus
    OBVIOUS
  <2>2. r = [b EXCEPT !.popup = FALSE, !.lastSearchValue = <<>>, !.focus = e]
    BY <1>1, <1>4, <2>1 DEF SearchIfChanged
  <2>3. e \in FocusType /\ e.at # "row" /\ e \in {b.focus, Nowhere} /\ e # Select
    BY <1>2, <2>1 DEF Boxes, FocusType, Nowhere, Select, NoItem
  <2>4. e = Field => b.focus = Field
    BY <2>1 DEF Nowhere, Field
  <2>5. /\ r \in Boxes /\ r.focus = e /\ ~ r.popup /\ r.lastSearchValue = <<>>
        /\ r.keyTimeout = b.keyTimeout /\ r.timers = b.timers /\ r.active = b.active
        /\ r.searchActive = b.searchActive /\ r.value = b.value /\ r.location = b.location
    BY <1>2, <2>2, <2>3, SearchFacts DEF Boxes, FocusType
  <2>6. BoxInv(r)
    BY <2>3, <2>4, <2>5 DEF BoxInv
  <2>7. Answered(r) /\ Follows(b, r)
    BY <1>4, <2>5 DEF Answered, Follows
  <2>8. b.timers = 0 => Quiet(r, "none")
    BY <2>5 DEF Quiet
  <2> QED BY <1>1, <2>3, <2>5, <2>6, <2>7, <2>8
<1>5. CASE StripAll(b.value) # b.lastSearchValue /\ StripAll(b.value) # <<>>
  <2>1. PICK n : n = b.timers + 1
    OBVIOUS
  <2>2. n \in Nat /\ n > 0 /\ (b.timers = 0 => n = 1)
    BY <1>2, <2>1 DEF Boxes
  <2>3. r = [b EXCEPT !.keyTimeout = TRUE, !.timers = n]
    BY <1>1, <1>5, <2>1 DEF SearchIfChanged
  <2>4. /\ r \in Boxes /\ r.keyTimeout /\ r.timers = n /\ SameText(b, r) /\ Unsearched(b, r)
        /\ r.focus = b.focus
    BY <1>2, <2>2, <2>3 DEF Boxes, SameText, Unsearched
  <2>5. BoxInv(r)
    BY <2>2, <2>4 DEF BoxInv, SameText, Unsearched
  <2>6. Answered(r) /\ Follows(b, r)
    BY <2>2, <2>4 DEF Answered, SameText, Unsearched, Follows
  <2>7. b.timers = 0 => Quiet(r, "none")
    BY <2>2, <2>4 DEF Quiet
  <2> QED BY <1>1, <2>4, <2>5, <2>6, <2>7 DEF SameText
<1> QED BY <1>3, <1>4, <1>5

(* A window that closes takes the focus with it.                           *)
LEMMA CloseSelectKeepsBox ==
  ASSUME NEW b, BoxInv(b)
  PROVE  /\ BoxInv(CloseSelectionWindow(b)) /\ CloseSelectionWindow(b).timers = b.timers
         /\ CloseSelectionWindow(b).focus \in {b.focus, Nowhere}
         /\ CloseSelectionWindow(b).focus # Select
         /\ CloseSelectionWindow(b).keyTimeout = b.keyTimeout
         /\ Follows(b, CloseSelectionWindow(b))
         /\ Closed(b) => Closed(CloseSelectionWindow(b))
         /\ Answered(b) => Answered(CloseSelectionWindow(b))
<1>1. PICK e : e = IF b.focus = Select THEN Nowhere ELSE b.focus
  OBVIOUS
<1>2. b \in Boxes
  BY DEF BoxInv
<1>3. e \in FocusType /\ e \in {b.focus, Nowhere} /\ e # Select /\ Nowhere.at # "row" /\ Nowhere # Field
  BY <1>1, <1>2 DEF Boxes, FocusType, Nowhere, Select, Field, NoItem
<1>4. PICK r : r = [b EXCEPT !.select = FALSE, !.focus = e]
  OBVIOUS
<1>5. CloseSelectionWindow(b) = r
  BY <1>1, <1>4 DEF CloseSelectionWindow
<1>6. /\ r \in Boxes /\ r.focus = e /\ r.keyTimeout = b.keyTimeout /\ r.timers = b.timers
      /\ SameText(b, r) /\ Unsearched(b, r) /\ r.searchIndex = b.searchIndex
  BY <1>2, <1>3, <1>4 DEF Boxes, FocusType, SameText, Unsearched
<1>7. BoxInv(r)
  BY <1>3, <1>6 DEF BoxInv, SameText, Unsearched
<1>8. Closed(b) => Closed(r)
  BY <1>6 DEF Closed, SameText, Unsearched
<1>9. Follows(b, r) /\ (Answered(b) => Answered(r))
  BY <1>3, <1>6 DEF Answered, LastSearched, SameText, Unsearched, SearchThrows, Follows
<1> QED BY <1>3, <1>5, <1>6, <1>7, <1>8, <1>9

(* CloseResultsWindow leaves the box inactive, from any focus but the field.*)
LEMMA CloseResultsKeepsBox ==
  ASSUME NEW b, BoxInv(b), b.focus # Field
  PROVE  /\ BoxInv(CloseResultsWindow(b)) /\ CloseResultsWindow(b).timers = b.timers
         /\ CloseResultsWindow(b).keyTimeout = b.keyTimeout
         /\ CloseResultsWindow(b).focus # Field /\ CloseResultsWindow(b).focus.at # "row"
         /\ CloseResultsWindow(b).focus \in {b.focus, Nowhere}
         /\ LeftAlone(CloseResultsWindow(b)) /\ ~ CloseResultsWindow(b).popup
<1>1. PICK e : e = IF b.focus.at = "row" THEN Nowhere ELSE b.focus
  OBVIOUS
<1>2. b \in Boxes
  BY DEF BoxInv
<1>3. e \in FocusType /\ e \in {b.focus, Nowhere} /\ e.at # "row" /\ e # Field
  BY <1>1, <1>2 DEF Boxes, FocusType, Nowhere, Field, NoItem
<1>4. PICK c : c = [b EXCEPT !.popup = FALSE, !.focus = e]
  OBVIOUS
<1>5. /\ c \in Boxes /\ c.focus = e /\ ~ c.popup /\ c.timers = b.timers
      /\ c.keyTimeout = b.keyTimeout /\ c.location = b.location
  BY <1>2, <1>3, <1>4 DEF Boxes, FocusType
<1>6. PICK r : r = Activate(c, FALSE)
  OBVIOUS
<1>7. CloseResultsWindow(b) = r
  BY <1>1, <1>4, <1>6 DEF CloseResultsWindow
<1>8. r \in Boxes /\ r.focus = c.focus /\ SameElse(c, r) /\ LeftAlone(r)
  BY <1>5, <1>6, ActivateFacts
<1>9. BoxInv(r)
  BY <1>3, <1>5, <1>8 DEF BoxInv, SameElse, LeftAlone
<1> QED BY <1>3, <1>5, <1>7, <1>8, <1>9 DEF SameElse

-----------------------------------------------------------------------------
(* The document in the frame: what it shows are entries of its page.       *)
FrameType ==
  [page : DOMAIN searchData \cup {"void", "nomatches"}, shown : SUBSET Nat,
   open : SUBSET Int, lastKey : Keys \cup {"none"}, repeatOn : BOOLEAN]

FrameInv(f) ==
  /\ f \in FrameType
  /\ \A i \in f.shown : HasResults(f) /\ i \in Items(f.page)

LEMMA FirstShown ==
  ASSUME NEW f, FrameInv(f), NEW index \in Int, NavNext(f, index) # NoItem
  PROVE  NavNext(f, index) \in f.shown
<1>1. PICK S : S = {i \in f.shown : i >= index}
  OBVIOUS
<1>2. S \in SUBSET Nat
  BY <1>1 DEF FrameInv, FrameType
<1>3. S # {} /\ NavNext(f, index) = Min(S)
  BY <1>1 DEF NavNext
<1> QED BY <1>1, <1>2, <1>3, MinIs

LEMMA ElementsAreFocus ==
  /\ Field \in FocusType /\ Nowhere \in FocusType /\ Select \in FocusType
  /\ \A i, c \in Int : Child(i, c) \in FocusType /\ Item(i) \in FocusType
  /\ Nowhere.at # "row" /\ Field.at # "row" /\ Select.at # "row"
  /\ Field # Nowhere /\ Select # Nowhere /\ Select # Field
BY DEF Field, Nowhere, Select, FocusType, Child, Item, NoItem

(* The keyup in the field: it leaves a text answered, and for a patient    *)
(* reader one timer at most and a closed box if it leaves the box.         *)
FieldChanged(b, f, key, r) ==
  /\ BoxInv(r) /\ Answered(r) /\ Follows(b, r)
  /\ r.focus.at = "row" => Displayed(f, r.focus)
  /\ Closed(b) /\ Quiet(b, key) => Closed(r) /\ Quiet(r, "none")

LEMMA FieldChangeKeepsBox ==
  ASSUME NEW b, BoxInv(b), b.focus = Field, NEW f, FrameInv(f), NEW key,
         key = "shift-down" /\ "hasty" \notin faults => Answered(b) /\ Quiet(b, key)
  PROVE  FieldChanged(b, f, key, OnSearchFieldChange(b, f, key))
<1>1. PICK k : k = KillTimer(b)
  OBVIOUS
<1>2. /\ BoxInv(k) /\ ~ k.keyTimeout /\ k.focus = Field /\ k.popup = b.popup
      /\ SameText(b, k) /\ (Quiet(b, key) => k.timers = 0) /\ Follows(b, k)
      /\ b.timers = 0 /\ Answered(b) => Answered(k)
  BY <1>1, KillKeepsBox
<1>3. k.active /\ k.searchActive /\ b.active
  BY <1>2 DEF BoxInv, SameText
<1>4. PICK first : first = NavNext(f, 0)
  OBVIOUS
<1>5. CASE key = "shift-down"
  <2>1. PICK s : s = OnSearchSelectShow(k)
    OBVIOUS
  <2>2. PICK r : r = FocusOn(s, Select)
    OBVIOUS
  <2>3. OnSearchFieldChange(b, f, key) = r
    BY <1>1, <1>5, <2>1, <2>2 DEF OnSearchFieldChange
  <2>4. s \in Boxes /\ s.focus = k.focus /\ s.timers = k.timers /\ SameText(k, s) /\ Unsearched(k, s)
        /\ s.keyTimeout = k.keyTimeout /\ s.searchIndex = k.searchIndex
    BY <1>2, <2>1 DEF BoxInv, Boxes, OnSearchSelectShow, SameText, Unsearched
  <2>5. BoxInv(s) /\ s.focus = Field /\ s.active
    BY <1>2, <1>3, <2>4 DEF BoxInv, SameText, Unsearched
  <2>6. /\ BoxInv(r) /\ Moved(s, r, Select) /\ Follows(s, r)
        /\ Answered(s) \/ ~ s.popup => Answered(r)
        /\ s.timers = 0 => Closed(r)
    BY <2>2, <2>5, FocusKeepsBox, ElementsAreFocus DEF Closed
  <2>9. Answered(s) \/ ~ s.popup
    <3>1. CASE "hasty" \in faults
      BY <3>1 DEF Answered
    <3>2. CASE "hasty" \notin faults
      <4>1. b.timers \in Nat
        BY DEF BoxInv, Boxes
      <4>2. b.timers = 0
        BY <1>5, <3>2, <4>1 DEF Quiet
      <4>3. Answered(k)
        BY <1>2, <1>5, <3>2, <4>2
      <4> QED BY <2>4, <4>3 DEF Answered, LastSearched, SameText, Unsearched, SearchThrows
    <3> QED BY <3>1, <3>2
  <2>10. Follows(b, r)
    <3>1. Follows(k, s)
      BY <2>4 DEF SameText, Unsearched, Follows
    <3> QED BY <1>2, <2>6, <3>1, FollowsOn
  <2>7. r.focus = Select /\ r.timers = k.timers
    BY <2>4, <2>6 DEF Moved, SameElse
  <2>8. Quiet(b, key) => Closed(r) /\ Quiet(r, "none")
    BY <1>2, <2>4, <2>6, <2>7 DEF Quiet
  <2> QED BY <2>3, <2>6, <2>7, <2>8, <2>9, <2>10, ElementsAreFocus DEF FieldChanged
<1>6. CASE key = "esc"
  <2>1. PICK s : s = FocusOn(k, Nowhere)
    OBVIOUS
  <2>2. BoxInv(s) /\ Moved(k, s, Nowhere)
    BY <1>2, <2>1, FocusKeepsBox, ElementsAreFocus
  <2>3. PICK c : c = [s EXCEPT !.popup = FALSE, !.lastSearchValue = <<>>]
    OBVIOUS
  <2>4. /\ c \in Boxes /\ c.focus = s.focus /\ ~ c.popup /\ c.timers = s.timers
        /\ c.keyTimeout = s.keyTimeout /\ c.location = s.location
    BY <2>2, <2>3, SearchFacts DEF BoxInv, Boxes
  <2>5. PICK r : r = Activate(c, FALSE)
    OBVIOUS
  <2>6. OnSearchFieldChange(b, f, key) = r
    BY <1>1, <1>6, <2>1, <2>3, <2>5 DEF OnSearchFieldChange
  <2>7. r \in Boxes /\ r.focus = c.focus /\ SameElse(c, r) /\ LeftAlone(r)
    BY <2>4, <2>5, ActivateFacts
  <2>8. r.focus = Nowhere /\ r.timers = k.timers /\ ~ r.popup
    BY <2>2, <2>4, <2>7 DEF Moved, SameElse
  <2>9. BoxInv(r)
    BY <2>2, <2>4, <2>7, <2>8, ElementsAreFocus DEF BoxInv, SameElse, LeftAlone
  <2>10. Answered(r)
    BY <2>7, <2>8, ElementsAreFocus DEF LeftAlone, Answered
  <2>12. Follows(b, r)
    BY <2>8 DEF Follows
  <2>11. Quiet(b, key) => Closed(r) /\ Quiet(r, "none")
    BY <1>2, <2>7, <2>8 DEF LeftAlone, Closed, Quiet
  <2> QED BY <2>6, <2>8, <2>9, <2>10, <2>11, <2>12, ElementsAreFocus DEF FieldChanged
<1>7. CASE key \in {"down", "enter"} /\ first # NoItem /\ b.popup
  <2>1. PICK s : s = FocusOn(k, Item(first))
    OBVIOUS
  <2>2. first \in f.shown /\ first \in Int
    BY <1>4, <1>7, FirstShown DEF FrameInv, FrameType
  <2>3. Item(first) \in FocusType /\ Item(first) # Field /\ Item(first) # Select /\ Item(first).at = "row"
    BY <2>2, ElementsAreFocus DEF Item, Field, Select
  <2>4. BoxInv(s) /\ Moved(k, s, Item(first)) /\ Follows(k, s)
    BY <1>2, <1>7, <2>1, <2>3, FocusKeepsBox
  <2>5. s.focus = Item(first) /\ s.timers = k.timers /\ s.active
    BY <1>2, <1>3, <1>7, <2>3, <2>4 DEF Moved, SameElse, Entered, SameText
  <2>6. PICK r : r = SearchIfChanged(s)
    OBVIOUS
  <2>7. OnSearchFieldChange(b, f, key) = r
    <3>1. key # "shift-down" /\ key # "esc"
      BY <1>7
    <3> QED BY <1>1, <1>4, <1>7, <2>1, <2>6, <3>1 DEF OnSearchFieldChange
  <2>8. /\ BoxInv(r) /\ Answered(r) /\ Follows(s, r) /\ r.active /\ r.focus \in {Item(first), Nowhere}
        /\ s.timers = 0 => Quiet(r, "none")
    BY <2>3, <2>4, <2>5, <2>6, ChangeKeepsBox
  <2>9. r.focus.at = "row" => Displayed(f, r.focus)
    BY <2>2, <2>8, ElementsAreFocus DEF Displayed, Item
  <2>10. Follows(b, r)
    BY <1>2, <2>4, <2>8, FollowsOn
  <2> QED BY <1>2, <2>5, <2>7, <2>8, <2>9, <2>10 DEF FieldChanged, Closed
<1>8. CASE key # "shift-down" /\ key # "esc" /\ ~ (key \in {"down", "enter"} /\ first # NoItem /\ b.popup)
  <2>1. PICK r : r = SearchIfChanged(k)
    OBVIOUS
  <2>2. OnSearchFieldChange(b, f, key) = r
    BY <1>1, <1>4, <1>8, <2>1 DEF OnSearchFieldChange
  <2>3. /\ BoxInv(r) /\ Answered(r) /\ Follows(k, r) /\ r.active /\ r.focus \in {Field, Nowhere}
        /\ k.timers = 0 => Quiet(r, "none")
    BY <1>2, <1>3, <2>1, ChangeKeepsBox, ElementsAreFocus
  <2>4. Follows(b, r)
    BY <1>2, <2>3, FollowsOn
  <2> QED BY <1>2, <2>2, <2>3, <2>4, ElementsAreFocus DEF FieldChanged, Closed
<1> QED BY <1>5, <1>6, <1>7, <1>8

(* The keys of the selection window and of the results.                    *)
Steered(b, r) ==
  /\ BoxInv(r) /\ Answered(r) /\ r.timers = b.timers /\ Follows(b, r)
  /\ Closed(b) => Closed(r)

LEMMA SelectKeyKeepsBox ==
  ASSUME NEW b, BoxInv(b), Answered(b), b.focus = Select, NEW key
  PROVE  /\ Steered(b, OnSearchSelectKey(b, key))
         /\ OnSearchSelectKey(b, key).focus \in {Select, Field, Nowhere}
<1>1. b.searchIndex \in 0 .. SelectItemCount /\ SelectItemCount \in Nat
  BY SearchFacts DEF BoxInv, Boxes
<1>7. ASSUME NEW c, BoxInv(c), c.focus = Select, NEW id \in 0 .. SelectItemCount
      PROVE  Steered(c, OnSelectItem(c, id)) /\ OnSelectItem(c, id).focus = Select
  <2>1. PICK r : r = OnSelectItem(c, id)
    OBVIOUS
  <2>2. BoxInv(r) /\ Picked(c, r, id) /\ (Closed(c) => Closed(r)) /\ Answered(r) /\ Follows(c, r)
    BY <1>7, <2>1, SelectKeepsBox, ElementsAreFocus
  <2> QED BY <1>7, <2>1, <2>2 DEF Steered, Picked, SameBox
<1>2. ASSUME NEW id \in 0 .. SelectItemCount
      PROVE  Steered(b, OnSelectItem(b, id)) /\ OnSelectItem(b, id).focus = Select
  BY <1>7
<1>3. CASE key = "down" /\ b.searchIndex < SelectItemCount
  <2>1. b.searchIndex + 1 \in 0 .. SelectItemCount
    BY <1>1, <1>3
  <2>2. OnSearchSelectKey(b, key) = OnSelectItem(b, b.searchIndex + 1)
    BY <1>3 DEF OnSearchSelectKey
  <2> QED BY <1>2, <2>1, <2>2
<1>4. CASE key = "up" /\ b.searchIndex > 0
  <2>1. b.searchIndex - 1 \in 0 .. SelectItemCount
    BY <1>1, <1>4
  <2>2. OnSearchSelectKey(b, key) = OnSelectItem(b, b.searchIndex - 1)
    BY <1>4 DEF OnSearchSelectKey
  <2> QED BY <1>2, <2>1, <2>2
<1>5. CASE key \in {"enter", "esc"}
  <2>1. PICK c : c = OnSelectItem(b, b.searchIndex)
    OBVIOUS
  <2>2. Steered(b, c) /\ c.focus = Select
    BY <1>1, <1>2, <2>1
  <2>3. PICK s : s = CloseSelectionWindow(c)
    OBVIOUS
  <2>4. /\ BoxInv(s) /\ s.timers = c.timers /\ s.focus \in {c.focus, Nowhere}
        /\ s.keyTimeout = c.keyTimeout /\ (Closed(c) => Closed(s)) /\ Answered(s) /\ Follows(c, s)
    BY <2>2, <2>3, CloseSelectKeepsBox DEF Steered
  <2>5. PICK r : r = FocusOn(s, Field)
    OBVIOUS
  <2>6. s.focus # Field
    BY <2>2, <2>4, ElementsAreFocus
  <2>7. BoxInv(r) /\ Moved(s, r, Field) /\ (Closed(s) => Closed(r)) /\ Answered(r) /\ Follows(s, r)
    BY <2>4, <2>5, <2>6, FocusKeepsBox, ElementsAreFocus
  <2>8. Steered(b, r) /\ r.focus = Field
    BY <2>2, <2>4, <2>7, FollowsOn DEF Steered, Moved, SameElse
  <2>9. PICK d : d = OnSelectItem(c, 0)
    OBVIOUS
  <2>10. Steered(c, d) /\ d.focus = Select
    BY <1>1, <1>7, <2>2, <2>9 DEF Steered
  <2>11. Steered(b, d)
    BY <2>2, <2>10, FollowsOn DEF Steered
  <2>12. OnSearchSelectKey(b, key) \in {c, d, r}
    BY <1>5, <2>1, <2>3, <2>5, <2>9 DEF OnSearchSelectKey
  <2> QED BY <2>2, <2>8, <2>10, <2>11, <2>12
<1>6. CASE /\ ~ (key = "down" /\ b.searchIndex < SelectItemCount)
           /\ ~ (key = "up" /\ b.searchIndex > 0) /\ key \notin {"enter", "esc"}
  <2>1. OnSearchSelectKey(b, key) = b
    BY <1>6 DEF OnSearchSelectKey
  <2> QED BY <2>1 DEF Steered, Follows
<1> QED BY <1>3, <1>4, <1>5, <1>6

(* Up and Down go to elements on display only; Escape closes the results.  *)
LEMMA NavKeepsBox ==
  ASSUME NEW b, BoxInv(b), Answered(b), b.focus.at = "row",
         NEW f, FrameInv(f), Displayed(f, b.focus), NEW key
  PROVE  /\ Steered(b, Nav(b, f, key)) /\ Nav(b, f, key).focus # Select
         /\ Nav(b, f, key).keyTimeout = b.keyTimeout
         /\ Nav(b, f, key).focus.at = "row" => Displayed(f, Nav(b, f, key).focus)
         /\ key \in {"left", "right"} => Nav(b, f, key) = b
<1>1. b \in Boxes /\ b.focus \in FocusType /\ b.popup /\ b.focus # Field /\ b.focus # Select
  BY DEF BoxInv, Boxes, FocusType, Field, Select
<1>2. Steered(b, b) /\ b.focus # Select
  BY <1>1 DEF Steered, Follows
<1>3. ASSUME NEW e \in FocusType, e # Select, e.at = "row" => Displayed(f, e)
      PROVE  /\ Steered(b, FocusOn(b, e)) /\ FocusOn(b, e).focus # Select
             /\ FocusOn(b, e).keyTimeout = b.keyTimeout
             /\ FocusOn(b, e).focus.at = "row" => Displayed(f, FocusOn(b, e).focus)
  <2>1. PICK r : r = FocusOn(b, e)
    OBVIOUS
  <2>2. BoxInv(r) /\ Moved(b, r, e) /\ (Closed(b) => Closed(r)) /\ Answered(r) /\ Follows(b, r)
    BY <1>1, <2>1, FocusKeepsBox
  <2> QED BY <1>3, <2>1, <2>2 DEF Steered, Moved, SameElse
<1>4. PICK up : up = NavUp(f, b.focus)
  OBVIOUS
<1>5. PICK down : down = NavDown(f, b.focus)
  OBVIOUS
<1>6. b.focus.item \in Int /\ b.focus.child \in Int
  BY <1>1 DEF FocusType
<1>7. \A i \in f.shown : i \in Int /\ Children(f, i) \in Nat
  BY DataAssumption DEF FrameInv, FrameType, HasResults, Children
<1>8. ASSUME Displayed(f, up) PROVE up \in FocusType /\ up # Select
  <2>1. CASE b.focus.child > 0
    BY <1>4, <1>6, <2>1 DEF NavUp, Child, FocusType, Select
  <2>2. CASE b.focus.child = 0
    BY <1>4, <1>6, <2>2 DEF NavUp, Item, NoItem, FocusType, Select
  <2>3. CASE ~ (b.focus.child > 0) /\ b.focus.child # 0
    <3>1. PICK i : i = b.focus.item - 1
      OBVIOUS
    <3>2. PICK p : p = NavPrev(f, i)
      OBVIOUS
    <3>3. up = IF p \in f.open /\ Children(f, i) > 0 THEN Child(i, Children(f, i) - 1) ELSE Item(p)
      BY <1>4, <2>3, <3>1, <3>2 DEF NavUp
    <3>4. CASE p \in f.open /\ Children(f, i) > 0
      <4>1. up = Child(i, Children(f, i) - 1)
        BY <3>3, <3>4
      <4>2. i \in f.shown
        BY <1>8, <4>1 DEF Displayed, Child
      <4>3. i \in Int /\ Children(f, i) - 1 \in Int
        BY <1>7, <4>2
      <4> QED BY <4>1, <4>3 DEF Child, FocusType, Select
    <3>5. CASE ~ (p \in f.open /\ Children(f, i) > 0)
      <4>1. up = Item(p)
        BY <3>3, <3>5
      <4>2. p \in Int
        BY <1>7, <1>8, <4>1 DEF Displayed, Item
      <4> QED BY <4>1, <4>2 DEF Item, NoItem, FocusType, Select
    <3> QED BY <3>4, <3>5
  <2> QED BY <2>1, <2>2, <2>3
<1>9. ASSUME Displayed(f, down) PROVE down \in FocusType /\ down # Select
  <2>1. PICK n : n = NavNext(f, b.focus.item + 1)
    OBVIOUS
  <2>2. down = Child(b.focus.item, b.focus.child + 1) \/ down = Item(n)
    BY <1>5, <2>1 DEF NavDown
  <2>3. CASE down = Child(b.focus.item, b.focus.child + 1)
    BY <1>6, <2>3 DEF Child, FocusType, Select
  <2>4. CASE down = Item(n)
    <3>1. n \in Int
      BY <1>7, <1>9, <2>4 DEF Displayed, Item
    <3> QED BY <2>4, <3>1 DEF Item, NoItem, FocusType, Select
  <2> QED BY <2>2, <2>3, <2>4
<1>10. CASE key = "up"
  <2>1. Nav(b, f, key) = IF up.item = NoItem THEN FocusOn(b, Field)
                         ELSE IF Displayed(f, up) THEN FocusOn(b, up) ELSE b
    BY <1>4, <1>10 DEF Nav
  <2>2. CASE up.item = NoItem
    BY <1>3, <1>10, <2>1, <2>2, ElementsAreFocus
  <2>3. CASE up.item # NoItem /\ Displayed(f, up)
    BY <1>3, <1>8, <1>10, <2>1, <2>3
  <2>4. CASE up.item # NoItem /\ ~ Displayed(f, up)
    BY <1>2, <1>10, <2>1, <2>4
  <2> QED BY <2>2, <2>3, <2>4
<1>11. CASE key = "down"
  <2>1. Nav(b, f, key) = IF Displayed(f, down) THEN FocusOn(b, down) ELSE b
    BY <1>5, <1>11 DEF Nav
  <2>2. CASE Displayed(f, down)
    BY <1>3, <1>9, <1>11, <2>1, <2>2
  <2>3. CASE ~ Displayed(f, down)
    BY <1>2, <1>11, <2>1, <2>3
  <2> QED BY <2>2, <2>3
<1>12. CASE key = "esc"
  <2>1. PICK c : c = CloseResultsWindow(b)
    OBVIOUS
  <2>2. /\ BoxInv(c) /\ c.timers = b.timers /\ c.keyTimeout = b.keyTimeout
        /\ c.focus # Field /\ LeftAlone(c) /\ ~ c.popup
    BY <1>1, <2>1, CloseResultsKeepsBox
  <2>3. Answered(c)
    BY <2>2 DEF LeftAlone, Answered
  <2>4. PICK r : r = FocusOn(c, Field)
    OBVIOUS
  <2>5. BoxInv(r) /\ Moved(c, r, Field) /\ Answered(r)
    BY <2>2, <2>3, <2>4, FocusKeepsBox, ElementsAreFocus
  <2>6. /\ r.active /\ r.focus = Field /\ r.timers = b.timers /\ r.keyTimeout = b.keyTimeout
        /\ Follows(b, r)
    BY <2>2, <2>5 DEF Moved, SameElse, Entered, Follows
  <2>7. Nav(b, f, key) = r
    BY <1>12, <2>1, <2>4 DEF Nav
  <2> QED BY <1>12, <2>5, <2>6, <2>7, ElementsAreFocus DEF Steered, Closed
<1>13. CASE key \notin {"up", "down", "esc"}
  <2>1. Nav(b, f, key) = b
    BY <1>13 DEF Nav
  <2> QED BY <1>2, <2>1
<1> QED BY <1>10, <1>11, <1>12, <1>13

LEMMA ToggleKeepsFrame ==
  ASSUME NEW f, FrameInv(f), NEW i \in Int
  PROVE  FrameInv(Toggle(f, i)) /\ SameRows(f, Toggle(f, i))
<1>1. CASE Children(f, i) = 0
  BY <1>1 DEF Toggle, SameRows
<1>2. CASE Children(f, i) # 0
  <2>1. PICK S : S = IF i \in f.open THEN f.open \ {i} ELSE f.open \cup {i}
    OBVIOUS
  <2>2. PICK g : g = [f EXCEPT !.open = S]
    OBVIOUS
  <2>3. Toggle(f, i) = g
    BY <1>2, <2>1, <2>2 DEF Toggle
  <2>4. g \in FrameType /\ g.shown = f.shown /\ g.page = f.page
    BY <2>1, <2>2 DEF FrameInv, FrameType
  <2> QED BY <2>3, <2>4 DEF FrameInv, HasResults, SameRows
<1> QED BY <1>1, <1>2

LEMMA KeysKeepFrame ==
  ASSUME NEW f, FrameInv(f), NEW type \in {"keydown", "keypress", "keyup"}, NEW key \in Keys
  PROVE  /\ FrameInv(ProcessKeys(f, type, key))
         /\ SameRows(f, ProcessKeys(f, type, key))
         /\ ProcessKeys(f, type, key).open = f.open
<1>1. PICK g : g = ProcessKeys(f, type, key)
  OBVIOUS
<1>2. PICK h : h = (f.repeatOn \/ f.lastKey # "none")
  OBVIOUS
<1>3. h \in BOOLEAN
  BY <1>2
<1>4. \/ g = [f EXCEPT !.lastKey = key, !.repeatOn = FALSE]
      \/ g = [f EXCEPT !.repeatOn = h]
      \/ g = [f EXCEPT !.lastKey = "none", !.repeatOn = FALSE]
  BY <1>1, <1>2 DEF ProcessKeys
<1>5. g \in FrameType /\ g.shown = f.shown /\ g.page = f.page /\ g.open = f.open
  BY <1>3, <1>4 DEF FrameInv, FrameType
<1> QED BY <1>1, <1>5 DEF FrameInv, HasResults, SameRows

(* Left closes the children of an item only from the item itself.          *)
LEMMA OpenKeepsFrame ==
  ASSUME NEW f, FrameInv(f), NEW e \in FocusType, NEW key
  PROVE  /\ FrameInv(NavOpen(f, e, key)) /\ SameRows(f, NavOpen(f, e, key))
         /\ e.child # NoItem \/ key \notin {"left", "right"} => NavOpen(f, e, key).open = f.open
<1>1. PICK g : g = NavOpen(f, e, key)
  OBVIOUS
<1>2. \/ g = f
      \/ e.child = NoItem /\ key = "right" /\ g = [f EXCEPT !.open = f.open \cup {e.item}]
      \/ e.child = NoItem /\ key = "left" /\ g = [f EXCEPT !.open = f.open \ {e.item}]
  BY <1>1 DEF NavOpen
<1>3. g \in FrameType /\ g.shown = f.shown /\ g.page = f.page
  BY <1>2 DEF FrameInv, FrameType, FocusType
<1>4. FrameInv(g) /\ SameRows(f, g)
  BY <1>3 DEF FrameInv, HasResults, SameRows
<1> QED BY <1>1, <1>2, <1>3, <1>4

LEMMA LoadMakesFrame ==
  ASSUME NEW place, place.page \in Pages
  PROVE  FrameInv(LoadedFrame(place)) /\ LoadedFrame(place).page = place.page
<1>1. PICK page \in Pages : page = place.page
  OBVIOUS
<1>2. PICK g : g = EmptyFrame(page)
  OBVIOUS
<1>3. g \in FrameType /\ g.page = page /\ g.shown = {}
  BY <1>1, <1>2 DEF EmptyFrame, FrameType, Pages
<1>4. CASE page \in DOMAIN searchData
  <2>1. PICK S : S = Matching(page, place.search)
    OBVIOUS
  <2>2. S \subseteq Items(page)
    BY <2>1 DEF Matching
  <2>3. S \subseteq Nat
    BY <2>2 DEF Items
  <2>4. PICK h : h = [g EXCEPT !.shown = S]
    OBVIOUS
  <2>5. LoadedFrame(place) = h
    BY <1>1, <1>2, <1>4, <2>1, <2>4 DEF LoadedFrame
  <2>6. h \in FrameType /\ h.shown = S /\ h.page = page
    BY <1>3, <2>3, <2>4 DEF FrameType
  <2> QED BY <1>1, <1>4, <2>2, <2>5, <2>6 DEF FrameInv, HasResults
<1>5. CASE page \notin DOMAIN searchData
  <2>1. LoadedFrame(place) = g
    BY <1>1, <1>2, <1>5 DEF LoadedFrame
  <2> QED BY <1>1, <1>3, <2>1 DEF FrameInv
<1> QED BY <1>4, <1>5

-----------------------------------------------------------------------------
(* The inductive invariant: the box, what a patient reader finds, the text *)
(* that is answered whenever no key of the field is down, and the frame,   *)
(* with the focus on what it shows.                                        *)
FocusShown(b, f) == b.focus.at = "row" => Displayed(f, b.focus)

SearchInv ==
  /\ BoxInv(box) /\ box.timers <= MaxTimers
  /\ "hasty" \notin faults => Closed(box) /\ Quiet(box, held)
  /\ held \in {"none", "shift-down"} \/ box.focus # Field => Answered(box)
  /\ FrameInv(frame) /\ FocusShown(box, frame) /\ OnTheWay(box, frame)
  /\ held \in Keys \cup {"none"} /\ over \in BOOLEAN

LEMMA SearchInitInv == Init => SearchInv
<1> SUFFICES ASSUME Init PROVE SearchInv
  OBVIOUS
<1>1. PICK b : b = [value |-> searchLabel, lastSearchValue |-> <<>>, searchActive |-> FALSE,
                    active |-> FALSE, popup |-> FALSE, select |-> FALSE, focus |-> Nowhere,
                    searchIndex |-> 0, keyTimeout |-> FALSE, timers |-> 0,
                    hideTimeout |-> FALSE, location |-> NoLocation]
  OBVIOUS
<1>2. box = OnSelectItem(b, 0)
  BY <1>1 DEF Init
<1>3. 0 \in 0 .. SelectItemCount
  BY SearchFacts
<1>4. NoLocation \in [page : DOMAIN searchData \union {"none", "nomatches"}, search : Texts]
  BY SearchFacts DEF NoLocation
<1>5. b \in Boxes
  BY <1>1, <1>3, <1>4, SearchFacts, ElementsAreFocus DEF Boxes, FocusType
<1>6. BoxInv(b) /\ Closed(b) /\ b.focus = Nowhere /\ b.timers = 0
  BY <1>1, <1>5, ElementsAreFocus DEF BoxInv, Closed
<1>7. BoxInv(box) /\ Picked(b, box, 0) /\ Closed(box) /\ Answered(box) /\ Follows(b, box)
  BY <1>2, <1>3, <1>6, SelectKeepsBox, ElementsAreFocus
<1>8. box.focus = Nowhere /\ box.timers = 0
  BY <1>6, <1>7 DEF Picked, SameBox
<1>9. FrameInv(frame)
  BY DEF Init, EmptyFrame, FrameInv, FrameType
<1>10. Quiet(box, held) /\ FocusShown(box, frame) /\ box.timers <= MaxTimers
  BY <1>8, SearchAssumption, ElementsAreFocus DEF Quiet, FocusShown
<1>11. OnTheWay(box, frame)
  BY <1>1, <1>7 DEF Follows, OnTheWay
<1> QED BY <1>7, <1>9, <1>10, <1>11 DEF SearchInv, Init

(* An event of a key in the results.                                       *)
LEMMA KeyInResultsKeeps ==
  ASSUME SearchInv, box.focus.at = "row", NEW type \in {"keydown", "keypress", "keyup"},
         NEW key \in Keys, KeyInResults(type, key)
  PROVE  /\ Steered(box, box') /\ box'.focus # Select /\ box'.keyTimeout = box.keyTimeout
         /\ FrameInv(frame') /\ FocusShown(box', frame') /\ SameRows(frame, frame')
<1>1. /\ BoxInv(box) /\ FrameInv(frame) /\ Displayed(frame, box.focus)
      /\ box.focus \in FocusType /\ box.focus # Field /\ box.focus # Select
  BY ElementsAreFocus DEF SearchInv, FocusShown, BoxInv, Boxes, FocusType
<1>2. Answered(box)
  BY <1>1 DEF SearchInv
<1>3. PICK seen : seen = ProcessKeys(frame, type, key)
  OBVIOUS
<1>4. FrameInv(seen) /\ SameRows(frame, seen) /\ seen.open = frame.open
  BY <1>1, <1>3, KeysKeepFrame
<1>5. CASE KeyActs(frame, type)
  <2>1. PICK k : k = seen.lastKey
    OBVIOUS
  <2>2. PICK r : r = Nav(box, frame, k)
    OBVIOUS
  <2>3. PICK g : g = NavOpen(seen, box.focus, k)
    OBVIOUS
  <2>4. box' = r /\ frame' = g
    BY <1>3, <1>5, <2>1, <2>2, <2>3 DEF KeyInResults
  <2>5. /\ Steered(box, r) /\ r.focus # Select /\ r.keyTimeout = box.keyTimeout
        /\ r.focus.at = "row" => Displayed(frame, r.focus)
        /\ k \in {"left", "right"} => r = box
    BY <1>1, <1>2, <2>2, NavKeepsBox
  <2>6. /\ FrameInv(g) /\ SameRows(frame, g)
        /\ box.focus.child # NoItem \/ k \notin {"left", "right"} => g.open = frame.open
    BY <1>1, <1>4, <2>3, OpenKeepsFrame DEF SameRows
  <2>7. r.focus.at = "row" => Displayed(g, r.focus)
    <3>1. CASE k \in {"left", "right"}
      BY <1>1, <2>5, <2>6, <3>1 DEF Displayed, SameRows
    <3>2. CASE k \notin {"left", "right"}
      BY <2>5, <2>6, <3>2 DEF Displayed, SameRows
    <3> QED BY <3>1, <3>2
  <2> QED BY <2>4, <2>5, <2>6, <2>7 DEF FocusShown
<1>6. CASE ~ KeyActs(frame, type)
  <2>1. box' = box /\ frame' = seen
    BY <1>3, <1>6 DEF KeyInResults
  <2> QED BY <1>1, <1>2, <1>4, <2>1 DEF Steered, Follows, FocusShown, Displayed, SameRows
<1> QED BY <1>5, <1>6

(* What is left to show of a step once the box and the frame are known.    *)
LEMMA StepKeeps ==
  ASSUME SearchInv, UNCHANGED faults, BoxInv(box'), box'.timers <= MaxTimers,
         "hasty" \notin faults => Closed(box') /\ Quiet(box', held'),
         held' \in {"none", "shift-down"} \/ box'.focus # Field => Answered(box'),
         FrameInv(frame'), FocusShown(box', frame'),
         (Follows(box, box') /\ SameRows(frame, frame')) \/ OnTheWay(box', frame'),
         held' \in Keys \cup {"none"}, over' \in BOOLEAN
  PROVE  SearchInv'
<1>1. Answered(box') <=> Answered(box)'
  BY DEF Answered, LastSearched, SearchThrows
<1>2. OnTheWay(box', frame')
  BY OnTheWayKept DEF SearchInv
<1>3. OnTheWay(box, frame)'
  BY <1>2 DEF OnTheWay, AskedFor, Place, LoadedFrame
<1> QED BY <1>1, <1>3 DEF SearchInv

LEMMA SteeredKeeps ==
  ASSUME SearchInv, UNCHANGED <<over, faults>>, held' \in Keys \cup {"none"},
         Steered(box, box'), FrameInv(frame'), FocusShown(box', frame'), SameRows(frame, frame'),
         \/ box.timers = 0
         \/ box'.focus # Select /\ box'.keyTimeout = box.keyTimeout /\ held' # "shift-down"
         \/ "hasty" \in faults
  PROVE  SearchInv'
<1>1. "hasty" \notin faults => Closed(box') /\ Quiet(box', held')
  BY DEF SearchInv, Steered, Quiet
<1>2. /\ box'.timers <= MaxTimers /\ BoxInv(box') /\ Answered(box') /\ over' \in BOOLEAN
      /\ Follows(box, box')
  BY DEF SearchInv, Steered
<1> QED BY <1>1, <1>2, StepKeeps

LEMMA KeyDownKeeps ==
  ASSUME SearchInv, NEW key \in Keys, KeyDown(key)
  PROVE  SearchInv'
<1>1. /\ held' = key /\ held' \in Keys \cup {"none"} /\ UNCHANGED <<over, faults>>
      /\ held \in {"none", key} /\ key # "none"
  BY SearchAssumption DEF KeyDown, Keys, EditKeys
<1>2. CASE KeyDownInField(key)
  <2>1. /\ BoxInv(box) /\ box \in Boxes /\ box.focus = Field /\ box.searchActive /\ box.active
        /\ box.timers \in Nat /\ box.timers <= MaxTimers
    BY <1>2 DEF KeyDownInField, SearchInv, BoxInv, Boxes
  <2>2. PICK text \in Typed : box' = [box EXCEPT !.value = text]
    BY <1>2 DEF KeyDownInField
  <2>3. text \in Texts
    BY SearchFacts
  <2>4. PICK r : r = box'
    OBVIOUS
  <2>5. /\ r \in Boxes /\ r.focus = Field /\ r.timers = box.timers /\ r.searchActive /\ r.active
        /\ r.keyTimeout = box.keyTimeout /\ Unsearched(box, r)
    BY <2>1, <2>2, <2>3, <2>4 DEF Boxes, Unsearched
  <2>6. BoxInv(r)
    BY <2>1, <2>5, ElementsAreFocus DEF BoxInv, Unsearched
  <2>7. "hasty" \notin faults => Closed(r) /\ Quiet(r, key)
    <3>1. key = "shift-down" /\ "hasty" \notin faults => box.timers = 0
      BY <1>2 DEF KeyDownInField, Patient
    <3> QED BY <2>1, <2>5, <3>1, ElementsAreFocus DEF SearchInv, Closed, Quiet
  <2>8. FrameInv(frame') /\ FocusShown(r, frame') /\ SameRows(frame, frame') /\ Follows(box, r)
    BY <1>2, <2>5, ElementsAreFocus
    DEF KeyDownInField, SearchInv, FocusShown, SameRows, Unsearched, Follows
  <2>9. r.timers <= MaxTimers /\ key # "none" /\ r.focus = Field /\ over' \in BOOLEAN
    BY <1>1, <2>1, <2>5 DEF SearchInv
  <2>10. key = "shift-down" => Answered(r)
    <3> SUFFICES ASSUME key = "shift-down" PROVE Answered(r)
      OBVIOUS
    <3>1. Answered(box)
      BY <1>1 DEF SearchInv
    <3>2. PICK typed \in Edits(box.value, key) : box' = [box EXCEPT !.value = typed]
      BY <1>2 DEF KeyDownInField
    <3>3. typed = box.value
      BY <3>2, SearchAssumption DEF Edits
    <3>4. r = box
      BY <2>1, <2>4, <3>2, <3>3 DEF Boxes
    <3> QED BY <3>1, <3>4
  <2> QED BY <1>1, <2>4, <2>6, <2>7, <2>8, <2>9, <2>10, StepKeeps
<1>3. CASE KeyDownInSelect(key)
  <2>1. /\ BoxInv(box) /\ box.focus = Select /\ Answered(box)
        /\ box' = OnSearchSelectKey(box, key) /\ frame' = frame
        /\ FrameInv(frame)
    BY <1>3, ElementsAreFocus DEF KeyDownInSelect, SearchInv
  <2>2. Steered(box, box') /\ box'.focus \in {Select, Field, Nowhere}
    BY <2>1, SelectKeyKeepsBox
  <2>3. FrameInv(frame') /\ FocusShown(box', frame') /\ SameRows(frame, frame')
    BY <2>1, <2>2, ElementsAreFocus DEF FocusShown, SameRows
  <2>4. box.timers = 0 \/ "hasty" \in faults
    <3>1. box.timers \in Nat
      BY <2>1 DEF BoxInv, Boxes
    <3> QED BY <2>1, <3>1 DEF SearchInv, Quiet
  <2> QED BY <1>1, <2>2, <2>3, <2>4, SteeredKeeps
<1>4. CASE box.focus.at = "row" /\ key = "enter" /\ EnterInResults
  <2>1. /\ BoxInv(box) /\ FrameInv(frame) /\ Displayed(frame, box.focus)
        /\ box.focus \in FocusType /\ box.focus # Field /\ box.focus # Select
    BY <1>4, ElementsAreFocus DEF SearchInv, FocusShown, BoxInv, Boxes, FocusType
  <2>2. box.focus.child = NoItem /\ frame' = Toggle(frame, box.focus.item) /\ box' = box
    BY <1>4 DEF EnterInResults
  <2>3. FrameInv(frame') /\ SameRows(frame, frame')
    BY <2>1, <2>2, ToggleKeepsFrame DEF FocusType
  <2>4. FocusShown(box', frame')
    BY <2>1, <2>2, <2>3 DEF FocusShown, Displayed, SameRows
  <2>5. Steered(box, box')
    BY <2>1, <2>2 DEF SearchInv, Steered, Follows
  <2>6. box'.focus # Select /\ box'.keyTimeout = box.keyTimeout /\ held' # "shift-down"
    BY <1>1, <1>4, <2>1, <2>2
  <2> QED BY <1>1, <2>3, <2>4, <2>5, <2>6, SteeredKeeps
<1>5. CASE /\ box.focus.at = "row" /\ key \notin EditKeys \union {"enter", "shift-down"}
           /\ KeyInResults("keydown", key)
  <2>1. /\ Steered(box, box') /\ box'.focus # Select /\ box'.keyTimeout = box.keyTimeout
        /\ FrameInv(frame') /\ FocusShown(box', frame') /\ SameRows(frame, frame')
    BY <1>5, KeyInResultsKeeps
  <2>2. held' # "shift-down"
    BY <1>1, <1>5
  <2> QED BY <1>1, <2>1, <2>2, SteeredKeeps
<1> QED BY <1>2, <1>3, <1>4, <1>5 DEF KeyDown

LEMMA KeyPressKeeps ==
  ASSUME SearchInv, KeyPress
  PROVE  SearchInv'
<1>1. held \in Keys /\ box.focus.at = "row" /\ KeyInResults("keypress", held) /\ UNCHANGED <<held, over, faults>>
  BY DEF KeyPress, SearchInv
<1>2. /\ Steered(box, box') /\ box'.focus # Select /\ box'.keyTimeout = box.keyTimeout
      /\ FrameInv(frame') /\ FocusShown(box', frame') /\ SameRows(frame, frame')
  BY <1>1, KeyInResultsKeeps
<1>3. box.timers = 0 \/ held' # "shift-down" \/ "hasty" \in faults
  <2>1. box.timers \in Nat
    BY DEF SearchInv, BoxInv, Boxes
  <2> QED BY <1>1, <2>1 DEF SearchInv, Quiet
<1>4. held' \in Keys \cup {"none"}
  BY <1>1
<1> QED BY <1>1, <1>2, <1>3, <1>4, SteeredKeeps

LEMMA KeyUpKeeps ==
  ASSUME SearchInv, KeyUp
  PROVE  SearchInv'
<1>1. /\ held \in Keys /\ held' = "none" /\ UNCHANGED <<over, faults>>
      /\ held' \in Keys \cup {"none"} /\ over' \in BOOLEAN
  BY DEF KeyUp, SearchInv
<1>2. CASE box.focus = Field
  <2>1. box' = OnSearchFieldChange(box, frame, held) /\ box'.timers <= MaxTimers /\ frame' = frame
    BY <1>2, ElementsAreFocus DEF KeyUp
  <2>2. /\ BoxInv(box) /\ FrameInv(frame)
        /\ held = "shift-down" /\ "hasty" \notin faults => Answered(box) /\ Quiet(box, held)
    BY DEF SearchInv
  <2>3. FieldChanged(box, frame, held, box')
    BY <1>2, <2>1, <2>2, FieldChangeKeepsBox
  <2>4. "hasty" \notin faults => Closed(box') /\ Quiet(box', held')
    BY <1>1, <2>3 DEF FieldChanged, SearchInv
  <2>5. /\ FrameInv(frame') /\ FocusShown(box', frame') /\ BoxInv(box') /\ Answered(box')
        /\ Follows(box, box') /\ SameRows(frame, frame')
    BY <2>1, <2>2, <2>3 DEF FieldChanged, FocusShown, SameRows
  <2> QED BY <1>1, <2>1, <2>4, <2>5, StepKeeps
<1>3. CASE box.focus.at = "row" /\ held # "enter"
  <2>1. KeyInResults("keyup", held)
    BY <1>3, ElementsAreFocus DEF KeyUp
  <2>2. /\ Steered(box, box') /\ box'.focus # Select /\ box'.keyTimeout = box.keyTimeout
        /\ FrameInv(frame') /\ FocusShown(box', frame') /\ SameRows(frame, frame')
    BY <1>1, <1>3, <2>1, KeyInResultsKeeps
  <2> QED BY <1>1, <2>2, SteeredKeeps
<1>4. CASE box.focus # Field /\ ~ (box.focus.at = "row" /\ held # "enter")
  <2>1. box' = box /\ frame' = frame
    BY <1>4 DEF KeyUp
  <2>2. "hasty" \notin faults => Closed(box') /\ Quiet(box', held')
    BY <1>1, <2>1 DEF SearchInv, Quiet
  <2>3. /\ BoxInv(box') /\ box'.timers <= MaxTimers /\ Answered(box')
        /\ FrameInv(frame') /\ FocusShown(box', frame') /\ Follows(box, box') /\ SameRows(frame, frame')
    BY <1>4, <2>1 DEF SearchInv, Follows, SameRows
  <2> QED BY <1>1, <2>2, <2>3, StepKeeps
<1> QED BY <1>2, <1>3, <1>4

LEMMA ClickFieldKeeps ==
  ASSUME SearchInv, ClickField
  PROVE  SearchInv'
<1>1. /\ held = "none" /\ UNCHANGED <<held, faults, frame, over>> /\ box' = FocusOn(box, Field)
      /\ BoxInv(box) /\ Answered(box)
  BY DEF ClickField, Mouse, SearchInv
<1>2. /\ BoxInv(box') /\ Moved(box, box', Field) /\ (Closed(box) => Closed(box')) /\ Answered(box')
      /\ Follows(box, box')
  BY <1>1, FocusKeepsBox, ElementsAreFocus
<1>3. Steered(box, box') /\ box'.focus = Field /\ box'.keyTimeout = box.keyTimeout
  BY <1>2 DEF Steered, Moved, SameElse
<1>4. /\ FrameInv(frame') /\ FocusShown(box', frame') /\ held' \in Keys \cup {"none"}
      /\ SameRows(frame, frame')
  BY <1>1, <1>3, ElementsAreFocus DEF SearchInv, FocusShown, SameRows
<1>5. box'.focus # Select /\ held' # "shift-down"
  BY <1>1, <1>3, ElementsAreFocus
<1> QED BY <1>1, <1>3, <1>4, <1>5, SteeredKeeps

(* For a click outside the field the focus leaves it with no timer running *)
(* if the reader is patient.                                               *)
LEMMA LeaveKeeps ==
  ASSUME SearchInv, Patient, held = "none", NEW e \in {Nowhere, Select}
  PROVE  /\ BoxInv(FocusOn(box, e)) /\ Moved(box, FocusOn(box, e), e) /\ Answered(FocusOn(box, e))
         /\ Follows(box, FocusOn(box, e))
         /\ "hasty" \notin faults => Closed(FocusOn(box, e)) /\ FocusOn(box, e).timers = 0
         /\ FocusOn(box, e).timers <= MaxTimers
<1>1. PICK r : r = FocusOn(box, e)
  OBVIOUS
<1>2. /\ BoxInv(r) /\ Moved(box, r, e) /\ Answered(r) /\ Follows(box, r)
      /\ Closed(box) /\ (box.timers = 0 \/ box.popup) => Closed(r)
  BY <1>1, FocusKeepsBox, ElementsAreFocus DEF SearchInv
<1>3. r.timers = box.timers
  BY <1>2 DEF Moved, SameElse
<1> QED BY <1>1, <1>2, <1>3 DEF SearchInv, Patient

LEMMA ClickAwayKeeps ==
  ASSUME SearchInv, ClickAway
  PROVE  SearchInv'
<1>1. /\ held = "none" /\ Patient /\ UNCHANGED <<held, faults, frame, over>>
      /\ box' = FocusOn(box, Nowhere) /\ held' \in Keys \cup {"none"} /\ over' \in BOOLEAN
  BY DEF ClickAway, Mouse, SearchInv
<1>2. /\ BoxInv(box') /\ Moved(box, box', Nowhere) /\ Answered(box') /\ box'.timers <= MaxTimers
      /\ Follows(box, box')
      /\ "hasty" \notin faults => Closed(box') /\ box'.timers = 0
  BY <1>1, LeaveKeeps
<1>3. "hasty" \notin faults => Closed(box') /\ Quiet(box', held')
  BY <1>2 DEF Quiet
<1>4. FrameInv(frame') /\ FocusShown(box', frame') /\ SameRows(frame, frame')
  BY <1>1, <1>2, ElementsAreFocus DEF SearchInv, Moved, FocusShown, SameRows
<1> QED BY <1>1, <1>2, <1>3, <1>4, StepKeeps

LEMMA ClickCloseKeeps ==
  ASSUME SearchInv, ClickClose
  PROVE  SearchInv'
<1>1. PICK c : c = FocusOn(box, Nowhere)
  OBVIOUS
<1>2. /\ held = "none" /\ Patient /\ UNCHANGED <<held, faults, frame, over>>
      /\ box' = CloseResultsWindow(c) /\ held' \in Keys \cup {"none"} /\ over' \in BOOLEAN
  BY <1>1 DEF ClickClose, Mouse, SearchInv
<1>3. /\ BoxInv(c) /\ Moved(box, c, Nowhere) /\ c.timers <= MaxTimers
      /\ "hasty" \notin faults => c.timers = 0
  BY <1>1, <1>2, LeaveKeeps
<1>4. c.focus # Field
  BY <1>3, ElementsAreFocus DEF Moved
<1>5. /\ BoxInv(box') /\ box'.timers = c.timers /\ box'.focus # Field /\ box'.focus.at # "row"
      /\ LeftAlone(box') /\ ~ box'.popup
  BY <1>2, <1>3, <1>4, CloseResultsKeepsBox
<1>6. "hasty" \notin faults => Closed(box') /\ Quiet(box', held')
  BY <1>3, <1>5 DEF Quiet, Closed, LeftAlone
<1>7. Answered(box')
  BY <1>5 DEF Answered, LeftAlone
<1>8. /\ FrameInv(frame') /\ FocusShown(box', frame') /\ box'.timers <= MaxTimers
      /\ Follows(box, box') /\ SameRows(frame, frame')
  BY <1>2, <1>3, <1>5 DEF SearchInv, FocusShown, Follows, SameRows
<1> QED BY <1>2, <1>5, <1>6, <1>7, <1>8, StepKeeps

LEMMA ClickItemKeeps ==
  ASSUME SearchInv, NEW i \in frame.shown, ClickItem(i)
  PROVE  SearchInv'
<1>1. /\ held = "none" /\ UNCHANGED <<held, faults, over>> /\ box.popup
      /\ box' = FocusOn(box, Item(i)) /\ frame' = Toggle(frame, i)
      /\ BoxInv(box) /\ Answered(box) /\ FrameInv(frame) /\ held' \in Keys \cup {"none"}
  BY DEF ClickItem, Mouse, SearchInv
<1>2. i \in Int
  BY <1>1 DEF FrameInv, FrameType
<1>3. Item(i) \in FocusType /\ Item(i) # Field /\ Item(i) # Select
  BY <1>2, ElementsAreFocus DEF Item, Field, Select
<1>4. /\ BoxInv(box') /\ Moved(box, box', Item(i)) /\ (Closed(box) => Closed(box')) /\ Answered(box')
      /\ Follows(box, box')
  BY <1>1, <1>3, FocusKeepsBox
<1>5. Steered(box, box') /\ box'.focus = Item(i) /\ box'.keyTimeout = box.keyTimeout
  BY <1>4 DEF Steered, Moved, SameElse
<1>6. FrameInv(frame') /\ SameRows(frame, frame')
  BY <1>1, <1>2, ToggleKeepsFrame
<1>7. FocusShown(box', frame')
  BY <1>5, <1>6 DEF FocusShown, Displayed, Item, SameRows
<1>8. box'.focus # Select /\ held' # "shift-down"
  BY <1>1, <1>3, <1>5
<1> QED BY <1>1, <1>5, <1>6, <1>7, <1>8, SteeredKeeps

LEMMA ClickSelectItemKeeps ==
  ASSUME SearchInv, NEW id \in DOMAIN indexSections, ClickSelectItem(id)
  PROVE  SearchInv'
<1>1. PICK c : c = FocusOn(box, Select)
  OBVIOUS
<1>2. /\ held = "none" /\ Patient /\ UNCHANGED <<held, faults, frame, over>>
      /\ box' = OnSelectItem(c, id) /\ held' \in Keys \cup {"none"} /\ over' \in BOOLEAN
  BY <1>1 DEF ClickSelectItem, Mouse, SearchInv
<1>3. /\ BoxInv(c) /\ Moved(box, c, Select) /\ c.timers <= MaxTimers /\ Follows(box, c)
      /\ "hasty" \notin faults => Closed(c) /\ c.timers = 0
  BY <1>1, <1>2, LeaveKeeps
<1>4. c.focus = Select /\ c.focus # Field
  BY <1>3, ElementsAreFocus DEF Moved
<1>5. id \in 0 .. SelectItemCount
  BY SearchFacts
<1>6. /\ BoxInv(box') /\ Picked(c, box', id) /\ (Closed(c) => Closed(box')) /\ Answered(box')
      /\ Follows(c, box')
  BY <1>2, <1>3, <1>4, <1>5, SelectKeepsBox
<1>7. box'.focus = Select /\ box'.timers = c.timers
  BY <1>4, <1>6 DEF Picked, SameBox
<1>8. "hasty" \notin faults => Closed(box') /\ Quiet(box', held')
  BY <1>3, <1>6, <1>7 DEF Quiet
<1>9. FrameInv(frame') /\ FocusShown(box', frame') /\ box'.timers <= MaxTimers /\ SameRows(frame, frame')
  BY <1>2, <1>3, <1>7, ElementsAreFocus DEF SearchInv, FocusShown, SameRows
<1>10. Follows(box, box')
  BY <1>3, <1>6, FollowsOn
<1> QED BY <1>2, <1>6, <1>8, <1>9, <1>10, StepKeeps

(* The selection window opens or is about to close under the pointer.      *)
LEMMA PointerKeeps ==
  ASSUME SearchInv, PointerOver \/ PointerOut
  PROVE  SearchInv'
<1>1. /\ held = "none" /\ UNCHANGED <<held, faults, frame>> /\ over' \in BOOLEAN
      /\ box' = OnSearchSelectShow(box) \/ box' = OnSearchSelectHide(box)
      /\ held' \in Keys \cup {"none"} /\ BoxInv(box) /\ box \in Boxes
  BY DEF PointerOver, PointerOut, Mouse, SearchInv, BoxInv
<1>2. /\ box' \in Boxes /\ box'.focus = box.focus /\ box'.timers = box.timers
      /\ box'.keyTimeout = box.keyTimeout /\ SameText(box, box') /\ Unsearched(box, box')
      /\ box'.searchIndex = box.searchIndex
  BY <1>1 DEF OnSearchSelectShow, OnSearchSelectHide, Boxes, SameText, Unsearched
<1>3. BoxInv(box')
  BY <1>1, <1>2 DEF BoxInv, SameText, Unsearched
<1>4. "hasty" \notin faults => Closed(box') /\ Quiet(box', held')
  BY <1>1, <1>2 DEF SearchInv, Closed, Quiet, SameText, Unsearched
<1>5. Answered(box') /\ Follows(box, box')
  BY <1>1, <1>2 DEF SearchInv, Answered, LastSearched, SameText, Unsearched, SearchThrows, Follows
<1>6. FrameInv(frame') /\ FocusShown(box', frame') /\ box'.timers <= MaxTimers /\ SameRows(frame, frame')
  BY <1>1, <1>2 DEF SearchInv, FocusShown, SameRows
<1> QED BY <1>1, <1>3, <1>4, <1>5, <1>6, StepKeeps

(* The half second is over: a patient reader had left the box open.        *)
LEMMA SearchTimerKeeps ==
  ASSUME SearchInv, SearchTimer
  PROVE  SearchInv'
<1>1. PICK n : n = box.timers - 1
  OBVIOUS
<1>2. BoxInv(box) /\ box \in Boxes /\ box.timers > 0 /\ box.timers \in Nat /\ box.timers <= MaxTimers
  BY DEF SearchTimer, SearchInv, BoxInv, Boxes
<1>3. n \in Nat /\ n <= MaxTimers /\ (box.timers = 1 => n = 0)
  BY <1>1, <1>2, SearchAssumption
<1>4. PICK c : c = [box EXCEPT !.timers = n]
  OBVIOUS
<1>5. /\ c \in Boxes /\ c.timers = n /\ c.focus = box.focus /\ c.active = box.active
      /\ c.searchActive = box.searchActive /\ c.value = box.value /\ Unsearched(box, c)
  BY <1>2, <1>3, <1>4 DEF Boxes, Unsearched
<1>6. box' = Search(c) /\ UNCHANGED <<frame, held, over, faults>>
  BY <1>1, <1>4 DEF SearchTimer
<1>7. Searched(c, box')
  BY <1>5, <1>6, SearchFactsOfBox
<1>8. BoxInv(box')
  BY <1>2, <1>5, <1>7 DEF Searched, SameBox, Unsearched, Found, BoxInv, Pages
<1>9. Answered(box') /\ Follows(box, box')
  BY <1>5, <1>7 DEF Searched, Unsearched, Found, Answered, LastSearched, SearchThrows, Follows
<1>10. "hasty" \notin faults => Closed(box') /\ Quiet(box', held')
  <2> SUFFICES ASSUME "hasty" \notin faults PROVE Closed(box') /\ Quiet(box', held')
    OBVIOUS
  <2>1. box.active /\ box.timers = 1
    BY <1>2 DEF SearchInv, Closed, Quiet
  <2> QED BY <1>3, <1>5, <1>7, <2>1 DEF Searched, SameBox, Closed, Quiet
<1>11. box'.timers <= MaxTimers /\ FrameInv(frame') /\ FocusShown(box', frame') /\ SameRows(frame, frame')
  BY <1>3, <1>5, <1>6, <1>7 DEF Searched, SameBox, SearchInv, FocusShown, SameRows
<1>12. held' \in Keys \cup {"none"} /\ over' \in BOOLEAN
  BY <1>6 DEF SearchInv
<1> QED BY <1>6, <1>8, <1>9, <1>10, <1>11, <1>12, StepKeeps

LEMMA HideTimerKeeps ==
  ASSUME SearchInv, HideTimer
  PROVE  SearchInv'
<1>1. PICK c : c = [box EXCEPT !.hideTimeout = FALSE]
  OBVIOUS
<1>2. /\ box' = CloseSelectionWindow(c) /\ UNCHANGED <<frame, held, over, faults>>
      /\ BoxInv(box) /\ box \in Boxes
  BY <1>1 DEF HideTimer, SearchInv, BoxInv
<1>3. /\ c \in Boxes /\ c.focus = box.focus /\ c.timers = box.timers
      /\ c.keyTimeout = box.keyTimeout /\ SameText(box, c) /\ Unsearched(box, c)
      /\ c.searchIndex = box.searchIndex
  BY <1>1, <1>2 DEF Boxes, SameText, Unsearched
<1>4. BoxInv(c) /\ (Closed(box) => Closed(c)) /\ (Answered(box) => Answered(c))
  BY <1>2, <1>3 DEF BoxInv, SameText, Unsearched, Closed, Answered, LastSearched, SearchThrows
<1>5. /\ BoxInv(box') /\ box'.timers = c.timers /\ box'.focus \in {c.focus, Nowhere}
      /\ box'.focus # Select /\ box'.keyTimeout = c.keyTimeout
      /\ Closed(c) => Closed(box')
      /\ Follows(c, box') /\ (Answered(c) => Answered(box'))
  BY <1>2, <1>4, CloseSelectKeepsBox
<1>6. "hasty" \notin faults => Closed(box') /\ Quiet(box', held')
  BY <1>2, <1>3, <1>4, <1>5 DEF SearchInv, Quiet
<1>7. held' \in {"none", "shift-down"} \/ box'.focus # Field => Answered(box')
  <2>1. CASE held \in {"none", "shift-down"} \/ box.focus # Field
    BY <1>4, <1>5, <2>1 DEF SearchInv
  <2>2. CASE held \notin {"none", "shift-down"} /\ box.focus = Field
    <3>1. CloseSelectionWindow(c).focus = Field
      BY <1>2, <1>3, <1>5, <2>2, ElementsAreFocus DEF CloseSelectionWindow, Boxes
    <3> QED BY <1>2, <2>2, <3>1
  <2> QED BY <2>1, <2>2
<1>8. box'.timers <= MaxTimers /\ FrameInv(frame') /\ FocusShown(box', frame') /\ SameRows(frame, frame')
  BY <1>2, <1>3, <1>5, ElementsAreFocus DEF SearchInv, FocusShown, SameRows
<1>10. Follows(box, box')
  <2>1. Follows(box, c)
    BY <1>3 DEF SameText, Unsearched, Follows
  <2> QED BY <1>5, <2>1, FollowsOn
<1>9. held' \in Keys \cup {"none"} /\ over' \in BOOLEAN
  BY <1>2 DEF SearchInv
<1> QED BY <1>2, <1>5, <1>6, <1>7, <1>8, <1>9, <1>10, StepKeeps

(* A load takes the focus out of the document it replaces.                 *)
LEMMA LoadKeeps ==
  ASSUME SearchInv, LoadResults
  PROVE  SearchInv'
<1>1. PICK e : e = IF box.focus.at = "row" THEN Nowhere ELSE box.focus
  OBVIOUS
<1>2. /\ box' = [box EXCEPT !.location = NoLocation, !.focus = e]
      /\ frame' = LoadedFrame(box.location) /\ UNCHANGED <<held, over, faults>>
      /\ box.location.page \in Pages /\ BoxInv(box) /\ box \in Boxes
  BY <1>1 DEF LoadResults, SearchInv, BoxInv, Pages
<1>3. e \in FocusType /\ e.at # "row"
  BY <1>1, <1>2, ElementsAreFocus DEF Boxes, FocusType
<1>4. /\ e = Field <=> box.focus = Field
      /\ e = Select => box.focus = Select
  BY <1>1, ElementsAreFocus
<1>5. NoLocation \in [page : DOMAIN searchData \union {"none", "nomatches"}, search : Texts]
  BY SearchFacts DEF NoLocation
<1>6. /\ box' \in Boxes /\ box'.focus = e /\ box'.timers = box.timers
      /\ box'.keyTimeout = box.keyTimeout /\ SameText(box, box') /\ box'.popup = box.popup
      /\ box'.searchIndex = box.searchIndex /\ box'.location = NoLocation
  BY <1>2, <1>3, <1>5 DEF Boxes, FocusType, SameText
<1>7. BoxInv(box')
  BY <1>2, <1>3, <1>4, <1>6 DEF BoxInv, SameText
<1>8. "hasty" \notin faults => Closed(box') /\ Quiet(box', held')
  BY <1>2, <1>4, <1>6 DEF SearchInv, Closed, Quiet, SameText
<1>9. held' \in {"none", "shift-down"} \/ box'.focus # Field => Answered(box')
  BY <1>2, <1>4, <1>6 DEF SearchInv, Answered, LastSearched, SameText, SearchThrows
<1>10. FrameInv(frame') /\ FocusShown(box', frame') /\ box'.timers <= MaxTimers
  BY <1>2, <1>3, <1>6, LoadMakesFrame DEF SearchInv, FocusShown
<1>11. held' \in Keys \cup {"none"} /\ over' \in BOOLEAN
  BY <1>2 DEF SearchInv
<1>12. OnTheWay(box', frame')
  <2> SUFFICES ASSUME box'.popup
               PROVE  \E section \in DOMAIN indexSections :
                        LET place == Place(section, box'.lastSearchValue)
                        IN  frame'.page = place.page /\ frame'.shown = LoadedFrame(place).shown
    BY <1>6 DEF OnTheWay
  <2>1. box.location # NoLocation /\ OnTheWay(box, frame) /\ box.popup
    BY <1>6 DEF LoadResults, SearchInv
  <2>2. PICK section \in DOMAIN indexSections : box.location = Place(section, box.lastSearchValue)
    BY <2>1 DEF OnTheWay, AskedFor
  <2>3. box'.lastSearchValue = box.lastSearchValue
    BY <1>6 DEF SameText
  <2>4. LoadedFrame(box.location).page = box.location.page
    BY <1>2, LoadMakesFrame
  <2> QED BY <1>2, <2>2, <2>3, <2>4
<1> QED BY <1>2, <1>7, <1>8, <1>9, <1>10, <1>11, <1>12, StepKeeps

LEMMA SearchStep == SearchInv /\ [Next]_vars => SearchInv'
<1> SUFFICES ASSUME SearchInv, [Next]_vars PROVE SearchInv'
  OBVIOUS
<1>1. CASE Next
  BY <1>1, KeyDownKeeps, KeyPressKeeps, KeyUpKeeps, ClickFieldKeeps, ClickAwayKeeps,
     ClickCloseKeeps, ClickItemKeeps, ClickSelectItemKeeps, PointerKeeps, SearchTimerKeeps,
     HideTimerKeeps, LoadKeeps DEF Next
<1>2. CASE UNCHANGED vars
  <2>1. /\ box' = box /\ frame' = frame /\ held' = held /\ over' = over /\ faults' = faults
    BY <1>2 DEF vars
  <2>2. Follows(box, box') /\ SameRows(frame, frame')
    BY <2>1 DEF Follows, SameRows
  <2> QED BY <2>1, <2>2, StepKeeps DEF SearchInv
<1> QED BY <1>1, <1>2

LEMMA SearchInvStays == Spec => []SearchInv
BY SearchInitInv, SearchStep, PTL DEF Spec

-----------------------------------------------------------------------------
(* The state of the box and of the frame stays in its type, the running    *)
(* timers among it: a box that knows a timer (keyTimeout) has one, although*)
(* Search forgets timers without stopping them.                            *)
THEOREM BoxTypes == Spec => []TypeOK
<1>1. SearchInv => TypeOK
  <2> SUFFICES ASSUME SearchInv PROVE TypeOK
    OBVIOUS
  <2>1. box \in Boxes /\ box.timers <= MaxTimers /\ (box.keyTimeout => box.timers > 0)
    BY DEF SearchInv, BoxInv
  <2>2. /\ frame.page \in DOMAIN searchData \union {"void", "nomatches"}
        /\ frame.open \subseteq Int /\ frame.shown \subseteq Int
    BY DEF SearchInv, FrameInv, FrameType
  <2> QED BY <2>1, <2>2 DEF SearchInv, TypeOK
<1> QED BY <1>1, SearchInvStays, PTL

(* Whichever way a patient reader leaves the box, Activate leaves it       *)
(* closed, with its label, and with no text to be taken for the last one   *)
(* searched: for every index, label and set of texts.                      *)
THEOREM LeftBoxIsClosed == Spec => []InactiveIsClosed
<1>1. SearchInv => InactiveIsClosed
  BY DEF SearchInv, Closed, InactiveIsClosed
<1> QED BY <1>1, SearchInvStays, PTL

(* OnSearchFieldChange stops and starts the timer so that no search is     *)
(* lost: a text in the field was the last one searched, with the document  *)
(* for it on display or on its way, or a timer will search for it, for any *)
(* number of timers running at once; unless a section past the last, where *)
(* Search throws, was chosen, or the user was hasty.                       *)
THEOREM NoSearchLost == Spec => []SearchNotLost
<1>1. SearchInv => SearchNotLost
  <2> SUFFICES ASSUME SearchInv, box.focus = Field, held = "none", StripAll(box.value) # <<>>
               PROVE  \/ box.timers > 0 \/ SearchThrows(box)
                      \/ /\ box.popup
                         /\ \/ "hasty" \in faults
                            \/ LastSearched(box) /\ Answers(box.lastSearchValue)
    BY DEF SearchNotLost, LastSearched
  <2>1. \/ box.timers > 0 \/ SearchThrows(box)
        \/ box.popup /\ ("hasty" \in faults \/ LastSearched(box))
    BY DEF SearchInv, Answered
  <2>2. ASSUME box.popup PROVE Answers(box.lastSearchValue)
    <3>1. CASE AskedFor(box, box.location)
      <4>1. PICK section \in DOMAIN indexSections : box.location = Place(section, box.lastSearchValue)
        BY <3>1 DEF AskedFor
      <4>2. box.location # NoLocation
        BY <4>1, ResultsPageType, SearchAssumption DEF Place, NoLocation, Pages
      <4> QED BY <4>1, <4>2 DEF Answers
    <3>2. CASE ~ AskedFor(box, box.location)
      BY <2>2, <3>2 DEF SearchInv, OnTheWay, Answers
    <3> QED BY <3>1, <3>2
  <2> QED BY <2>1, <2>2
<1> QED BY <1>1, SearchInvStays, PTL

(* No close, load, toggle or collapse leaves the focus in the frame on an  *)
(* element that is not on display, whatever page is loaded.                *)
THEOREM FocusStaysDisplayed == Spec => []FocusIsDisplayed
<1>1. SearchInv => FocusIsDisplayed
  BY DEF SearchInv, BoxInv, FocusShown, FrameInv, Displayed, FocusIsDisplayed
<1> QED BY <1>1, SearchInvStays, PTL

(* The page of the runs uses the box or the tree: what holds of the box    *)
(* alone holds of the page.                                                *)
THEOREM PageRunsBox == PageSpec => Spec
<1>1. PageInit => Init
  BY DEF PageInit
<1>2. [PageNext]_<<vars, treeVars>> => [Next]_vars
  BY DEF PageNext
<1> QED BY <1>1, <1>2, PTL DEF PageSpec, Spec

=============================================================================

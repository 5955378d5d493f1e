--------------------------- MODULE SearchResults ---------------------------
(***************************************************************************)
(* The results page of the documentation's search (docs/yun/html/search/   *)
(* search.js, the SearchResults half): which rows a query shows, and how   *)
(* the keys move through them.  The page is a document of its own, loaded  *)
(* in a frame of the page that holds the search box (SearchBox).           *)
(*                                                                         *)
(* The state of the document is one record, so that a page load replaces   *)
(* it as a whole; a text is a sequence of characters.                      *)
(***************************************************************************)
EXTENDS Integers, SequencesExt

CONSTANTS
  searchData  \* page -> its entries in order: the id and the name (both in
              \* lower case) and the number of children, 0 if the entry is
              \* a single result

Blank == " "
NoItem == -1

(* What toLowerCase and convertToId do to the characters of the model.     *)
Lower(text) ==
  [k \in DOMAIN text |-> CASE text[k] = "P" -> "p"
                           [] text[k] = "S" -> "s"
                           [] OTHER -> text[k]]

IdOf(c) == CASE c = "_"   -> <<"_", "5", "f">>
             [] c = Blank -> <<"_", "2", "0">>
             [] OTHER     -> <<c>>

convertToId(search) == FlattenSeq([k \in DOMAIN search |-> IdOf(search[k])])

(* replace(/^ +/, "") and replace(/ +$/, "")                               *)
StripLeading(text) ==
  LET kept == {k \in DOMAIN text : \E j \in 1..k : text[j] # Blank}
  IN  SubSeq(text, Len(text) - Cardinality(kept) + 1, Len(text))

StripTrailing(text) == Reverse(StripLeading(Reverse(text)))

(* Item0, Item1, ... and Item<i>_c0, Item<i>_c1, ... are the elements that *)
(* createResults makes; they are what can have the focus in the frame.     *)
Entry(page, i) == searchData[page][i + 1]
Items(page) == 0 .. Len(searchData[page]) - 1
HasResults(frame) == frame.page \in DOMAIN searchData

ASSUME DataAssumption ==
  \A page \in DOMAIN searchData : \A i \in Items(page) : Entry(page, i).children \in Nat

Item(i) == [at |-> "row", item |-> i, child |-> NoItem]
Child(i, c) == [at |-> "row", item |-> i, child |-> c]

(* The rows that SearchResults.Search shows for the text of the URL.       *)
Matching(page, search) ==
  LET query == convertToId(Lower(StripTrailing(StripLeading(search))))
  IN  {i \in Items(page) : IsPrefix(query, Entry(page, i).id)}

(* A page without results: the frame's first document and nomatches.html   *)
(* have no searchResults object.                                           *)
EmptyFrame(page) == [page |-> page, shown |-> {}, open |-> {},
                     lastKey |-> "none", repeatOn |-> FALSE]

(* createResults, then Search with the text of the URL: the rows and their *)
(* children are hidden until one of them is shown.                         *)
LoadedFrame(location) ==
  IF location.page \in DOMAIN searchData
  THEN [EmptyFrame(location.page)
          EXCEPT !.shown = Matching(location.page, location.search)]
  ELSE EmptyFrame(location.page)

(* The first visible item from index on, upwards and downwards.            *)
NavNext(frame, index) ==
  LET visible == {i \in frame.shown : i >= index}
  IN  IF visible = {} THEN NoItem ELSE Min(visible)

NavPrev(frame, index) ==
  LET visible == {i \in frame.shown : i <= index}
  IN  IF visible = {} THEN NoItem ELSE Max(visible)

Children(frame, i) == Entry(frame.page, i).children

Toggle(frame, i) ==
  IF Children(frame, i) = 0 THEN frame
  ELSE [frame EXCEPT !.open = IF i \in @ THEN @ \ {i} ELSE @ \union {i}]

(* The document after ProcessKeys has seen an event, and whether the       *)
(* event is to be acted on.                                                *)
ProcessKeys(frame, type, key) ==
  CASE type = "keydown"  -> [frame EXCEPT !.lastKey = key, !.repeatOn = FALSE]
    [] type = "keypress" -> [frame EXCEPT !.repeatOn = @ \/ frame.lastKey # "none"]
    [] type = "keyup"    -> [frame EXCEPT !.lastKey = "none", !.repeatOn = FALSE]

KeyActs(frame, type) ==
  \/ type = "keydown"
  \/ type = "keypress" /\ frame.repeatOn /\ frame.lastKey # "none"

(* Left that closes the children from one of them too.                     *)
NavOpenAnywhere(frame, at, key) ==
  IF Children(frame, at.item) = 0 THEN frame
  ELSE CASE key = "right" -> [frame EXCEPT !.open = @ \union {at.item}]
         [] key = "left"  -> [frame EXCEPT !.open = @ \ {at.item}]
         [] OTHER         -> frame

(* The document after Right or Left on an item (Nav; NavChild has neither).*)
NavOpen(frame, at, key) ==
  IF at.child # NoItem \/ Children(frame, at.item) = 0 THEN frame
  ELSE CASE key = "right" -> [frame EXCEPT !.open = @ \union {at.item}]
         [] key = "left"  -> [frame EXCEPT !.open = @ \ {at.item}]
         [] OTHER         -> frame

(* Up into the children of the item above, to the first of them.           *)
UpToFirstChild(frame, at) ==
  LET i == at.item
      p == NavPrev(frame, i - 1)
  IN  CASE at.child > 0 -> Child(i, at.child - 1)
        [] at.child = 0 -> Item(i)
        [] OTHER -> IF p \in frame.open THEN Child(p, 0) ELSE Item(p)

(* The element that Up and Down go to from at, NoItem if there is none.    *)
NavUp(frame, at) ==
  LET i == at.item
      p == NavPrev(frame, i - 1)
  IN  CASE at.child > 0 -> Child(i, at.child - 1)
        [] at.child = 0 -> Item(i)
        [] OTHER -> IF p \in frame.open /\ Children(frame, i - 1) > 0
                    THEN Child(i - 1, Children(frame, i - 1) - 1)
                    ELSE Item(p)

NavDown(frame, at) ==
  IF /\ at.child # NoItem \/ at.item \in frame.open
     /\ at.child + 1 < Children(frame, at.item)
  THEN Child(at.item, at.child + 1)
  ELSE Item(NavNext(frame, at.item + 1))

(* Whether an element of the frame is on display, and can take the focus.  *)
Displayed(frame, at) ==
  /\ at.item \in frame.shown
  /\ at.child # NoItem => at.item \in frame.open
=============================================================================

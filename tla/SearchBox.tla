----------------------------- MODULE SearchBox -----------------------------
(***************************************************************************)
(* The search box of a documentation page (docs/yun/html/search/search.js, *)
(* the SearchBox half) composed with the results page in its frame         *)
(* (SearchResults), the keyboard, the mouse, the two timers and the loads  *)
(* of the frame.                                                           *)
(*                                                                         *)
(* The handlers call one another, and moving the focus calls Activate, so  *)
(* a handler is an operator from the state of the box to the state it      *)
(* leaves; the actions are the events of the browser.  A key is held from  *)
(* its keydown to its keyup, and each event of it goes to the element that *)
(* has the focus at that moment.                                           *)
(***************************************************************************)
EXTENDS SearchResults

CONSTANTS
  indexSections,  \* for each section its index characters, and the pages
                  \* that belong to them
  searchLabel,    \* the text of the field while the box is inactive
  Characters,     \* the characters the user types
  Typed,          \* bound on what the field holds: the texts typed
  MaxTimers,      \* bound on the search timers running at once
  Environments    \* what the user may do, see below

(* An environment is a set of things that may happen; a behaviour has one, *)
(* faults, from its beginning to its end.                                  *)
(*                                                                         *)
(* "hasty"  the user leaves the field, opens the selection window or picks *)
(*          a section although the half second after a key is not over     *)
(* "race"   the half second may end while a key is down                    *)
(* "mouse"  the mouse is used for more than entering the field             *)
(* "pointer" the selection window is opened with the pointer               *)
(* "keypress" the browser sends keypress events for the arrow keys too     *)
(* "tree"   the class tree of the page is used instead of the search       *)
AllHabits == {"tree", "hasty", "race", "mouse", "pointer", "keypress"}

ASSUME SearchAssumption ==
  /\ IsFiniteSet(DOMAIN indexSections)
  /\ DOMAIN indexSections = 0 .. Cardinality(DOMAIN indexSections) - 1
  /\ \A s \in DOMAIN indexSections :
       /\ indexSections[s].pages \in Seq(DOMAIN searchData)
       /\ DOMAIN indexSections[s].chars = DOMAIN indexSections[s].pages
  /\ searchLabel \in Seq(Range(searchLabel))
  /\ Typed \subseteq Seq(Characters) /\ MaxTimers \in Nat \ {0}
  /\ Environments \subseteq SUBSET AllHabits
  /\ Characters \cap {"none", "erase", "up", "down", "shift-down", "left", "right",
                      "enter", "esc"} = {}
  /\ DOMAIN searchData \cap {"none", "void", "nomatches"} = {}

(* Doxygen writes a page's entries in an order in which those that match a *)
(* query are neighbours: NavUp relies on it.  A query is made of whole     *)
(* characters (convertToId): 'parse_' is none, and would match the first   *)
(* and the third entry of all_7.js, but not the second.                    *)
WholePrefixes(id) ==
  {SubSeq(id, 1, n) : n \in {m \in 0..Len(id) :
                               \A k \in 1..m : id[k] = "_" => k + 2 <= m}}

ASSUME SortedAssumption ==
  \A page \in DOMAIN searchData : \A i, j, k \in Items(page) :
    i < j /\ j < k =>
      \A query \in WholePrefixes(Entry(page, i).id) :
        IsPrefix(query, Entry(page, k).id) => IsPrefix(query, Entry(page, j).id)

VARIABLES
  box,    \* the search box and the elements of its page, see TypeOK
  frame,  \* the document in the frame, see SearchResults
  held,   \* the key that is down, or "none"
  over,   \* whether the pointer is over the selection icon or window
  faults  \* the environment, never changed

vars == <<box, frame, held, over, faults>>

Nowhere == [at |-> "none",   item |-> NoItem, child |-> NoItem]
Field   == [at |-> "field",  item |-> NoItem, child |-> NoItem]
Select  == [at |-> "select", item |-> NoItem, child |-> NoItem]

NoLocation == [page |-> "none", search |-> <<>>]

EditKeys == Characters \union {"erase"}
Keys == EditKeys \union {"up", "down", "shift-down", "left", "right", "enter", "esc"}

-----------------------------------------------------------------------------
(* Handlers.                                                               *)

(* replace(/ /g, "")                                                       *)
StripAll(text) ==
  LET kept[k \in 0 .. Len(text)] ==
        IF k = 0 THEN <<>>
        ELSE IF text[k] = Blank THEN kept[k - 1] ELSE Append(kept[k - 1], text[k])
  IN  kept[Len(text)]

(* A box that keeps the text it is left with.                              *)
ActivateKeepsText(b, isActive) ==
  [b EXCEPT !.active = isActive \/ b.popup,
            !.value = IF @ = searchLabel /\ (isActive \/ b.popup) THEN <<>> ELSE @]

(* A box that remembers the last search when it is left.                   *)
ActivateRemembers(b, isActive) ==
  IF isActive \/ b.popup
  THEN [b EXCEPT !.active = TRUE,
                 !.value = IF @ = searchLabel THEN <<>> ELSE @,
                 !.searchActive = @ \/ b.value = searchLabel]
  ELSE [b EXCEPT !.active = FALSE, !.value = searchLabel, !.searchActive = FALSE]

Activate(b, isActive) ==
  IF isActive \/ b.popup
  THEN [b EXCEPT !.active = TRUE,
                 !.value = IF @ = searchLabel THEN <<>> ELSE @,
                 !.searchActive = @ \/ b.value = searchLabel]
  ELSE [b EXCEPT !.active = FALSE, !.value = searchLabel,
                 !.searchActive = FALSE, !.lastSearchValue = <<>>]

(* element.focus(), with the blur and focus events of the field.           *)
FocusOn(b, element) ==
  LET moved == [b EXCEPT !.focus = element]
  IN  IF b.focus = element THEN b
      ELSE CASE b.focus = Field -> Activate(moved, FALSE)
             [] element = Field -> Activate(moved, TRUE)
             [] OTHER           -> moved

(* The page that Search loads for a text; indexOf finds '' at index 0.     *)
ResultsPage(section, searchValue) ==
  LET chars == indexSections[section].chars
      found == {k \in DOMAIN chars :
                  searchValue = <<>> \/ chars[k] = Lower(searchValue)[1]}
  IN  IF found = {} THEN "nomatches" ELSE indexSections[section].pages[Min(found)]

Place(section, searchValue) ==
  LET page == ResultsPage(section, searchValue)
  IN  [page |-> page, search |-> IF page = "nomatches" THEN <<>> ELSE searchValue]

(* Without a section at searchIndex, Search throws a TypeError after its   *)
(* first assignment.                                                       *)
SearchThrows(b) == b.searchIndex \notin DOMAIN indexSections

Search(b) ==
  LET searchValue == StripLeading(b.value)
      reset == [b EXCEPT !.keyTimeout = FALSE]
  IN  IF SearchThrows(b) THEN reset
      ELSE [reset EXCEPT
              !.location = Place(b.searchIndex, searchValue),
              !.popup = TRUE,
              !.lastSearchValue = searchValue]

OnSearchSelectShow(b) == [b EXCEPT !.select = TRUE, !.hideTimeout = FALSE]

OnSearchSelectHide(b) == [b EXCEPT !.hideTimeout = TRUE]

(* An element that is no longer displayed loses the focus.                 *)
CloseSelectionWindow(b) ==
  [b EXCEPT !.select = FALSE, !.focus = IF @ = Select THEN Nowhere ELSE @]

CloseResultsWindow(b) ==
  Activate([b EXCEPT !.popup = FALSE,
                     !.focus = IF @.at = "row" THEN Nowhere ELSE @], FALSE)

(* SelectItemSet only redraws the mark of the item at searchIndex.         *)
Searches(b) == StripAll(b.value) # <<>> /\ b.searchActive

(* A choice of a section that does not search again.                       *)
ChooseOnly(b, id) == [b EXCEPT !.searchIndex = id]

OnSelectItem(b, id) ==
  LET chosen == [b EXCEPT !.searchIndex = id]
  IN  IF Searches(b) THEN Search(chosen) ELSE chosen

SelectItemCount == Cardinality(DOMAIN indexSections)

(* Down is allowed one step past the last item; there the search throws,   *)
(* and Enter and Escape do not get to closing the window, nor to the false *)
(* that would keep Enter from clicking the first item, which has the focus.*)
OnSearchSelectKey(b, key) ==
  CASE key = "down" /\ b.searchIndex < SelectItemCount -> OnSelectItem(b, b.searchIndex + 1)
    [] key = "up" /\ b.searchIndex > 0 -> OnSelectItem(b, b.searchIndex - 1)
    [] key \in {"enter", "esc"} ->
         LET chosen == OnSelectItem(b, b.searchIndex)
         IN  IF Searches(b) /\ SearchThrows(b)
             THEN IF key = "enter" THEN OnSelectItem(chosen, 0) ELSE chosen
             ELSE FocusOn(CloseSelectionWindow(chosen), Field)
    [] OTHER -> b

(* clearTimeout for a timer that is not known to run.                      *)
KillAnyTimer(b) == [b EXCEPT !.keyTimeout = FALSE, !.timers = @ - 1]

(* clearTimeout, if the timer is known: Search forgets keyTimeout without  *)
(* stopping the timer when it is not the timer that called it.             *)
KillTimer(b) ==
  [b EXCEPT !.keyTimeout = FALSE, !.timers = IF b.keyTimeout THEN @ - 1 ELSE @]

(* The end of OnSearchFieldChange: what the text in the field calls for.   *)
SearchIfChanged(b) ==
  LET searchValue == StripAll(b.value)
  IN  IF searchValue = b.lastSearchValue THEN b
      ELSE IF searchValue = <<>>
      THEN [b EXCEPT !.popup = FALSE, !.lastSearchValue = <<>>,
                     !.focus = IF @.at = "row" THEN Nowhere ELSE @]
      ELSE [b EXCEPT !.keyTimeout = TRUE, !.timers = @ + 1]

(* The keyup handler of the field: Down and Enter enter the results that   *)
(* the frame shows, Escape leaves the search.                              *)
OnSearchFieldChange(b, f, key) ==
  LET ready == KillTimer(b)
      first == NavNext(f, 0)
  IN  CASE key = "shift-down" -> FocusOn(OnSearchSelectShow(ready), Select)
        [] key = "esc" ->
             Activate([FocusOn(ready, Nowhere) EXCEPT !.popup = FALSE,
                                                      !.lastSearchValue = <<>>], FALSE)
        [] key \in {"down", "enter"} /\ first # NoItem /\ b.popup ->
             SearchIfChanged(FocusOn(ready, Item(first)))
        [] OTHER -> SearchIfChanged(ready)

(* Nav and NavChild, for an event that ProcessKeys lets through.           *)
Nav(b, f, key) ==
  LET up == NavUp(f, b.focus)
      down == NavDown(f, b.focus)
  IN  CASE key = "up" -> IF up.item = NoItem THEN FocusOn(b, Field)
                         ELSE IF Displayed(f, up) THEN FocusOn(b, up) ELSE b
        [] key = "down" -> IF Displayed(f, down) THEN FocusOn(b, down) ELSE b
        [] key = "esc" -> FocusOn(CloseResultsWindow(b), Field)
        [] OTHER -> b

-----------------------------------------------------------------------------
(* Init: the page after init_search.                                       *)

Init ==
  /\ box = OnSelectItem(
       [value |-> searchLabel, lastSearchValue |-> <<>>, searchActive |-> FALSE,
        active |-> FALSE, popup |-> FALSE, select |-> FALSE, focus |-> Nowhere,
        searchIndex |-> 0, keyTimeout |-> FALSE, timers |-> 0,
        hideTimeout |-> FALSE, location |-> NoLocation], 0)
  /\ frame = EmptyFrame("void")
  /\ held = "none" /\ over = FALSE
  /\ faults \in Environments

(* What the user does not do in a hurry.                                   *)
Patient == "hasty" \in faults \/ box.timers = 0

(* A key goes down.  The field has no handler: the browser edits the text, *)
(* at any place of it.  There Enter is like Down, and Left and Right are   *)
(* like Up.                                                                *)
Edits(text, key) ==
  IF key \in Characters
  THEN {InsertAt(text, k, key) : k \in 1 .. Len(text) + 1}
  ELSE IF key = "erase" THEN {RemoveAt(text, k) : k \in DOMAIN text} ELSE {text}

KeyDownInField(key) ==
  /\ box.focus = Field /\ key \notin {"enter", "left", "right"}
  /\ key = "shift-down" => Patient
  /\ \E text \in Edits(box.value, key) :
       text \in Typed /\ box' = [box EXCEPT !.value = text]
  /\ UNCHANGED frame

KeyDownInSelect(key) ==
  /\ box.focus = Select /\ key \in {"up", "down", "enter", "esc"}
  /\ box' = OnSearchSelectKey(box, key)
  /\ UNCHANGED frame

(* Enter follows the link of the item: it toggles an item with children,   *)
(* and leaves the page, which ends the behaviour, on any other.            *)
EnterInResults ==
  /\ box.focus.child = NoItem /\ Children(frame, box.focus.item) > 0
  /\ frame' = Toggle(frame, box.focus.item)
  /\ UNCHANGED box

(* Nav for an event of a key other than Enter.                             *)
KeyInResults(type, key) ==
  LET seen == ProcessKeys(frame, type, key)
  IN  IF KeyActs(frame, type)
      THEN /\ box' = Nav(box, frame, seen.lastKey)
           /\ frame' = NavOpen(seen, box.focus, seen.lastKey)
      ELSE frame' = seen /\ UNCHANGED box

KeyDown(key) ==
  /\ held \in {"none", key} /\ held' = key
  /\ \/ KeyDownInField(key)
     \/ KeyDownInSelect(key)
     \/ box.focus.at = "row" /\ key = "enter" /\ EnterInResults
     \/ /\ box.focus.at = "row" /\ key \notin EditKeys \union {"enter", "shift-down"}
        /\ KeyInResults("keydown", key)
  /\ UNCHANGED <<over, faults>>

KeyPress ==
  /\ "keypress" \in faults
  /\ held \notin {"none", "enter"} /\ box.focus.at = "row"
  /\ KeyInResults("keypress", held)
  /\ UNCHANGED <<held, over, faults>>

KeyUp ==
  /\ held # "none" /\ held' = "none"
  /\ CASE box.focus = Field ->
            /\ box' = OnSearchFieldChange(box, frame, held)
            /\ box'.timers <= MaxTimers
            /\ UNCHANGED frame
       [] box.focus.at = "row" /\ held # "enter" -> KeyInResults("keyup", held)
       [] OTHER -> UNCHANGED <<box, frame>>
  /\ UNCHANGED <<over, faults>>

(* The mouse, used while no key is down.                                   *)
Mouse == held = "none" /\ UNCHANGED <<held, faults>>

ClickField ==
  /\ Mouse /\ box' = FocusOn(box, Field) /\ UNCHANGED <<frame, over>>

ClickAway ==
  /\ Mouse /\ "mouse" \in faults /\ Patient
  /\ box' = FocusOn(box, Nowhere) /\ UNCHANGED <<frame, over>>

ClickClose ==
  /\ Mouse /\ "mouse" \in faults /\ Patient /\ box.popup
  /\ box' = CloseResultsWindow(FocusOn(box, Nowhere)) /\ UNCHANGED <<frame, over>>

ClickItem(i) ==
  /\ Mouse /\ "mouse" \in faults /\ box.popup /\ i \in frame.shown
  /\ Children(frame, i) > 0
  /\ box' = FocusOn(box, Item(i)) /\ frame' = Toggle(frame, i)
  /\ UNCHANGED over

ClickSelectItem(id) ==
  /\ Mouse /\ "mouse" \in faults /\ Patient /\ box.select
  /\ box' = OnSelectItem(FocusOn(box, Select), id) /\ UNCHANGED <<frame, over>>

PointerOver ==
  /\ Mouse /\ "pointer" \in faults /\ ~over /\ over' = TRUE
  /\ box' = OnSearchSelectShow(box) /\ UNCHANGED frame

PointerOut ==
  /\ Mouse /\ over /\ over' = FALSE
  /\ box' = OnSearchSelectHide(box) /\ UNCHANGED frame

(* The two timers, and the frame's document arriving.                      *)
SearchTimer ==
  /\ box.timers > 0 /\ (held = "none" \/ "race" \in faults)
  /\ box' = Search([box EXCEPT !.timers = @ - 1])
  /\ UNCHANGED <<frame, held, over, faults>>

HideTimer ==
  /\ box.hideTimeout
  /\ box' = CloseSelectionWindow([box EXCEPT !.hideTimeout = FALSE])
  /\ UNCHANGED <<frame, held, over, faults>>

LoadResults ==
  /\ box.location # NoLocation
  /\ frame' = LoadedFrame(box.location)
  /\ box' = [box EXCEPT !.location = NoLocation,
                        !.focus = IF @.at = "row" THEN Nowhere ELSE @]
  /\ UNCHANGED <<held, over, faults>>

Next ==
  \/ \E key \in Keys : KeyDown(key)
  \/ KeyPress \/ KeyUp
  \/ ClickField \/ ClickAway \/ ClickClose
  \/ \E i \in frame.shown : ClickItem(i)
  \/ \E id \in DOMAIN indexSections : ClickSelectItem(id)
  \/ PointerOver \/ PointerOut
  \/ SearchTimer \/ HideTimer \/ LoadResults

Spec == Init /\ [][Next]_vars

-----------------------------------------------------------------------------
(* Properties.                                                             *)

Texts == Seq(Characters \union Range(searchLabel))

Boxes ==
  [value : Texts, lastSearchValue : Texts, searchActive : BOOLEAN,
   active : BOOLEAN, popup : BOOLEAN, select : BOOLEAN,
   focus : [at : {"none", "field", "select", "row"}, item : Int, child : Int],
   searchIndex : 0..SelectItemCount, keyTimeout : BOOLEAN,
   timers : Nat, hideTimeout : BOOLEAN,
   location : [page : DOMAIN searchData \union {"none", "nomatches"}, search : Texts]]

(* The state of the box and of the document in the frame: no more search   *)
(* timers than bounded, of which at most one is known to the box.          *)
TypeOK ==
  /\ box \in Boxes /\ box.timers <= MaxTimers
  /\ frame.page \in DOMAIN searchData \union {"void", "nomatches"}
  /\ frame.open \subseteq Int /\ frame.shown \subseteq Int
  /\ box.keyTimeout => box.timers > 0
  /\ held \in Keys \union {"none"} /\ over \in BOOLEAN

(* An inactive box is closed and forgets the last search: Activate, called *)
(* for every way out (Escape in the field, in the results and in the       *)
(* selection window, the close button, a click elsewhere), leaves the box  *)
(* active, as a click elsewhere does while results are open, or else with  *)
(* no results on display and no text to be taken for the last one searched.*)
(* Not for a hasty user: a timer that still runs opens them again.         *)
InactiveIsClosed ==
  "hasty" \in faults \/ box.active
  \/ /\ ~box.popup /\ box.timers = 0
     /\ box.value = searchLabel /\ box.lastSearchValue = <<>>

(* What the user reads as the answer: the names of a section that start    *)
(* with the text in the field, the case and the blanks around it apart.    *)
Answer(section, text) ==
  LET wanted == Lower(StripTrailing(StripLeading(text)))
      names(page) == {Entry(page, i).name : i \in Items(page)}
  IN  {name \in UNION {names(page) : page \in Range(indexSections[section].pages)} :
         IsPrefix(wanted, name)}

Shown == IF HasResults(frame) THEN {Entry(frame.page, i).name : i \in frame.shown} ELSE {}

InnerBlank(text) == Blank \in Range(StripTrailing(StripLeading(text)))

Settled == box.timers = 0 /\ box.location = NoLocation /\ held = "none"

(* When no search is pending, the results on display are those of the text *)
(* in the field and of the section chosen, whatever was typed, erased or   *)
(* chosen before and however the timer, the loads and the keys raced.  Not *)
(* after a section past the last was chosen, nor for a text with a blank   *)
(* inside: OnSearchFieldChange compares the text without any of its blanks.*)
(* A timer that fires after the last character is erased and before the    *)
(* key is up leaves the first page on display for an empty field.  And     *)
(* Activate takes a text that equals the label for the label: the field is *)
(* emptied when it is left, with the results of the text still on display, *)
(* and a section chosen then is not searched, not even when the same text  *)
(* is typed again.                                                         *)
ResultsAreCurrent ==
  Settled /\ box.popup =>
    \/ "hasty" \in faults \/ SearchThrows(box) \/ InnerBlank(box.value)
    \/ "race" \in faults /\ StripAll(box.value) = <<>>
    \/ box.lastSearchValue = searchLabel
    \/ Shown = Answer(box.searchIndex, box.value)

(* The document for a text, in some section, is in the frame or on its way.*)
Answers(searchValue) ==
  \E section \in DOMAIN indexSections :
    LET place == Place(section, searchValue)
    IN  IF box.location = NoLocation
        THEN frame.page = place.page /\ frame.shown = LoadedFrame(place).shown
        ELSE box.location = place

(* No search is lost: with a text in the field that has the focus and no   *)
(* key down, a timer is about to search for it, or it is the text that was *)
(* searched last, as OnSearchFieldChange compares them (without any of its *)
(* blanks; Search drops the leading ones), the results window is open, and *)
(* the document for it is in it or on its way.  Every keyup stops the timer*)
(* before it decides whether to start it again.  Not after a section past  *)
(* the last was chosen, where Search throws.  A hasty user who opens the   *)
(* selection window before the search stops its timer (search.js:156): the *)
(* results may then be older ones.                                         *)
SearchNotLost ==
  box.focus = Field /\ held = "none" /\ StripAll(box.value) # <<>> =>
    \/ box.timers > 0 \/ SearchThrows(box)
    \/ /\ box.popup
       /\ \/ "hasty" \in faults
          \/ /\ box.lastSearchValue \in {StripAll(box.value), StripLeading(box.value)}
             /\ Answers(box.lastSearchValue)

(* The focus in the frame is on an element that is on display: no close,   *)
(* load, toggle or collapse leaves it behind.                              *)
FocusIsDisplayed ==
  box.focus.at = "row" => box.popup /\ HasResults(frame) /\ Displayed(frame, box.focus)

(* The elements on display in their order.                                 *)
Displayable ==
  LET children(i) == IF i \in frame.open THEN Children(frame, i) ELSE 0
  IN  FlattenSeq([i \in 1..Len(searchData[frame.page]) |->
        IF i - 1 \notin frame.shown THEN <<>>
        ELSE <<Item(i - 1)>> \o [c \in 1..children(i - 1) |-> Child(i - 1, c - 1)]])

(* Up and Down in the results go to the neighbour on display, into and out *)
(* of open children: Up from the first goes to the field, Down from the    *)
(* last stays.                                                             *)
NavFollowsDisplay ==
  [][LET here == CHOOSE k \in DOMAIN Displayable : Displayable[k] = box.focus
     IN  box.focus.at = "row" =>
           /\ KeyDown("up") =>
                box'.focus = IF here = 1 THEN Field ELSE Displayable[here - 1]
           /\ KeyDown("down") =>
                box'.focus = Displayable[IF here = Len(Displayable) THEN here ELSE here + 1]
    ]_vars
=============================================================================

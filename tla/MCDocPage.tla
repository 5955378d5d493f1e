----------------------------- MODULE MCDocPage -----------------------------
(***************************************************************************)
(* A documentation page such as hierarchy.html: the search box and the     *)
(* class tree.  Neither touches the state of the other, so an environment  *)
(* uses one of them: the habit "tree" is the tree alone.                   *)
(***************************************************************************)
EXTENDS SearchBox, DocTree

(* The tree has the shape of hierarchy.html, with fewer leaves.            *)
MCTree == <<<<0>>, <<1>>, <<1, 0>>, <<1, 0, 0>>, <<1, 0, 1>>, <<1, 1>>, <<2>>, <<2, 0>>>>

(* Entries with and without children, and the escapes and the order of     *)
(* docs/yun/html/search/all_7.js: 'parse_20arduino_20yun_20sdk', 'parse',  *)
(* 'parse_2eh'.                                                            *)
MCData ==
  [all_0     |-> <<[id |-> <<"p", "_", "2", "0", "p">>, name |-> <<"p", " ", "p">>, children |-> 2],
                   [id |-> <<"p">>, name |-> <<"p">>, children |-> 0],
                   [id |-> <<"p", "_", "2", "e", "h">>, name |-> <<"p", ".", "h">>, children |-> 0],
                   [id |-> <<"p", "p">>, name |-> <<"p", "p">>, children |-> 0]>>,
   all_1     |-> <<[id |-> <<"s">>, name |-> <<"s">>, children |-> 1]>>,
   classes_0 |-> <<[id |-> <<"p", "p">>, name |-> <<"p", "p">>, children |-> 0]>>]

MCSections ==
  (0 :> [chars |-> <<"p", "s">>, pages |-> <<"all_0", "all_1">>]) @@
  (1 :> [chars |-> <<"p">>, pages |-> <<"classes_0">>])

MCLabel == <<"S">>

(* Texts with a blank before, after and inside, and the label itself.      *)
MCTyped == {<<>>, <<" ">>, <<"S">>, <<"P">>, <<" ", "P">>, <<"P", " ">>, <<"P", "P">>, <<"P", " ", "P">>}

PageInit == Init /\ TreeInit

PageNext ==
  \/ "tree" \notin faults /\ Next /\ UNCHANGED treeVars
  \/ "tree" \in faults /\ TreeNext /\ UNCHANGED vars

PageSpec == PageInit /\ [][PageNext]_<<vars, treeVars>>
=============================================================================

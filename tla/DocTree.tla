------------------------------ MODULE DocTree ------------------------------
(***************************************************************************)
(* The class tree of the documentation (docs/yun/html/dynsections.js, as   *)
(* hierarchy.html uses it): the rows of a table, which are visible, the    *)
(* arrows of the rows that have children, and the striping.                *)
(***************************************************************************)
EXTENDS Integers, SequencesExt

CONSTANTS
  Tree  \* the ids of the rows in the order of the table: row_1_0_ is <<1, 0>>

(* An id is that of one row, and what is below a row comes after it.       *)
ASSUME TreeAssumption ==
  /\ Tree \in Seq(Seq(Nat))
  /\ \A j, k \in 1 .. Len(Tree) : IsPrefix(Tree[j], Tree[k]) /\ Tree[j] # Tree[k] => j < k
  /\ \A j, k \in 1 .. Len(Tree) : Tree[j] = Tree[k] => j = k

VARIABLES
  visible,  \* the rows on display
  opened,   \* the rows with a down arrow
  even      \* the rows with the class of the even stripe

treeVars == <<visible, opened, even>>

TreeRows == Range(Tree)

(* The rows that the regular expression of toggleFolder selects, and the   *)
(* rows whose id starts with the folder's: both only after the folder.     *)
ChildRows(id) == {r \in TreeRows : Len(r) = Len(id) + 1 /\ IsPrefix(id, r)}
Descendants(id) == {r \in TreeRows : r # id /\ IsPrefix(id, r)}
Folders == {r \in TreeRows : ChildRows(r) # {}}

FirstChild(id) ==
  Tree[Min({k \in DOMAIN Tree : Tree[k] \in ChildRows(id)})]

(* The row at k is the how-manieth of the rows on display.                 *)
Rank(rows, k) == Cardinality({j \in 1 .. k : Tree[j] \in rows})

updateStripes(rows) ==
  {Tree[k] : k \in {j \in 1 .. Len(Tree) : Tree[j] \in rows /\ Rank(rows, j) % 2 = 1}}

TreeInit ==
  /\ visible = TreeRows /\ opened = Folders
  /\ even = updateStripes(TreeRows)

(* level counts from 1; this.id.split('_') has two parts more than the     *)
(* path.  Rows below the level keep the arrow they have.                   *)
toggleLevel(level) ==
  /\ visible' = {r \in TreeRows : Len(r) <= level}
  /\ opened' = {r \in Folders : Len(r) < level \/ (Len(r) > level /\ r \in opened)}
  /\ even' = updateStripes(visible')

(* A folder that shows its children with the arrows they had.              *)
ShowAsItWas(id) ==
  /\ id \in visible
  /\ IF FirstChild(id) \in visible
     THEN visible' = visible \ Descendants(id) /\ opened' = opened \ {id}
     ELSE visible' = visible \union ChildRows(id) /\ opened' = opened \union {id}
  /\ even' = updateStripes(visible')

(* Showing a folder shows its children closed; hiding it leaves the arrows *)
(* of what is below as they are.                                           *)
toggleFolder(id) ==
  /\ id \in visible
  /\ IF FirstChild(id) \in visible
     THEN /\ visible' = visible \ Descendants(id)
          /\ opened' = opened \ {id}
     ELSE /\ visible' = visible \union ChildRows(id)
          /\ opened' = (opened \union {id}) \ ChildRows(id)
  /\ even' = updateStripes(visible')

Levels == {Len(r) : r \in TreeRows}

TreeNext ==
  \/ \E level \in Levels : toggleLevel(level)
  \/ \E id \in Folders : toggleFolder(id)

(* What the reader sees of the tree is a tree: a visible row is below a    *)
(* visible one, a visible folder shows all of its children under a down    *)
(* arrow and none under a right arrow, and the stripes alternate, although *)
(* hidden rows keep arrows and stripes of the past.                        *)
TreeConsistent ==
  /\ \A id \in Folders :
       /\ id \notin visible => ChildRows(id) \intersect visible = {}
       /\ id \in visible /\ id \in opened => ChildRows(id) \subseteq visible
       /\ id \in visible /\ id \notin opened => ChildRows(id) \intersect visible = {}
  /\ even \subseteq visible
  /\ \A j, k \in 1 .. Len(Tree) :
       /\ j < k /\ Tree[j] \in visible /\ Tree[k] \in visible
       /\ \A i \in j + 1 .. k - 1 : Tree[i] \notin visible
       => (Tree[j] \in even <=> Tree[k] \notin even)
=============================================================================

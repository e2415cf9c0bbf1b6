------------------------------- MODULE RbTree -------------------------------
(***************************************************************************)
(* The red-black trees of the extension library, rb_tree.c: links between  *)
(* nodes that lie in the application's objects.  The application searches  *)
(* the place of a new node by its key, links it there and calls            *)
(* rb_insert_color.  Left and right are a parameter here.                  *)
(***************************************************************************)
EXTENDS Integers, SequencesExt, FiniteSetsExt

CONSTANT RbNodes   \* the nodes; a node is its own key

ASSUME RbAssumption == RbNodes \subseteq Nat \ {0} /\ IsFiniteSet(RbNodes)

VARIABLE tree      \* root, child, parent, red; in: the nodes linked

NoNode == 0
Sides == {"rb_left", "rb_right"}
Other(s) == CHOOSE o \in Sides : o # s

NoLinks == [s \in Sides |-> NoNode]

RB_ROOT ==
  [root |-> NoNode, in |-> {}, child |-> [n \in RbNodes |-> NoLinks],
   parent |-> [n \in RbNodes |-> NoNode], red |-> [n \in RbNodes |-> TRUE]]

-----------------------------------------------------------------------------

IsRed(t, n) == n # NoNode /\ t.red[n]

SideOf(t, parent, n) == IF t.child[parent]["rb_left"] = n THEN "rb_left" ELSE "rb_right"

rb_set_parent(t, n, p) == IF n = NoNode THEN t ELSE [t EXCEPT !.parent[n] = p]

(* What led from parent to n leads to new. *)
Relink(t, parent, n, new) ==
  IF parent = NoNode THEN [t EXCEPT !.root = new]
  ELSE [t EXCEPT !.child[parent][SideOf(t, parent, n)] = new]

(* n goes down on side s, and its child on the other side up.              *)
Rotate(t, n, s) ==
  LET up    == t.child[n][Other(s)]
      inner == t.child[up][s]
      moved == Relink([t EXCEPT !.child[n][Other(s)] = inner, !.child[up][s] = n],
                      t.parent[n], n, up)
  IN  rb_set_parent([moved EXCEPT !.parent[up] = t.parent[n], !.parent[n] = up], inner, n)

RECURSIVE rb_insert_color(_, _), __rb_erase_color(_, _, _)

rb_insert_color(t, n) ==
  LET parent  == t.parent[n]
      gparent == t.parent[parent]
      s       == SideOf(t, gparent, parent)
      uncle   == t.child[gparent][Other(s)]
      inner   == t.child[parent][Other(s)] = n
      top     == IF inner THEN n ELSE parent
      turned  == IF inner THEN Rotate(t, parent, s) ELSE t
  IN  IF parent = NoNode \/ ~IsRed(t, parent) THEN [t EXCEPT !.red[t.root] = FALSE]
      ELSE IF IsRed(t, uncle)
        THEN rb_insert_color([t EXCEPT !.red[uncle] = FALSE, !.red[parent] = FALSE,
                                       !.red[gparent] = TRUE], gparent)
      ELSE rb_insert_color(
             Rotate([turned EXCEPT !.red[top] = FALSE, !.red[gparent] = TRUE],
                    gparent, Other(s)),
             IF inner THEN parent ELSE n)

(* The paths through n, perhaps no node, below parent lack a black node:   *)
(* its sibling has a red child, or passes the lack on to the parent.       *)
Mended(t, parent, s) ==
  LET sibling == t.child[parent][Other(s)]
      near    == t.child[sibling][s]
      turned  == IF IsRed(t, t.child[sibling][Other(s)]) THEN t
                 ELSE Rotate([t EXCEPT !.red[near] = FALSE, !.red[sibling] = TRUE],
                             sibling, Other(s))
      upper   == turned.child[parent][Other(s)]
      far     == turned.child[upper][Other(s)]
      done    == Rotate([turned EXCEPT !.red[upper] = turned.red[parent],
                                       !.red[parent] = FALSE, !.red[far] = FALSE],
                        parent, s)
  IN  [done EXCEPT !.red[done.root] = FALSE]

__rb_erase_color(t, n, parent) ==
  LET s       == SideOf(t, parent, n)
      first   == t.child[parent][Other(s)]
      turned  == IF IsRed(t, first)
                   THEN Rotate([t EXCEPT !.red[first] = FALSE, !.red[parent] = TRUE], parent, s)
                   ELSE t
      sibling == turned.child[parent][Other(s)]
  IN  IF n = t.root \/ IsRed(t, n) THEN IF n = NoNode THEN t ELSE [t EXCEPT !.red[n] = FALSE]
      ELSE IF \E c \in Sides : IsRed(turned, turned.child[sibling][c])
        THEN Mended(turned, parent, s)
      ELSE __rb_erase_color([turned EXCEPT !.red[sibling] = TRUE], parent, turned.parent[parent])

RECURSIVE Outermost(_, _, _)
Outermost(t, n, s) == IF t.child[n][s] = NoNode THEN n ELSE Outermost(t, t.child[n][s], s)

(* A node with one child at most is cut out of its line.                   *)
CutOff(t, n) ==
  LET child == IF t.child[n]["rb_left"] = NoNode THEN t.child[n]["rb_right"]
               ELSE t.child[n]["rb_left"]
      cut   == rb_set_parent(Relink(t, t.parent[n], n, child), child, t.parent[n])
  IN  IF t.red[n] THEN cut ELSE __rb_erase_color(cut, child, t.parent[n])

(* Fault: the node that takes the place of another keeps its own colour. *)
Inherit_colour(t, n, heir) ==
  [t EXCEPT !.parent[heir] = t.parent[n], !.child[heir] = t.child[n]]

(* heir gets the parent, the colour and the children of n.                 *)
Inherit(t, n, heir) ==
  [t EXCEPT !.parent[heir] = t.parent[n], !.red[heir] = t.red[n], !.child[heir] = t.child[n]]

Adopt(t, n) ==
  LET children == t.child[n]
  IN  rb_set_parent(rb_set_parent(t, children["rb_left"], n), children["rb_right"], n)

(* The next node in order is cut out, and takes the place of n.            *)
Exchange(t, n) ==
  LET heir   == Outermost(t, t.child[n]["rb_right"], "rb_left")
      child  == t.child[heir]["rb_right"]
      parent == IF t.parent[heir] = n THEN heir ELSE t.parent[heir]
      cut    == rb_set_parent(Relink(t, t.parent[heir], heir, child), child, t.parent[heir])
      placed == Inherit(Relink(cut, t.parent[n], n, heir), n, heir)
      done   == Adopt(placed, heir)
  IN  IF t.red[heir] THEN done ELSE __rb_erase_color(done, child, parent)

(* The links of a node that is out of the tree are of no use.              *)
Uncoloured(t, n) ==
  [t EXCEPT !.in = @ \ {n}, !.child[n] = NoLinks, !.parent[n] = NoNode, !.red[n] = TRUE]

rb_erase(t, n) ==
  Uncoloured(IF \E s \in Sides : t.child[n][s] = NoNode THEN CutOff(t, n) ELSE Exchange(t, n), n)

rb_replace_node(t, victim, new) ==
  LET done == Relink(Adopt(Inherit(t, victim, new), new), t.parent[victim], victim, new)
  IN  Uncoloured([done EXCEPT !.in = @ \cup {new}], victim)

-----------------------------------------------------------------------------

rb_link_node(t, n, parent, s) ==
  LET linked == [t EXCEPT !.in = @ \cup {n}, !.parent[n] = parent, !.red[n] = TRUE,
                          !.child[n] = NoLinks]
  IN  IF parent = NoNode THEN [linked EXCEPT !.root = n] ELSE [linked EXCEPT !.child[parent][s] = n]

RECURSIVE Joined(_, _, _)
Joined(t, n, at) ==
  LET s == IF n < at THEN "rb_left" ELSE "rb_right"
  IN  IF at = NoNode \/ t.child[at][s] = NoNode THEN rb_link_node(t, n, at, s)
      ELSE Joined(t, n, t.child[at][s])

rb_first(t) == IF t.root = NoNode THEN NoNode ELSE Outermost(t, t.root, "rb_left")

rb_last(t) == IF t.root = NoNode THEN NoNode ELSE Outermost(t, t.root, "rb_right")

RECURSIVE Climbed(_, _, _)
Climbed(t, n, s) ==
  LET parent == t.parent[n]
  IN  IF parent # NoNode /\ t.child[parent][s] = n THEN Climbed(t, parent, s) ELSE parent

(* The neighbour of n in order on side s.                                  *)
Neighbour(t, n, s) ==
  IF t.child[n][s] # NoNode THEN Outermost(t, t.child[n][s], Other(s)) ELSE Climbed(t, n, s)

rb_next(t, n) == Neighbour(t, n, "rb_right")
rb_prev(t, n) == Neighbour(t, n, "rb_left")

-----------------------------------------------------------------------------

TreeInit == tree = RB_ROOT

TreeInsert(n) == n \notin tree.in /\ tree' = rb_insert_color(Joined(tree, n, tree.root), n)

Erase(n) == n \in tree.in /\ tree' = rb_erase(tree, n)

(* new must have a place in the order that victim has.                     *)
Replace(victim, new) ==
  /\ victim \in tree.in /\ new \notin tree.in
  /\ \A n \in tree.in \ {victim} : n < victim <=> n < new
  /\ tree' = rb_replace_node(tree, victim, new)

TreeNext ==
  \E n \in RbNodes : TreeInsert(n) \/ Erase(n) \/ \E new \in RbNodes : Replace(n, new)

TreeSpec == TreeInit /\ [][TreeNext]_tree

-----------------------------------------------------------------------------

RECURSIVE Subtree(_)
Subtree(n) == IF n = NoNode THEN {} ELSE {n} \cup UNION {Subtree(tree.child[n][s]) : s \in Sides}

RECURSIVE BlackHeights(_)
BlackHeights(n) ==
  IF n = NoNode THEN {0}
  ELSE {h + (IF tree.red[n] THEN 0 ELSE 1) :
          h \in UNION {BlackHeights(tree.child[n][s]) : s \in Sides}}

(* No red node has a red child and all paths have as many black nodes, so  *)
(* that a search is short, after every insertion, removal and replacement; *)
(* links down and up agree, and both walks meet all nodes in their order.  *)
TreeIsRedBlack ==
  /\ Subtree(tree.root) = tree.in
  /\ ~IsRed(tree, tree.root) /\ Cardinality(BlackHeights(tree.root)) = 1
  /\ tree.in # {} => /\ rb_first(tree) = Min(tree.in) /\ rb_last(tree) = Max(tree.in)
                     /\ tree.parent[tree.root] = NoNode
  /\ \A n \in tree.in :
       /\ \A s \in Sides : LET c == tree.child[n][s]
                           IN  c # NoNode => /\ tree.parent[c] = n
                                           /\ ~(tree.red[n] /\ tree.red[c])
       /\ LET after == {m \in tree.in : m > n}
          IN  rb_next(tree, n) = IF after = {} THEN NoNode ELSE Min(after)
       /\ rb_prev(tree, n) = Max({m \in tree.in : m < n} \cup {NoNode})
=============================================================================

----------------------------- MODULE RedBlackTree -----------------------------
(****************************************************************************)
(* The red-black tree of rbtree/rbtree.c, with the insertion, search and     *)
(* deletion of rbtree/myrbtree.c.  A node is named by its number.  The code  *)
(* is written out for the left and for the right; here the side is a         *)
(* parameter.  Every turn of the two loops that rebalance is a step.         *)
(****************************************************************************)
EXTENDS Integers

CONSTANT Num   \* the numbers that can be stored

ASSUME NumAssumption == Num \subseteq Nat \ {0}

Nil == 0
Opp(s) == IF s = "left" THEN "right" ELSE "left"

VARIABLES
    tree,     \* the root, and for each node rb_parent, its children and its colour
    doing,    \* "nothing", "insert_color" or "erase_color"
    node, parent,   \* the variables of these functions
    held      \* history: the numbers inserted and not deleted

rbVars == <<tree, doing, node, parent, held>>

NoLinks == [n \in Num |-> Nil]

RBInit ==
    /\ tree = [root |-> Nil, up |-> NoLinks, left |-> NoLinks, right |-> NoLinks,
               red |-> [n \in Num |-> FALSE]]
    /\ doing = "nothing" /\ node = Nil /\ parent = Nil
    /\ held = {}

\* rb_is_red() of a child that may be missing.
IsRed(t, n) == n # Nil /\ t.red[n]
SetParent(t, n, p) == IF n = Nil THEN t ELSE [t EXCEPT !.up[n] = p]

\* new takes the place of old below p, or at the root.
Relink(t, p, old, new) ==
    IF p = Nil THEN [t EXCEPT !.root = new]
    ELSE IF t.left[p] = old THEN [t EXCEPT !.left[p] = new]
    ELSE [t EXCEPT !.right[p] = new]

\* Mutant: the child that changes sides keeps its parent.
rb_rotate_keeps_parent(t, s, n) ==
    LET r == t[Opp(s)][n]
        p == t.up[n]
    IN  Relink([t EXCEPT ![Opp(s)][n] = t[s][r], ![s][r] = n, !.up[r] = p, !.up[n] = r], p, n, r)

\* __rb_rotate_left() and __rb_rotate_right().
rb_rotate(t, s, n) ==
    LET r == t[Opp(s)][n]
        p == t.up[n]
        u == SetParent([t EXCEPT ![Opp(s)][n] = t[s][r], ![s][r] = n], t[s][r], n)
    IN  Relink([u EXCEPT !.up[r] = p, !.up[n] = r], p, n, r)

\* The last node on side s below n.
Outermost(t, s, n) ==
    LET f[m \in Num] == IF t[s][m] = Nil THEN m ELSE f[t[s][m]] IN f[n]

rb_first(t) == IF t.root = Nil THEN Nil ELSE Outermost(t, "left", t.root)
rb_last(t)  == IF t.root = Nil THEN Nil ELSE Outermost(t, "right", t.root)

\* rb_next() for s = "right", rb_prev() for s = "left".
rb_step(t, s, n) ==
    LET climb[m \in Num] == IF t.up[m] # Nil /\ m = t[s][t.up[m]] THEN climb[t.up[m]] ELSE t.up[m]
    IN  IF t.up[n] = n THEN Nil
        ELSE IF t[s][n] # Nil THEN Outermost(t, Opp(s), t[s][n])
        ELSE climb[n]

\* The way down: where num is, or the node below which it belongs.
my_search(t, num) ==
    LET f[m \in Num] == IF num = m THEN m
                        ELSE LET c == t[IF num < m THEN "left" ELSE "right"][m]
                             IN  IF c = Nil THEN m ELSE f[c]
    IN  IF t.root = Nil THEN Nil ELSE f[t.root]
-------------------------------------------------------------------------------
(* my_insert() and rb_insert_color().                                        *)

\* rb_link_node() makes the new node red.
my_insert(num) ==
    /\ doing = "nothing"
    /\ LET p == my_search(tree, num)
           t == [tree EXCEPT !.up[num] = p, !.red[num] = TRUE, !.left[num] = Nil, !.right[num] = Nil]
       IN  /\ p # num
           /\ tree' = IF p = Nil THEN [t EXCEPT !.root = num]
                      ELSE [t EXCEPT ![IF num < p THEN "left" ELSE "right"][p] = num]
    /\ doing' = "insert_color" /\ node' = num /\ parent' = Nil
    /\ held' = held \cup {num}

Recolor(t, p, g, u) == [t EXCEPT !.red[u] = FALSE, !.red[p] = FALSE, !.red[g] = TRUE]

rb_insert_color ==
    /\ doing = "insert_color"
    /\ LET p == tree.up[node] IN
       /\ IsRed(tree, p)
       /\ LET g == tree.up[p]
              s == IF p = tree.left[g] THEN "left" ELSE "right"
              u == tree[Opp(s)][g]
          IN  IF IsRed(tree, u)
              THEN tree' = Recolor(tree, p, g, u) /\ node' = g
              ELSE LET inner == tree[Opp(s)][p] = node
                       t == IF inner THEN rb_rotate(tree, s, p) ELSE tree
                       q == IF inner THEN node ELSE p
                   IN  /\ tree' = rb_rotate([t EXCEPT !.red[q] = FALSE, !.red[g] = TRUE], Opp(s), g)
                       /\ node' = IF inner THEN p ELSE node
    /\ UNCHANGED <<doing, parent, held>>

InsertColored ==
    /\ doing = "insert_color" /\ ~IsRed(tree, tree.up[node])
    /\ tree' = [tree EXCEPT !.red[tree.root] = FALSE]
    /\ doing' = "nothing" /\ node' = Nil
    /\ UNCHANGED <<parent, held>>
-------------------------------------------------------------------------------
(* my_delete(), rb_erase() and __rb_erase_color().                           *)

\* A node with one child at most: the child takes its place.
EraseOuter(t, n) ==
    LET c == IF t.left[n] = Nil THEN t.right[n] ELSE t.left[n]
    IN  [t |-> Relink(SetParent(t, c, t.up[n]), t.up[n], n, c),
         child |-> c, parent |-> t.up[n], red |-> t.red[n]]

\* A node with two: the next node leaves its place and takes that of the old one,
\* with its colour.
EraseInner(t, old) ==
    LET n == Outermost(t, "left", t.right[old])
        c == t.right[n]
        p == t.up[n]
        t1 == Relink(t, t.up[old], old, n)
        t2 == IF p = old THEN t1
              ELSE LET m == SetParent(t1, c, p)
                   IN  [m EXCEPT !.left[p] = c, !.right[n] = t1.right[old], !.up[t1.right[old]] = n]
        t3 == [t2 EXCEPT !.up[n] = t2.up[old], !.red[n] = t2.red[old],
                         !.left[n] = t2.left[old], !.up[t2.left[old]] = n]
    IN  [t |-> t3, child |-> c, parent |-> IF p = old THEN n ELSE p, red |-> t.red[n]]

\* The memory of an erased node is not looked at again.
Cleared(t, n) == [t EXCEPT !.up[n] = Nil, !.left[n] = Nil, !.right[n] = Nil, !.red[n] = FALSE]

my_delete(num) ==
    /\ doing = "nothing" /\ my_search(tree, num) = num
    /\ LET e == IF tree.left[num] # Nil /\ tree.right[num] # Nil
                THEN EraseInner(tree, num) ELSE EraseOuter(tree, num)
       IN  /\ tree' = Cleared(e.t, num)
           /\ IF e.red
              THEN UNCHANGED <<doing, node, parent>>
              ELSE doing' = "erase_color" /\ node' = e.child /\ parent' = e.parent
    /\ held' = held \ {num}

\* The sibling is red: it is rotated above the parent.
RedSibling(t, s, p) ==
    LET o == t[Opp(s)][p]
    IN  IF IsRed(t, o) THEN rb_rotate([t EXCEPT !.red[o] = FALSE, !.red[p] = TRUE], s, p) ELSE t

\* Only the near nephew is red: it is rotated above the sibling.
NearNephew(t, s, p) ==
    LET o == t[Opp(s)][p]
    IN  IF IsRed(t, t[Opp(s)][o]) THEN t
        ELSE rb_rotate([t EXCEPT !.red[t[s][o]] = FALSE, !.red[o] = TRUE], Opp(s), o)

\* Mutant: the sibling is made black whatever the colour of the parent was.
FarNephew_black(t, s, p) ==
    LET o == t[Opp(s)][p]
    IN  rb_rotate([t EXCEPT !.red[o] = FALSE, !.red[p] = FALSE, !.red[t[Opp(s)][o]] = FALSE], s, p)
\* The far nephew is red: the parent is rotated down, and all is done.
FarNephew(t, s, p) ==
    LET o == t[Opp(s)][p]
    IN  rb_rotate([t EXCEPT !.red[o] = t.red[p], !.red[p] = FALSE, !.red[t[Opp(s)][o]] = FALSE], s, p)

EraseColorGoesOn == ~IsRed(tree, node) /\ node # tree.root

rb_erase_color ==
    /\ doing = "erase_color" /\ EraseColorGoesOn
    /\ LET s == IF tree.left[parent] = node THEN "left" ELSE "right"
           t == RedSibling(tree, s, parent)
           o == t[Opp(s)][parent]
       IN  IF ~IsRed(t, t.left[o]) /\ ~IsRed(t, t.right[o])
           THEN /\ tree' = [t EXCEPT !.red[o] = TRUE]
                /\ node' = parent /\ parent' = t.up[parent]
           ELSE /\ tree' = FarNephew(NearNephew(t, s, parent), s, parent)
                /\ node' = tree'.root /\ UNCHANGED parent
    /\ UNCHANGED <<doing, held>>

EraseColored ==
    /\ doing = "erase_color" /\ ~EraseColorGoesOn
    /\ tree' = IF node = Nil THEN tree ELSE [tree EXCEPT !.red[node] = FALSE]
    /\ doing' = "nothing" /\ node' = Nil /\ parent' = Nil
    /\ UNCHANGED held

RBNext == \/ \E num \in Num : my_insert(num) \/ my_delete(num)
          \/ rb_insert_color \/ InsertColored \/ rb_erase_color \/ EraseColored
-------------------------------------------------------------------------------
(* Properties.                                                               *)

\* Even while the tree is being rebalanced, a walk with rb_next() from rb_first(),
\* and one with rb_prev() from rb_last(), meets the numbers held in their order,
\* and each of them is found from the root.
InOrder ==
    /\ \A s \in {"left", "right"} :
          LET first == IF s = "right" THEN rb_first(tree) ELSE rb_last(tree)
              Beyond(n) == {m \in held : IF s = "right" THEN m > n ELSE m < n}
              Nearest(S) == IF S = {} THEN Nil
                            ELSE CHOOSE m \in S : \A k \in S : IF s = "right" THEN m <= k ELSE m >= k
          IN  /\ first = Nearest(held)
              /\ \A n \in held : rb_step(tree, s, n) = Nearest(Beyond(n))
    /\ \A n \in Num : my_search(tree, n) = n <=> n \in held

\* Between operations the root is black, no red node has a red child, and all ways
\* down from a node pass the same number of black nodes.
Balanced ==
    doing = "nothing" =>
        LET height[n \in held \cup {Nil}] ==
                IF n = Nil THEN 1
                ELSE LET l == height[tree.left[n]] r == height[tree.right[n]]
                     IN  IF l # r \/ l = 0 THEN 0 ELSE IF tree.red[n] THEN l ELSE l + 1
        IN  /\ ~IsRed(tree, tree.root)
            /\ \A n \in held : tree.red[n] => ~IsRed(tree, tree.left[n]) /\ ~IsRed(tree, tree.right[n])
            /\ height[tree.root] # 0

\* The tree is a search tree at every step and a red-black tree between operations,
\* through every sequence of insertions and deletions.
RedBlack == InOrder /\ Balanced
===============================================================================

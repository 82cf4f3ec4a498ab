------------------------------- MODULE RBTree -------------------------------
(***************************************************************************)
(* The intrusive red-black tree of rbtree.c, with RBTREE_CACHED_MIN.       *)
(*                                                                         *)
(* The state is the memory: the root, the cached minimum and the fields of *)
(* every node.  An action is one call of the interface up to its fixup     *)
(* loop, or one turn of that loop.  The source writes each case twice,     *)
(* "same as above but inverted"; here a side d stands for left or right,   *)
(* and Other(d) for the other one.  A turn that follows a null pointer     *)
(* sets `crashed' and leaves the tree as it was.  The fields of a node     *)
(* outside the tree, which rbt_insert overwrites before it reads them, are *)
(* reset when the node is removed.                                         *)
(***************************************************************************)
EXTENDS Integers, Sequences, FiniteSets

CONSTANTS
    Key,        \* the key of each node that may be inserted
    NULL

Nodes == DOMAIN Key

ASSUME KeyAssumption ==
    Key \in [Nodes -> Int] /\ NULL \notin Nodes /\ IsFiniteSet(Nodes)

VARIABLES
    rbt,        \* struct rbtree and the nodes
    members,    \* the nodes in the tree
    op,         \* the fixup loop under way, with its local variables
    crashed,
    ascending   \* ghost: every node was inserted above those in the tree

vars == <<rbt, members, op, crashed, ascending>>

Sides == {"left", "right"}
Other(d) == IF d = "left" THEN "right" ELSE "left"

\* compare(a, b)
compare(a, b) == Key[a] - Key[b]

Red(m, n) == n # NULL /\ m.color[n] = "RED"

Idle == [at |-> "idle"]

\* rbt_init
Init ==
    /\ rbt = [root |-> NULL, cached_min |-> NULL,
            color |-> [n \in Nodes |-> "RED"],
            parent |-> [n \in Nodes |-> NULL],
            kid |-> [d \in Sides |-> [n \in Nodes |-> NULL]]]
    /\ members = {}
    /\ op = Idle
    /\ crashed = FALSE
    /\ ascending = TRUE

-----------------------------------------------------------------------------
\* The side of its parent that n is on.
Side(m, n) == IF m.kid["left"][m.parent[n]] = n THEN "left" ELSE "right"

\* The pointer to n, in its parent or the root, becomes a pointer to y.
Replace(m, n, y) ==
    IF m.parent[n] = NULL
    THEN [m EXCEPT !.root = y]
    ELSE [m EXCEPT !.kid[Side(m, n)][m.parent[n]] = y]

SetParent(m, n, p) == IF n = NULL THEN m ELSE [m EXCEPT !.parent[n] = p]

\* Mutant: the subtree that changes sides keeps its old parent pointer.
RotateKeepsParent(m, a, d) ==
    LET o == Other(d)
        c == m.kid[o][a]
    IN  [Replace(m, a, c) EXCEPT !.parent[c] = m.parent[a], !.parent[a] = c,
                                 !.kid[o][a] = m.kid[d][c], !.kid[d][c] = a]

\* rbt_rotate_left (d = "left") and rbt_rotate_right (d = "right")
rbt_rotate(m, a, d) ==
    LET o == Other(d)
        c == m.kid[o][a]
        r == [Replace(m, a, c) EXCEPT !.parent[c] = m.parent[a], !.parent[a] = c,
                                      !.kid[o][a] = m.kid[d][c], !.kid[d][c] = a]
    IN  SetParent(r, m.kid[d][c], a)

Paint(m, blacks, reds) ==
    [m EXCEPT !.color = [n \in Nodes |-> IF n \in blacks THEN "BLACK"
                                         ELSE IF n \in reds THEN "RED" ELSE @[n]]]

\* A loop that follows the pointers `next' from n to the last node.
Follow(next, n) ==
    LET End[x \in Nodes] == IF next[x] = NULL THEN x ELSE End[next[x]]
    IN  End[n]

\* The side of x that n belongs to.
Toward(n, x) == IF compare(n, x) < 0 THEN "left" ELSE "right"

\* The loop of rbt_insert: the last node on the way of n, which has n's key or
\* is to be its parent.
Descend(m, n, y) ==
    Follow([x \in Nodes |-> IF compare(n, x) = 0 THEN NULL
                            ELSE m.kid[Toward(n, x)][x]], y)

\* n becomes a leaf below y.
Attach(m, n, y) ==
    [m EXCEPT !.kid[Toward(n, y)][y] = n, !.parent[n] = y]

\* Mutant: the cached minimum is only set by the first insertion.
NewMinFirstOnly(m, n) == IF m.cached_min = NULL THEN n ELSE m.cached_min

NewMin(m, n) ==
    IF m.cached_min = NULL THEN n
    ELSE IF compare(n, m.cached_min) < 0 THEN n ELSE m.cached_min

\* The result of rbt_insert before its fixup: <<inserted, tree>>.
Inserted(m, n) ==
    LET y == IF m.root = NULL THEN NULL ELSE Descend(m, n, m.root)
        k == IF y = NULL THEN [m EXCEPT !.root = n] ELSE Attach(m, n, y)
    IN  IF y # NULL /\ compare(n, y) = 0 THEN <<FALSE, m>>
        ELSE <<TRUE, [k EXCEPT !.cached_min = NewMin(m, n)]>>

rbt_insert(n) ==
    /\ ~crashed
    /\ op = Idle
    /\ n \notin members
    /\ ascending' = (ascending /\ \A k \in members : Key[k] < Key[n])
    /\ \/ /\ Inserted(rbt, n)[1]
          /\ rbt' = Inserted(rbt, n)[2]
          /\ members' = members \cup {n}
          /\ op' = [at |-> "insert", node |-> n]
       \/ ~Inserted(rbt, n)[1] /\ UNCHANGED <<rbt, members, op>>
    /\ UNCHANGED crashed

\* A turn of the loop: the tree and the node to go on with.  d is the side of
\* the grandparent that the parent is on.
InsertTurn(m, node) ==
    LET parent == m.parent[node]
        gparent == m.parent[parent]
        d == Side(m, parent)
        o == Other(d)
        uncle == m.kid[o][gparent]
    IN  IF Red(m, uncle)
        THEN <<Paint(m, {parent, uncle}, {gparent}), gparent>>
        ELSE IF m.kid[o][parent] = node
        THEN <<Paint(rbt_rotate(rbt_rotate(m, parent, d), gparent, o),
                     {node}, {gparent}), node>>
        ELSE <<Paint(rbt_rotate(m, gparent, o), {parent}, {gparent}), parent>>

rbt_insert_fixup ==
    /\ op.at = "insert"
    /\ \/ /\ Red(rbt, rbt.parent[op.node])
          /\ rbt' = InsertTurn(rbt, op.node)[1]
          /\ op' = [op EXCEPT !.node = InsertTurn(rbt, op.node)[2]]
       \/ /\ ~Red(rbt, rbt.parent[op.node])
          /\ rbt' = Paint(rbt, {rbt.root}, {})
          /\ op' = Idle
    /\ UNCHANGED <<members, crashed, ascending>>

-----------------------------------------------------------------------------
(***************************************************************************)
(* Removal.                                                                *)
(***************************************************************************)

\* Mutant: case 3 is skipped.
FixupBlackSiblingWithoutCase3(m, parent, sibling, d) ==
    LET o == Other(d)
    IN  rbt_rotate([Paint(m, {parent} \cup ({m.kid[o][sibling]} \ {NULL}), {})
                      EXCEPT !.color[sibling] = m.color[parent]], parent, d)

\* Cases 3 and 4 of rbt_remove_fixup.
FixupBlackSibling(m, parent, sibling, d) ==
    LET o == Other(d)
        case3 == ~Red(m, m.kid[o][sibling])
        near == m.kid[d][sibling]
        k == IF case3 THEN rbt_rotate(m, sibling, o) ELSE m
        sib == IF case3 THEN near ELSE sibling
        far == IF case3 THEN sibling ELSE m.kid[o][sibling]
    IN  rbt_rotate([Paint(k, {parent, far}, {}) EXCEPT !.color[sib] = m.color[parent]],
                   parent, d)

\* The node furthest to side d below n.
Outermost(m, n, d) == Follow(m.kid[d], n)

\* Mutant: the walk up stops one node early.
ClimbTooShort(m, n, d) == m.parent[n]

\* The first ancestor that n is on side d of, or NULL.
Climb(m, n, d) ==
    m.parent[Follow([x \in Nodes |->
                       IF m.parent[x] # NULL /\ m.kid[d][m.parent[x]] # x
                       THEN m.parent[x] ELSE NULL], n)]

\* rbnode_next (d = "right") and rbnode_prev (d = "left")
Adjacent(m, n, d) ==
    IF m.kid[d][n] # NULL THEN Outermost(m, m.kid[d][n], Other(d))
    ELSE Climb(m, n, Other(d))

rbnode_next(m, n) == Adjacent(m, n, "right")
rbnode_prev(m, n) == Adjacent(m, n, "left")

\* The successor y of n, further down, leaves its place and gets n's right child.
CutOut(m, n, y) ==
    LET p == m.parent[y]
        x == m.kid["right"][y]
        r == m.kid["right"][n]
    IN  [SetParent([m EXCEPT !.kid["left"][p] = x], x, p)
           EXCEPT !.kid["right"][y] = r, !.parent[r] = y]

\* y takes the place of n above n's left child and below n's parent.
StandIn(m, n, y) ==
    LET l == m.kid["left"][n]
        b == [m EXCEPT !.kid["left"][y] = l, !.parent[l] = y, !.color[y] = m.color[n]]
    IN  [Replace(b, n, y) EXCEPT !.parent[y] = m.parent[n]]

\* The node n has two children: its successor y takes its place.  A record of
\* the tree, where to rebalance, and the color that went missing.
TakeOutInner(m, n) ==
    LET y == Outermost(m, m.kid["right"][n], "left")
        p == m.parent[y]
    IN  [tree |-> StandIn(IF p = n THEN m ELSE CutOut(m, n, y), n, y),
         node |-> m.kid["right"][y], parent |-> IF p = n THEN y ELSE p,
         color |-> m.color[y]]

\* The node n has at most one child, which takes its place.
TakeOutOuter(m, n) ==
    LET y == IF m.kid["left"][n] # NULL THEN m.kid["left"][n] ELSE m.kid["right"][n]
    IN  [tree |-> SetParent(Replace(m, n, y), y, m.parent[n]),
         node |-> y, parent |-> m.parent[n], color |-> m.color[n]]

TakeOut(m, n) ==
    IF \A d \in Sides : m.kid[d][n] # NULL THEN TakeOutInner(m, n)
                                           ELSE TakeOutOuter(m, n)

\* The fields of n after its removal, see above.
Forget(m, n) ==
    [m EXCEPT !.color[n] = "RED", !.parent[n] = NULL,
              !.kid = [d \in Sides |-> [@[d] EXCEPT ![n] = NULL]]]

\* n is out of the tree; the loop follows if a black node went missing and no
\* red one can make up for it.
rbt_remove(n) ==
    /\ ~crashed
    /\ op = Idle
    /\ n \in members
    /\ members' = members \ {n}
    /\ LET r == TakeOut([rbt EXCEPT !.cached_min =
                              IF @ = n THEN rbnode_next(rbt, n) ELSE @], n)
           m == Forget(r.tree, n)
       IN  \/ /\ r.color = "RED" \/ (~Red(m, r.node) /\ r.parent = NULL)
              /\ rbt' = m
              /\ op' = Idle
           \/ /\ r.color = "BLACK" /\ Red(m, r.node)
              /\ rbt' = Paint(m, {r.node}, {})
              /\ op' = Idle
           \/ /\ r.color = "BLACK" /\ ~Red(m, r.node) /\ r.parent # NULL
              /\ rbt' = m
              /\ op' = [at |-> "remove", node |-> r.node, parent |-> r.parent]
    /\ UNCHANGED <<crashed, ascending>>

\* A turn of the loop of rbt_remove_fixup.
rbt_remove_fixup ==
    /\ ~crashed
    /\ op.at = "remove"
    /\ LET parent == op.parent
           d == IF rbt.kid["left"][parent] = op.node THEN "left" ELSE "right"
           s == rbt.kid[Other(d)][parent]
           k == IF Red(rbt, s) THEN rbt_rotate(Paint(rbt, {s}, {parent}), parent, d) ELSE rbt
           sibling == k.kid[Other(d)][parent]
           nephews == \E e \in Sides : Red(k, k.kid[e][sibling])
       IN  \/ /\ s = NULL \/ sibling = NULL
              /\ crashed' = TRUE
              /\ UNCHANGED <<rbt, op>>
           \/ /\ s # NULL /\ sibling # NULL /\ nephews
              /\ rbt' = FixupBlackSibling(k, parent, sibling, d)
              /\ op' = Idle
              /\ UNCHANGED crashed
           \/ /\ s # NULL /\ sibling # NULL /\ ~nephews
              /\ rbt' = Paint(k, {parent}, {sibling})
              /\ op' = IF Red(k, parent) \/ k.parent[parent] = NULL THEN Idle
                       ELSE [op EXCEPT !.node = parent, !.parent = k.parent[parent]]
              /\ UNCHANGED crashed
    /\ UNCHANGED <<members, ascending>>

Next ==
    \/ \E n \in Nodes : rbt_insert(n) \/ rbt_remove(n)
    \/ rbt_insert_fixup
    \/ rbt_remove_fixup

Spec == Init /\ [][Next]_vars

rbt_empty(m) == m.root = NULL
rbt_min(m) == m.cached_min
rbt_max(m) == IF m.root = NULL THEN NULL ELSE Outermost(m, m.root, "right")

-----------------------------------------------------------------------------
\* The nodes of every subtree.
Subtree(m) ==
    LET Below[x \in Nodes \cup {NULL}] ==
          IF x = NULL THEN {}
          ELSE {x} \cup Below[m.kid["left"][x]] \cup Below[m.kid["right"][x]]
    IN  Below

\* After any calls of rbt_insert and rbt_remove, in any order, and after every
\* turn of a fixup, the tree holds exactly the nodes inserted and not removed,
\* every node stands between those of its left and of its right subtree, and
\* every child points back to its parent.
SearchTree ==
    LET below == Subtree(rbt)
    IN  /\ below[rbt.root] = members
        /\ \A n \in members :
             /\ \A x \in below[rbt.kid["left"][n]] : Key[x] < Key[n]
             /\ \A x \in below[rbt.kid["right"][n]] : Key[x] > Key[n]
        /\ \A n \in members, d \in Sides :
              rbt.kid[d][n] # NULL => rbt.parent[rbt.kid[d][n]] = n
        /\ rbt.root # NULL => rbt.parent[rbt.root] = NULL

\* The cached minimum that rbt_min returns is the smallest node, after every
\* insertion and removal, and rbt_max finds the greatest.
MinMax ==
    IF members = {} THEN rbt_empty(rbt) /\ rbt_min(rbt) = NULL /\ rbt_max(rbt) = NULL
    ELSE /\ rbt_min(rbt) \in members /\ rbt_max(rbt) \in members
         /\ \A n \in members : /\ Key[rbt_min(rbt)] <= Key[n]
                               /\ Key[n] <= Key[rbt_max(rbt)]

\* The members of side d of n, and the nearest of them.
Beyond(n, d) ==
    {x \in members : IF d = "right" THEN Key[x] > Key[n] ELSE Key[x] < Key[n]}
Nearest(n, d, x) ==
    IF Beyond(n, d) = {} THEN x = NULL
    ELSE x \in Beyond(n, d) /\ \A y \in Beyond(n, d) : y = x \/ y \in Beyond(x, d)

\* rbnode_next and rbnode_prev step to the neighbours in the order of the keys
\* and end at the ends, so that walks visit every node once in both directions.
Neighbours ==
    \A n \in members : /\ Nearest(n, "right", rbnode_next(rbt, n))
                       /\ Nearest(n, "left", rbnode_prev(rbt, n))

\* The number of black nodes on every way down from a node, or -1 if they differ.
BlackHeight(m) ==
    LET Height[x \in Nodes \cup {NULL}] ==
          IF x = NULL THEN 1
          ELSE LET l == Height[m.kid["left"][x]]
                   r == Height[m.kid["right"][x]]
               IN  IF l < 0 \/ l # r THEN -1
                   ELSE IF m.color[x] = "BLACK" THEN l + 1 ELSE l
    IN  Height

\* What rbtree_check of test/rbtree_test.c tests ("black height varies", "red red
\* pair detected"), and the comment in rbt_insert_fixup, "root is always BLACK":
\* after a call the tree is balanced, so removal never meets a null sibling
\* either.
Balanced ==
    /\ ~crashed
    /\ op = Idle =>
         /\ BlackHeight(rbt)[rbt.root] > 0
         /\ \A n \in members : rbt.color[n] = "RED" => ~Red(rbt, rbt.parent[n])
         /\ ~Red(rbt, rbt.root)

\* With keys inserted in ascending order, as the test inserts them, and removed in
\* any order, the tree stays balanced through all the cases of rbt_remove_fixup.
AscendingBalanced == ascending => Balanced
=============================================================================

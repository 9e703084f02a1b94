------------------------------ MODULE AvlTree -------------------------------
(***************************************************************************)
(* moon_avltree.c: the balanced search tree, pointer by pointer.           *)
(*                                                                         *)
(* A tree is [root, node]: node[n] has the links left, right and parent of *)
(* n and its balance (height of the right subtree minus that of the left). *)
(* The nodes are the keys themselves, so the cmp_func that callers pass is *)
(* the order of integers; the data behind a node is the caller's.          *)
(***************************************************************************)
EXTENDS Integers, Sequences, FiniteSets, SequencesExt, FiniteSetsExt

CONSTANTS
  Keys,        \* the keys, and the nodes that carry them
  NIL          \* no node

ASSUME AvlAssumption == Keys \subseteq Int /\ NIL \notin Int

\* A node that is in no tree, as calloc or avl_del2 leaves it.
Loose == [left |-> NIL, right |-> NIL, parent |-> NIL, balance |-> 0]

EmptyTree == [root |-> NIL, node |-> [n \in Keys |-> Loose]]

Left(t, n) == t.node[n].left
Right(t, n) == t.node[n].right
Parent(t, n) == t.node[n].parent

SetBalance(t, n, b) == [t EXCEPT !.node[n].balance = b]

\* SET_LR: child becomes the left or right child of n.
SET_LR(t, n, side, child) ==
  LET u == IF side = "left" THEN [t EXCEPT !.node[n].left = child]
                            ELSE [t EXCEPT !.node[n].right = child]
  IN IF child = NIL THEN u ELSE [u EXCEPT !.node[child].parent = n]

\* SET_PARENT: n takes the place of other below other's parent.
SET_PARENT(t, n, other) ==
  LET p == Parent(t, other)
      u == [t EXCEPT !.node[n].parent = p]
  IN CASE p = NIL -> [u EXCEPT !.root = n]
       [] p # NIL /\ Left(t, p) = other -> [u EXCEPT !.node[p].left = n]
       [] OTHER -> [u EXCEPT !.node[p].right = n]

-----------------------------------------------------------------------------
(* Searching and walking *)

\* avl_leftest_node and avl_rightest_node
RECURSIVE Leftest(_, _), Rightest(_, _)
Leftest(t, n) == IF n = NIL \/ Left(t, n) = NIL THEN n ELSE Leftest(t, Left(t, n))
Rightest(t, n) == IF n = NIL \/ Right(t, n) = NIL THEN n ELSE Rightest(t, Right(t, n))

\* The loop of avl_search2: prev is the closest key not above k so far.
RECURSIVE SearchFrom(_, _, _, _)
SearchFrom(t, n, k, prev) ==
  CASE n = NIL -> prev
    [] n # NIL /\ n > k -> SearchFrom(t, Left(t, n), k, prev)
    [] n # NIL /\ n < k -> SearchFrom(t, Right(t, n), k, n)
    [] OTHER -> n

avl_search2(t, k) == SearchFrom(t, t.root, k, NIL)

RECURSIVE PreOrder(_, _), MidOrder(_, _)
PreOrder(t, n) ==
  IF n = NIL THEN <<>> ELSE <<n>> \o PreOrder(t, Left(t, n)) \o PreOrder(t, Right(t, n))
MidOrder(t, n) ==
  IF n = NIL THEN <<>> ELSE MidOrder(t, Left(t, n)) \o <<n>> \o MidOrder(t, Right(t, n))

-----------------------------------------------------------------------------
(* Balancing *)

Other(side) == IF side = "left" THEN "right" ELSE "left"

Child(t, n, side) == IF side = "left" THEN Left(t, n) ELSE Right(t, n)

\* avl_balance, single rotation: the heavy child goes up.
RotateOnce(t, p, heavy, sign) ==
  LET axis == Child(t, p, heavy)
      t1 == SET_LR(t, p, heavy, Child(t, axis, Other(heavy)))
      t2 == SET_PARENT(t1, axis, p)
      t3 == SET_LR(t2, axis, Other(heavy), p)
  IN IF t.node[axis].balance = 0
     THEN [tree |-> SetBalance(SetBalance(t3, p, sign), axis, -sign), up |-> NIL]
     ELSE [tree |-> SetBalance(SetBalance(t3, p, 0), axis, 0), up |-> axis]

\* avl_balance, double rotation: the heavy child's inner child goes up.
RotateTwice(t, p, heavy, sign) ==
  LET tmp == Child(t, p, heavy)
      axis == Child(t, tmp, Other(heavy))
      t1 == SET_LR(t, p, heavy, Child(t, axis, Other(heavy)))
      t2 == SET_LR(t1, tmp, Other(heavy), Child(t1, axis, heavy))
      t3 == SET_PARENT(t2, axis, p)
      t4 == SET_LR(SET_LR(t3, axis, Other(heavy), p), axis, heavy, tmp)
      b == t.node[axis].balance
      t5 == SetBalance(SetBalance(t4, p, IF b = sign THEN -sign ELSE 0),
                       tmp, IF b = -sign THEN sign ELSE 0)
  IN [tree |-> SetBalance(t5, axis, 0), up |-> axis]

\* Variant of avl_balance that never rotates twice.
avl_balance_Single(t, p) ==
  IF t.node[p].balance = 2 THEN RotateOnce(t, p, "right", 1) ELSE RotateOnce(t, p, "left", -1)

\* avl_balance of a node whose balance is 2 or -2; up is the new root of the
\* subtree, NIL if its height has not changed.
avl_balance(t, p) ==
  LET heavy == IF t.node[p].balance = 2 THEN "right" ELSE "left"
      sign == IF t.node[p].balance = 2 THEN 1 ELSE -1
  IN IF t.node[Child(t, p, heavy)].balance * sign >= 0
     THEN RotateOnce(t, p, heavy, sign)
     ELSE RotateTwice(t, p, heavy, sign)

-----------------------------------------------------------------------------
(* Adding *)

\* The way down: the node below which k belongs, or the node that has the key.
RECURSIVE Descend(_, _, _)
Descend(t, n, k) ==
  CASE n = k -> n
    [] n > k /\ Left(t, n) # NIL -> Descend(t, Left(t, n), k)
    [] n < k /\ Right(t, n) # NIL -> Descend(t, Right(t, n), k)
    [] OTHER -> n

\* The way up: the subtree at n has grown.
RECURSIVE Grown(_, _)
Grown(t, n) ==
  LET p == Parent(t, n) IN
  IF p = NIL THEN t
  ELSE LET b == t.node[p].balance + (IF Left(t, p) = n THEN -1 ELSE 1)
           u == SetBalance(t, p, b)
       IN CASE b = 0 -> u
            [] b \in {-1, 1} -> Grown(u, p)
            [] b \in {-2, 2} -> avl_balance(u, p).tree

\* avl_add2; a key that is there already leaves the tree as it is.
avl_add2(t, k) ==
  IF t.root = NIL THEN [t EXCEPT !.root = k, !.node[k].parent = NIL]
  ELSE LET p == Descend(t, t.root, k) IN
       IF p = k THEN t
       ELSE Grown(SET_LR(t, p, IF p > k THEN "left" ELSE "right", k), k)

-----------------------------------------------------------------------------
(* Deleting *)

\* replace_avl
replace_avl(t, new, old) ==
  LET t1 == SetBalance(t, new, t.node[old].balance)
      t2 == SET_LR(t1, new, "left", Left(t1, old))
      t3 == SET_LR(t2, new, "right", Right(t2, old))
  IN SET_PARENT(t3, new, old)

\* The height of a subtree whose balance is now b has not changed.
StopsShrinking(b) == b \in {-1, 1}

\* start_back: the subtree at n is about to shrink.
RECURSIVE Shrunk(_, _)
Shrunk(t, n) ==
  LET p == IF n = NIL THEN NIL ELSE Parent(t, n) IN
  IF p = NIL THEN t
  ELSE LET b == t.node[p].balance + (IF Left(t, p) = n THEN 1 ELSE -1)
           u == SetBalance(t, p, b)
       IN CASE StopsShrinking(b) -> u
            [] b \in {-2, 2} -> LET r == avl_balance(u, p) IN Shrunk(r.tree, r.up)
            [] OTHER -> Shrunk(u, p)

\* The node that takes the place of n: its neighbour in the higher subtree.
Neighbour(t, n) ==
  IF t.node[n].balance <= 0 THEN Rightest(t, Left(t, n)) ELSE Leftest(t, Right(t, n))

\* The only child of the neighbour, which takes the neighbour's place.
NeighbourChild(t, n) ==
  LET m == Neighbour(t, n) IN IF t.node[n].balance <= 0 THEN Left(t, m) ELSE Right(t, m)

\* The leaf leaves its parent.
Detach(t, leaf) ==
  LET p == Parent(t, leaf) IN
  IF Left(t, p) = leaf THEN [t EXCEPT !.node[p].left = NIL]
                       ELSE [t EXCEPT !.node[p].right = NIL]

\* avl_del2: the tree is balanced as if the leaf were gone, the leaf is taken
\* off, and the nodes on the way to n take one another's place.
avl_del2(t, n) ==
  LET isLeaf == Left(t, n) = NIL /\ Right(t, n) = NIL
      mark == IF isLeaf THEN <<>>
              ELSE IF NeighbourChild(t, n) = NIL THEN <<n>> ELSE <<n, Neighbour(t, n)>>
      leaf == CASE isLeaf -> n
                [] ~isLeaf /\ Len(mark) = 1 -> Neighbour(t, n)
                [] OTHER -> NeighbourChild(t, n)
      t1 == Shrunk(t, leaf)
      t2 == Detach(t1, leaf)
      t3 == IF Len(mark) = 2 THEN replace_avl(t2, leaf, mark[2]) ELSE t2
      top == IF Len(mark) = 2 THEN mark[2] ELSE leaf
      t4 == IF Len(mark) >= 1 THEN replace_avl(t3, top, n) ELSE t3
  IN IF Parent(t1, leaf) = NIL
     THEN [t1 EXCEPT !.root = NIL, !.node[leaf] = Loose]
     ELSE [t4 EXCEPT !.node[n] = Loose]

\* avl_del: only a key that is there is deleted.
avl_del(t, k) == IF avl_search2(t, k) = k THEN avl_del2(t, k) ELSE t

-----------------------------------------------------------------------------
(* What a tree is to be *)

RECURSIVE Height(_, _)
Height(t, n) ==
  IF n = NIL THEN 0
  ELSE 1 + (IF Height(t, Left(t, n)) > Height(t, Right(t, n))
            THEN Height(t, Left(t, n)) ELSE Height(t, Right(t, n)))

\* The tree holds exactly the keys of S, in order, its links agree, every
\* balance is the difference of the heights and within one, and nodes outside
\* the tree have no links.
IsAvlTreeOf(t, S) ==
  LET walk == MidOrder(t, t.root) IN
  /\ ToSet(walk) = S /\ Len(walk) = Cardinality(S)
  /\ \A i \in 1 .. Len(walk) - 1 : walk[i] < walk[i + 1]
  /\ t.root # NIL => Parent(t, t.root) = NIL
  /\ \A n \in S :
       /\ t.node[n].balance = Height(t, Right(t, n)) - Height(t, Left(t, n))
       /\ t.node[n].balance \in {-1, 0, 1}
       /\ Left(t, n) # NIL => Parent(t, Left(t, n)) = n
       /\ Right(t, n) # NIL => Parent(t, Right(t, n)) = n
  /\ \A n \in Keys \ S : t.node[n] = Loose
=============================================================================

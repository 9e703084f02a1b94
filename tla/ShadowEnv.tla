----------------------------- MODULE ShadowEnv ------------------------------
(***************************************************************************)
(* The environment in which shadow code runs (moon_runtime.c): a version   *)
(* of the entity's memory, which nobody changes, and an AVL tree of the    *)
(* blocks that this environment has written, allocated or deleted.         *)
(*                                                                         *)
(* Memory is a set of integer addresses.  A mem_block is a record: id (0   *)
(* for a block that no version has), vaddr, len (data_len), ptr (the one   *)
(* pointer in its data), is_del and own (its data is its own memory, not   *)
(* the memory of the block it was copied from).  tree is tp->avl, pair[k]  *)
(* the block behind the node with key k, NIL when there is no such node.   *)
(*                                                                         *)
(* One thread uses an environment: with two, the search and the change of  *)
(* the tree are two critical sections, and where the other thread was      *)
(* first (lines 1446-1455) avl_add returns the pair that it has just freed *)
(* (moon_avltree.c:305-308).                                               *)
(* The program passes addresses of blocks it has and has not deleted.      *)
(***************************************************************************)
EXTENDS AvlTree

CONSTANTS
  Lens         \* the lengths of blocks that the program allocates

VARIABLES
  tree, pair

envVars == <<tree, pair>>

Overlay == {k \in Keys : pair[k] # NIL}

NULL == -1     \* the NULL pointer, below every address

\* get_virtual_address_info: p is an address inside block b.
Inside(b, p) == b.vaddr <= p /\ p < b.vaddr + b.len

-----------------------------------------------------------------------------
(* search_addr_id: binary search in an array ordered by its keys *)

\* The loop, with C's indices left and right_next; last is the best so far.
RECURSIVE SearchLoop(_, _, _, _, _)
SearchLoop(in, key, left, right_next, last) ==
  LET mid == (left \div 2) + (right_next \div 2) IN
  CASE right_next <= left -> last
    [] right_next > left /\ in[mid + 1] = key -> mid + 1
    [] right_next > left /\ in[mid + 1] < key ->
         SearchLoop(in, key, mid + 1, right_next, mid + 1)
    [] OTHER -> SearchLoop(in, key, left, mid, last)

\* The index of the closest element not above key; 0 stands for NULL.
search_addr_id(in, key) ==
  CASE Len(in) = 0 \/ in[1] > key -> 0
    [] Len(in) > 0 /\ in[1] = key -> 1
    [] OTHER -> SearchLoop(in, key, 1, Len(in), 1)

\* The addresses of a version's order_addr array.
Addrs(order_addr) == [i \in 1 .. Len(order_addr) |-> order_addr[i].vaddr]

-----------------------------------------------------------------------------
(* What the program calls *)

\* The tree and its blocks after avl_add of block b.
Added(b) == [tree |-> avl_add2(tree, b.vaddr), pair |-> [pair EXCEPT ![b.vaddr] = b]]

Unchanged == [tree |-> tree, pair |-> pair]

\* Variant of CopyBlock that leaves the data pointer as memcpy has set it.
CopyBlock_Shared(b) == [b EXCEPT !.own = FALSE]

\* The private copy that the first write to a block makes.
CopyBlock(b) == [b EXCEPT !.own = TRUE]

\* shadow_runtime: the block in whose data the program finds address p, NIL
\* if p is returned as it is, and the tree after the call.
shadow_runtime(order_addr, p, opt) ==
  LET k == avl_search2(tree, p)
      i == search_addr_id(Addrs(order_addr), p)
  IN CASE k # NIL /\ Inside(pair[k], p) -> [block |-> pair[k], env |-> Unchanged]
       [] (k = NIL \/ ~Inside(pair[k], p)) /\ (i = 0 \/ ~Inside(order_addr[i], p)) ->
            [block |-> NIL, env |-> Unchanged]
       [] OTHER -> IF opt = "w"
                   THEN LET c == CopyBlock(order_addr[i]) IN [block |-> c, env |-> Added(c)]
                   ELSE [block |-> order_addr[i], env |-> Unchanged]

\* shadow_new: calloc has given address a.
shadow_new(a, len) ==
  Added([id |-> 0, vaddr |-> a, len |-> len, ptr |-> NULL, is_del |-> FALSE, own |-> TRUE])

\* shadow_del: a new block goes at once, a written one is marked, of an
\* untouched one the head is copied and marked.
shadow_del(order_addr, a) ==
  LET k == avl_search2(tree, a)
      i == search_addr_id(Addrs(order_addr), a)
  IN CASE k = a /\ pair[a].id = 0 ->
            [tree |-> avl_del(tree, a), pair |-> [pair EXCEPT ![a] = NIL]]
       [] k = a /\ pair[a].id # 0 ->
            [tree |-> tree, pair |-> [pair EXCEPT ![a].is_del = TRUE]]
       [] k # a /\ i # 0 /\ order_addr[i].vaddr = a ->
            Added([order_addr[i] EXCEPT !.is_del = TRUE, !.own = FALSE])
       [] OTHER -> Unchanged

-----------------------------------------------------------------------------
(* The program *)

\* The blocks as the program should see them: its own, and those of the
\* version that it has not touched.
View(order_addr) ==
  {pair[k] : k \in Overlay} \cup {b \in ToSet(order_addr) : b.vaddr \notin Overlay}

Live(order_addr) == {b \in View(order_addr) : ~b.is_del}

\* The pointers that a program can have: NULL, or into a live block.
Pointers(order_addr) == {NULL} \cup {b.vaddr + b.len - 1 : b \in Live(order_addr)}

\* Addresses at which calloc may put a block, with no block of the view there.
Unused(order_addr) == Keys \ {b.vaddr : b \in View(order_addr)}

Become(env) == tree' = env.tree /\ pair' = env.pair

\* The program writes pointer q through address p.
Write(order_addr, p, q) ==
  LET r == shadow_runtime(order_addr, p, "w") IN
  /\ tree' = r.env.tree
  /\ pair' = [r.env.pair EXCEPT ![r.block.vaddr].ptr = q]

New(a, len) == Become(shadow_new(a, len))

Del(order_addr, a) == Become(shadow_del(order_addr, a))

EmptyEnv == tree = EmptyTree /\ pair = [k \in Keys |-> NIL]

-----------------------------------------------------------------------------
(* What is to hold *)

\* The overlay is a proper AVL tree of exactly the blocks that were touched,
\* whatever order of additions and deletions led there (moon_avltree.c: every
\* rotation and every replacement of a deleted node).
OverlayIsTree == IsAvlTreeOf(tree, Overlay)

\* Every address resolves to the block the program should see there, the
\* overlay before the version, and to itself when there is none; and a write
\* to a live block always lands in memory of this environment's own.
Resolved(order_addr) ==
  \A p \in 0 .. Max(Keys) + 1 :
    LET here == {b \in View(order_addr) : Inside(b, p)}
        r == shadow_runtime(order_addr, p, "r")
        w == shadow_runtime(order_addr, p, "w")
    IN /\ IF here = {} THEN r.block = NIL /\ w.block = NIL ELSE r.block \in here
       /\ \A b \in here \cap Live(order_addr) : w.block.own /\ w.block.vaddr = b.vaddr
=============================================================================

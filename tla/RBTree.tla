------------------------------- MODULE RBTree -------------------------------
(***************************************************************************)
(* The size-keyed free-block index of allocator_red_black_tree on its own: *)
(* a caller inserts blocks with insert_to_tree and removes them with       *)
(* delete_from_tree, exactly as allocate and deallocate do, and the tree   *)
(* the code builds is compared with the set of blocks the caller believes  *)
(* it holds and with the red-black invariants (spec §3, invariant 4).      *)
(* The caller only inserts blocks that are not in the index and only       *)
(* removes blocks that are, passing the block's own size, as allocate and  *)
(* deallocate do when the arena is consistent.                             *)
(***************************************************************************)
EXTENDS Integers, Sequences, FiniteSets, RBTreeOps

CONSTANTS
  Nodes,         \* block headers that may enter the index
  Keys,          \* block sizes
  DistinctKeys   \* TRUE: no two indexed blocks have the same size

VARIABLES
  h,        \* the heap: [m, root, status], see RBTreeOps
  indexed   \* the blocks the caller has inserted and not yet removed

vars == <<h, indexed>>

\* A header that is in no tree: what insert_to_tree overwrites anyway.
Detached == [size |-> 0, black |-> TRUE, occ |-> TRUE,
             parent |-> NULL, left |-> NULL, right |-> NULL]

Init ==
  /\ h = [m |-> [x \in Nodes \cup {NULL} |-> Detached], root |-> NULL, status |-> "ok"]
  /\ indexed = {}

Alive == h.status = "ok"

SizesIndexed == {h.m[n].size : n \in indexed}

\* Mutant: the free header's size is added before the insert, as the
\* commented-out line 844 of deallocate would do.
InsertBlockWithHeader(n, k) ==
  /\ Alive
  /\ n \notin indexed
  /\ DistinctKeys => k \notin SizesIndexed
  /\ h' = Settle(Insert([h EXCEPT !.m[n].size = k + 1], n, k + 1), Detached)
  /\ indexed' = indexed \cup {n}

\* allocate's insert_to_tree(new_block, new_block_size) and deallocate's
\* insert_to_tree(block, get_block_data_size(block)): the size is in the
\* header before the call.
InsertBlock(n, k) ==
  /\ Alive
  /\ n \notin indexed
  /\ DistinctKeys => k \notin SizesIndexed
  /\ h' = Settle(Insert([h EXCEPT !.m[n].size = k], n, k), Detached)
  /\ indexed' = indexed \cup {n}

\* delete_from_tree(block, get_block_data_size(block)).
DeleteBlock(n) ==
  /\ Alive
  /\ n \in indexed
  /\ h' = Settle(Delete(h, n, h.m[n].size), Detached)
  /\ indexed' = indexed \ {n}

\* insert_to_tree alone: the index as a run of frees builds it, before any
\* block leaves it again.
InsertNext == \E n \in Nodes, k \in Keys : InsertBlock(n, k)

Next ==
  \/ InsertNext
  \/ \E n \in Nodes : DeleteBlock(n)

Spec == Init /\ [][Next]_vars

-----------------------------------------------------------------------------
(* Views of the tree.  Fuel cuts off a walk round a cycle.                 *)

RECURSIVE Subtree(_, _)
Subtree(x, fuel) ==
  IF x = NULL \/ fuel = 0 THEN {}
  ELSE {x} \cup Subtree(h.m[x].left, fuel - 1) \cup Subtree(h.m[x].right, fuel - 1)

TreeNodes == Subtree(h.root, Fuel)

RECURSIVE InOrder(_, _)
InOrder(x, fuel) ==
  IF x = NULL \/ fuel = 0 THEN <<>>
  ELSE InOrder(h.m[x].left, fuel - 1) \o <<x>> \o InOrder(h.m[x].right, fuel - 1)

\* Black height of the subtree at x, or -1 when two paths differ.
RECURSIVE BlackHeight(_, _)
BlackHeight(x, fuel) ==
  IF x = NULL \/ fuel = 0 THEN 0
  ELSE LET l == BlackHeight(h.m[x].left, fuel - 1)
           r == BlackHeight(h.m[x].right, fuel - 1)
       IN  IF l = -1 \/ r = -1 \/ l # r THEN -1
           ELSE l + (IF h.m[x].black THEN 1 ELSE 0)

-----------------------------------------------------------------------------
TypeOK ==
  /\ h.root \in Nodes \cup {NULL}
  /\ h.status \in {"ok", "segfault", "logic_error", "hang"}
  /\ \A x \in Nodes : /\ h.m[x].size \in Keys \cup {0}
                      /\ h.m[x].black \in BOOLEAN
                      /\ {h.m[x].parent, h.m[x].left, h.m[x].right} \subseteq Nodes \cup {NULL}
  /\ indexed \subseteq Nodes

\* The tree holds exactly the blocks inserted and not removed: a block the
\* code loses can never be allocated again, one it keeps after removal can
\* be allocated twice.
IndexExact == Alive => TreeNodes = indexed

\* In-order traversal yields non-decreasing sizes (spec invariant 4), the
\* property the fit searches get_first_fit and get_best_fit rely on.
InOrderSorted ==
  Alive => LET s == InOrder(h.root, Fuel)
           IN  \A i \in 1..Len(s) - 1 : h.m[s[i]].size <= h.m[s[i + 1]].size

\* Every child's parent link points back at it and the root has none:
\* rotations and the fix-ups climb the tree through these links.
ParentLinksConsistent ==
  Alive =>
    /\ h.root # NULL => h.m[h.root].parent = NULL
    /\ \A x \in TreeNodes, side \in {"left", "right"} :
         h.m[x][side] # NULL => h.m[h.m[x][side]].parent = x

\* No red node has a red child, and every root-to-NIL path has the same
\* number of black nodes (spec invariant 4 and §8 "red-black balance").
RedBlackBalanced ==
  Alive =>
    /\ \A x \in TreeNodes :
         ~h.m[x].black => \A side \in {"left", "right"} : IsBlack(h, h.m[x][side])
    /\ BlackHeight(h.root, Fuel) # -1

\* insert_to_tree and delete_from_tree never throw, crash or loop.
NoFault == Alive

=============================================================================

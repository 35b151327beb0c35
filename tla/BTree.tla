------------------------------- MODULE BTree -------------------------------
(***************************************************************************)
(* b_tree<tkey, tvalue> (b_tree.h) on the node operations of search_tree   *)
(* (search_tree.h), as operators over a heap H = [m, root, free, overrun,  *)
(* ret]:                                                                   *)
(*   - H.m[n] is node n: kv, its keys_and_values array, sub, its subtrees  *)
(*     array, and vs, its virtual_size.  kv has the 2t-1 slots create_node *)
(*     allocates and sub the 2t, each with one more slot standing for the  *)
(*     memory just past the allocation;                                    *)
(*   - H.root is _root, H.free the nodes the allocator has not handed out  *)
(*     (create_node throws bad_alloc when it is empty);                    *)
(*   - H.overrun records a read or write past the end of an array;         *)
(*   - H.ret is what the last call returned or threw.                      *)
(* A slot of kv holds a pair <<key, value>> or Dead when no pair is        *)
(* constructed in it.  Every public operation holds _mutex for the whole   *)
(* call, so each is one step.  A path is the stack find_path returns, as a *)
(* sequence whose last element is the top; an element is <<node, index>>,  *)
(* the node the stored slot pointer points to (no slot on a path is        *)
(* written before it is read back).                                        *)
(***************************************************************************)
EXTENDS Integers, SequencesExt

CONSTANTS
  T,       \* _t, the minimum degree
  Keys,    \* keys: integers, compared by their order
  Values,  \* values
  Nodes,   \* the nodes the allocator can hand out: integers
  NULL,    \* nullptr
  Dead,    \* a slot of keys_and_values holding no constructed pair
  Absent,  \* no value (the abstract map's empty entry)
  Bounds   \* the bounds obtain_between is called with

\* The constructor throws logic_error for t < 2.
ASSUME T >= 2

VARIABLE heap

MinKeys == T - 1       \* get_min_keys_count
MaxKeys == 2 * T - 1   \* get_max_keys_count

\* A walk down the tree takes at most this many nodes.
Depth == Cardinality(Nodes) + 1

\* _keys_comparer: negative, zero or positive.
Cmp(a, b) == IF a < b THEN -1 ELSE IF a = b THEN 0 ELSE 1

\* create_node: kv slots 0..2t-2, sub slots 0..2t-1 nulled by the
\* common_node constructor; slot MaxKeys of kv and 2t of sub lie past them.
EmptyNode ==
  [kv |-> [i \in 0..MaxKeys |-> Dead],
   sub |-> [i \in 0..2 * T |-> NULL],
   vs |-> 0]

NewId(H) == Min(H.free)

Throw(H, e) == [H EXCEPT !.ret = e]
Done(H)     == [H EXCEPT !.ret = "ok"]

\* destroy_node: the node goes back to the allocator.
Free(H, n) == [H EXCEPT !.m[n] = EmptyNode, !.free = @ \cup {n}]

\* Adjacent swaps that carry the element at i to j; the ones between move
\* one place towards i.
Carry(a, i, j) ==
  [x \in DOMAIN a |->
     IF x = j THEN a[i]
     ELSE IF i < j /\ i <= x /\ x < j THEN a[x + 1]
     ELSE IF j < i /\ j < x /\ x <= i THEN a[x - 1]
     ELSE a[x]]

Key(H, n, i) == H.m[n].kv[i][1]

(***************************************************************************)
(* node_find_path: binary search of key among the keys of n between l and *)
(* r; the index of the key, or -(p + 1) for the insertion point p.         *)
(***************************************************************************)
RECURSIVE NodeFindPath(_, _, _, _, _)
NodeFindPath(H, n, key, l, r) ==
  LET i == (l + r) \div 2
      c == Cmp(key, Key(H, n, i))
  IN  IF c = 0 THEN i
      ELSE IF l = r THEN -(i + (IF c < 0 THEN 0 ELSE 1) + 1)
      ELSE IF c < 0 THEN NodeFindPath(H, n, key, l, i)
      ELSE NodeFindPath(H, n, key, i + 1, r)

\* find_path: descend while the key is not found and the child is not null.
RECURSIVE Descend(_, _, _, _)
Descend(H, n, key, path) ==
  LET idx == NodeFindPath(H, n, key, 0, H.m[n].vs - 1)
  IN  IF idx >= 0 \/ H.m[n].sub[-idx - 1] = NULL
        THEN Append(path, <<n, idx>>)
        ELSE Descend(H, H.m[n].sub[-idx - 1], key, Append(path, <<n, idx>>))

FindPath(H, key) ==
  IF H.root = NULL THEN << <<NULL, -1>> >> ELSE Descend(H, H.root, key, <<>>)

(***************************************************************************)
(* node_insert: construct the pair at the end, put right_subtree after it *)
(* and bubble both down to subtree_index.                                  *)
(***************************************************************************)
NodeInsert(N, kvp, si, right) ==
  [N EXCEPT !.kv  = Carry([@ EXCEPT ![N.vs] = kvp], N.vs, si),
            !.sub = Carry([@ EXCEPT ![N.vs + 1] = right], N.vs + 1, si + 1),
            !.vs  = @ + 1]

(***************************************************************************)
(* node_split of a full node N receiving kvp at subtree_index si with its *)
(* right subtree: t = (vs + 1) / 2 is the mediant index.  Placed is N once *)
(* kvp and right have been swapped in and bubbled to their places, Median  *)
(* and SplitRight what the swaps left in kvp and right_subtree.            *)
(***************************************************************************)
SplitT(N) == (N.vs + 1) \div 2

\* Mutant: the median is taken from the wrong side of the mediant.
MedianSwapped(N, kvp, si) ==
  IF si = SplitT(N) THEN kvp
  ELSE IF si < SplitT(N) THEN N.kv[SplitT(N)]
  ELSE N.kv[SplitT(N) - 1]

Median(N, kvp, si) ==
  IF si = SplitT(N) THEN kvp
  ELSE IF si < SplitT(N) THEN N.kv[SplitT(N) - 1]
  ELSE N.kv[SplitT(N)]

SplitRight(N, right, si) ==
  IF si = SplitT(N) THEN right
  ELSE IF si < SplitT(N) THEN N.sub[SplitT(N)]
  ELSE N.sub[SplitT(N) + 1]

Placed(N, kvp, si, right) ==
  LET t == SplitT(N)
  IN  IF si = t THEN N
      ELSE IF si < t
        THEN [N EXCEPT !.kv  = Carry([@ EXCEPT ![t - 1] = kvp], t - 1, si),
                       !.sub = Carry([@ EXCEPT ![t] = right], t, si + 1)]
        ELSE [N EXCEPT !.kv  = Carry([@ EXCEPT ![t] = kvp], t, si - 1),
                       !.sub = Carry([@ EXCEPT ![t + 1] = right], t + 1, si)]

\* The pairs t.. and subtrees t+1.. move to the new node, which gets the
\* right subtree first; the old node keeps t pairs.
SplitKeep(P) ==
  LET t == SplitT(P)
  IN  [P EXCEPT !.kv  = [x \in DOMAIN @ |-> IF t <= x /\ x < 2 * t - 1 THEN Dead ELSE @[x]],
                !.sub = [x \in DOMAIN @ |-> IF t < x /\ x < 2 * t THEN NULL ELSE @[x]],
                !.vs  = t]

SplitMove(P, r) ==
  LET t == SplitT(P)
  IN  [EmptyNode EXCEPT
         !.kv  = [x \in DOMAIN @ |-> IF x < t - 1 THEN P.kv[t + x] ELSE Dead],
         !.sub = [x \in DOMAIN @ |-> IF x = 0 THEN r ELSE IF x < t THEN P.sub[t + x] ELSE NULL],
         !.vs  = t - 1]

\* The new node is created before the structure changes.
NodeSplit(H, n, kvp, si, right) ==
  [H EXCEPT !.m[n] = SplitKeep(Placed(H.m[n], kvp, si, right)),
            !.m[NewId(H)] = SplitMove(Placed(H.m[n], kvp, si, right),
                                      SplitRight(H.m[n], right, si)),
            !.free = @ \ {NewId(H)}]

(***************************************************************************)
(* insert_inner: the loop that inserts into a node with room, or splits it *)
(* and carries the median up the path, growing a new root at the top.     *)
(***************************************************************************)
\* A new root holding kvp over left and right (or over nothing).
NewRoot(H, kvp, left, right) ==
  [H EXCEPT !.m[NewId(H)] = [EmptyNode EXCEPT !.kv[0] = kvp, !.sub[0] = left,
                                              !.sub[1] = right, !.vs = 1],
            !.free = @ \ {NewId(H)},
            !.root = NewId(H),
            !.ret = "ok"]

RECURSIVE InsertUp(_, _, _, _, _, _), SplitUp(_, _, _, _, _),
          InsertUpOffByOne(_, _, _, _, _, _)
\* Mutant: a node with max_keys pairs is taken to have room.
InsertUpOffByOne(H, path, n, kvp, si, right) ==
  IF H.m[n].vs <= MaxKeys
    THEN Done([H EXCEPT !.m[n] = NodeInsert(@, kvp, si, right)])
  ELSE IF H.free = {}
    THEN Throw(H, "bad_alloc")
  ELSE SplitUp(NodeSplit(H, n, kvp, si, right), path, n,
               Median(H.m[n], kvp, si), NewId(H))

InsertUp(H, path, n, kvp, si, right) ==
  IF H.m[n].vs < MaxKeys
    THEN Done([H EXCEPT !.m[n] = NodeInsert(@, kvp, si, right)])
  ELSE IF H.free = {}
    THEN Throw(H, "bad_alloc")
  ELSE SplitUp(NodeSplit(H, n, kvp, si, right), path, n,
               Median(H.m[n], kvp, si), NewId(H))

\* After a split: the median goes to the parent, or into a new root.
SplitUp(H, path, n, kvp, right) ==
  IF Len(path) = 1
    THEN IF H.free = {} THEN Throw(H, "bad_alloc") ELSE NewRoot(H, kvp, n, right)
    ELSE InsertUp(H, Front(path), Last(Front(path))[1], kvp,
                  -Last(Front(path))[2] - 1, right)

InsertFound(H, path, kvp, isUpdate) ==
  IF Last(path)[2] >= 0
    THEN IF isUpdate
           THEN Done([H EXCEPT !.m[Last(path)[1]].kv[Last(path)[2]] = kvp])
           ELSE Throw(H, "insertion_of_existent_key")
  ELSE IF isUpdate
    THEN Throw(H, "updating_of_nonexistent_key")
  ELSE IF Last(path)[1] = NULL /\ Len(path) = 1
    THEN IF H.free = {} THEN Throw(H, "bad_alloc") ELSE NewRoot(H, kvp, NULL, NULL)
  ELSE InsertUp(H, path, Last(path)[1], kvp, -Last(path)[2] - 1, NULL)

InsertInner(H, k, v, isUpdate) == InsertFound(H, FindPath(H, k), <<k, v>>, isUpdate)

\* obtain: the value under the key, or obtaining_of_nonexistent_key.
\* Mutant: an index of 0 is read as "not found".
ObtainAtZeroMissing(H, path) ==
  IF Last(path)[2] <= 0
    THEN Throw(H, "obtaining_of_nonexistent_key")
    ELSE [H EXCEPT !.ret = H.m[Last(path)[1]].kv[Last(path)[2]][2]]

ObtainAt(H, path) ==
  IF Last(path)[2] < 0
    THEN Throw(H, "obtaining_of_nonexistent_key")
    ELSE [H EXCEPT !.ret = H.m[Last(path)[1]].kv[Last(path)[2]][2]]

(***************************************************************************)
(* dispose: a key of an inner node is swapped with its in-order           *)
(* predecessor, the rightmost pair of its left subtree; the pair is then  *)
(* removed from a leaf and the loop rebalances up the path: take from the *)
(* left brother, take from the right one, or merge and go up.             *)
(***************************************************************************)
RECURSIVE PredDescend(_, _, _)
PredDescend(H, c, path) ==
  IF c = NULL THEN path
  ELSE PredDescend(H, H.m[c].sub[H.m[c].vs], Append(path, <<c, -H.m[c].vs - 1>>))

\* The leaf's top entry takes the index of its last pair.
AtLastPair(H, down) ==
  [down EXCEPT ![Len(down)] = <<Last(down)[1], H.m[Last(down)[1]].vs - 1>>]

LeafPath(H, path) ==
  AtLastPair(H, PredDescend(H, H.m[Last(path)[1]].sub[Last(path)[2]],
                            Append(Front(path), <<Last(path)[1], -Last(path)[2] - 1>>)))

SwapPredecessor(H, path, lp) ==
  [H EXCEPT !.m[Last(path)[1]].kv[Last(path)[2]] = H.m[Last(lp)[1]].kv[Last(lp)[2]],
            !.m[Last(lp)[1]].kv[Last(lp)[2]] = H.m[Last(path)[1]].kv[Last(path)[2]]]

\* Mutant: a brother with t - 1 pairs is allowed to lend one.
CanTakeFromLeftAtMin(H, par, pi) ==
  pi # 0 /\ H.m[H.m[par].sub[pi - 1]].vs >= MinKeys

CanTakeFromLeft(H, par, pi) ==
  pi # 0 /\ H.m[H.m[par].sub[pi - 1]].vs > MinKeys

CanTakeFromRight(H, par, pi) ==
  pi # H.m[par].vs /\ H.m[H.m[par].sub[pi + 1]].vs > MinKeys

\* The parent's pair drops to the front of tn, the left brother's last pair
\* takes its place, and the brother's last subtree becomes tn's first.
TakeFromLeft(H, tn, par, pi) ==
  LET lb  == H.m[par].sub[pi - 1]
      lvs == H.m[lb].vs
      tv  == H.m[tn].vs
  IN  [H EXCEPT
         !.m[par].kv[pi - 1] = H.m[lb].kv[lvs - 1],
         !.m[lb].kv[lvs - 1] = Dead,
         !.m[lb].vs = lvs - 1,
         !.m[tn].kv = Carry([@ EXCEPT ![tv] = H.m[par].kv[pi - 1]], tv, 0),
         !.m[tn].sub = Carry([H.m[tn].sub EXCEPT ![tv + 1] = H.m[tn].sub[tv],
                                                 ![tv] = H.m[lb].sub[lvs]], tv, 0),
         !.m[tn].vs = tv + 1]

\* The parent's pair goes to the end of tn, the right brother's first pair
\* takes its place and the brother's first subtree becomes tn's last.
TakeFromRight(H, tn, par, pi) ==
  LET rb  == H.m[par].sub[pi + 1]
      rvs == H.m[rb].vs
      tv  == H.m[tn].vs
  IN  [H EXCEPT
         !.m[par].kv[pi] = H.m[rb].kv[0],
         !.m[tn].kv[tv] = H.m[par].kv[pi],
         !.m[tn].sub[tv + 1] = H.m[rb].sub[0],
         !.m[tn].vs = tv + 1,
         !.m[rb].kv = [Carry(@, 0, rvs - 1) EXCEPT ![rvs - 1] = Dead],
         !.m[rb].sub = [x \in DOMAIN H.m[rb].sub |->
                          IF x < rvs THEN H.m[rb].sub[x + 1] ELSE H.m[rb].sub[x]],
         !.m[rb].vs = rvs - 1]

(***************************************************************************)
(* node_merge(parent, idx): the parent's pair idx and all of the right    *)
(* subtree's pairs and subtrees are appended to the left subtree; the     *)
(* parent's loop `for i = idx; i < vs` swaps slot i with i + 1 and         *)
(* subtree i + 1 with i + 2, so it reaches kv slot vs and sub slot vs + 1, *)
(* past both arrays when the parent is full.  The slot destructed after   *)
(* --vs is the one the last swap filled from slot vs.                     *)
(***************************************************************************)
\* Mutant: the emptied right subtree is never destroyed.
NodeMergeLeak(H, par, idx) ==
  LET l   == H.m[par].sub[idx]
      r   == H.m[par].sub[idx + 1]
      pvs == H.m[par].vs
      lvs == H.m[l].vs
      rvs == H.m[r].vs
  IN  [H EXCEPT
         !.m[l].kv = [x \in DOMAIN @ |->
                        IF x = lvs THEN H.m[par].kv[idx]
                        ELSE IF lvs < x /\ x <= lvs + rvs THEN H.m[r].kv[x - lvs - 1]
                        ELSE @[x]],
         !.m[l].sub = [x \in DOMAIN @ |->
                         IF lvs < x /\ x <= lvs + rvs + 1 THEN H.m[r].sub[x - lvs - 1]
                         ELSE @[x]],
         !.m[l].vs = lvs + 1 + rvs,
         !.m[par].kv = [Carry(@, idx, pvs) EXCEPT ![pvs - 1] = Dead],
         !.m[par].sub = Carry(@, idx + 1, pvs + 1),
         !.m[par].vs = pvs - 1,
         !.overrun = @ \/ pvs >= MaxKeys]

NodeMerge(H, par, idx) ==
  LET l   == H.m[par].sub[idx]
      r   == H.m[par].sub[idx + 1]
      pvs == H.m[par].vs
      lvs == H.m[l].vs
      rvs == H.m[r].vs
  IN  Free([H EXCEPT
         !.m[l].kv = [x \in DOMAIN @ |->
                        IF x = lvs THEN H.m[par].kv[idx]
                        ELSE IF lvs < x /\ x <= lvs + rvs THEN H.m[r].kv[x - lvs - 1]
                        ELSE @[x]],
         !.m[l].sub = [x \in DOMAIN @ |->
                         IF lvs < x /\ x <= lvs + rvs + 1 THEN H.m[r].sub[x - lvs - 1]
                         ELSE @[x]],
         !.m[l].vs = lvs + 1 + rvs,
         !.m[par].kv = [Carry(@, idx, pvs) EXCEPT ![pvs - 1] = Dead],
         !.m[par].sub = Carry(@, idx + 1, pvs + 1),
         !.m[par].vs = pvs - 1,
         !.overrun = @ \/ pvs >= MaxKeys], r)

MergeIndex(pi) == IF pi # 0 THEN pi - 1 ELSE pi

RECURSIVE Rebalance(_, _, _)
Rebalance(H, tn, path) ==
  IF H.m[tn].vs >= MinKeys THEN H
  ELSE IF path = <<>>
    THEN IF H.m[tn].vs = 0 THEN Free([H EXCEPT !.root = H.m[tn].sub[0]], tn) ELSE H
  ELSE LET par == Last(path)[1]
           pi  == -Last(path)[2] - 1
       IN  IF CanTakeFromLeft(H, par, pi) THEN TakeFromLeft(H, tn, par, pi)
           ELSE IF CanTakeFromRight(H, par, pi) THEN TakeFromRight(H, tn, par, pi)
           ELSE IF MergeIndex(pi) >= H.m[par].vs THEN Throw(H, "invalid_btree_merge")
           ELSE Rebalance(NodeMerge(H, par, MergeIndex(pi)), par, Front(path))

\* Take the pair out of the leaf (its value is what dispose returns), close
\* the gap, destruct the last slot, and rebalance up the rest of the path.
RemoveFromLeaf(H, path) ==
  LET tn == Last(path)[1]
      i  == Last(path)[2]
      vs == H.m[tn].vs
  IN  Rebalance([H EXCEPT !.ret = H.m[tn].kv[i][2],
                          !.m[tn].kv = [Carry(@, i, vs - 1) EXCEPT ![vs - 1] = Dead],
                          !.m[tn].vs = vs - 1], tn, Front(path))

DisposeAt(H, path) ==
  IF Last(path)[2] < 0
    THEN Throw(H, "disposal_of_nonexistent_key")
  ELSE IF H.m[Last(path)[1]].sub[0] # NULL
    THEN RemoveFromLeaf(SwapPredecessor(H, path, LeafPath(H, path)), LeafPath(H, path))
  ELSE RemoveFromLeaf(H, path)

(***************************************************************************)
(* obtain_between: descend towards the lower bound pushing <<node, p - 1>> *)
(* for insertion point p (the node's last pair before it), stop where it  *)
(* is found, make a -1 on top 0, then walk an infix_const_iterator over   *)
(* that stack.  The result is the sequence of pairs, or "ub" when the     *)
(* code reads the top of an empty stack.                                  *)
(***************************************************************************)
RECURSIVE BoundDescend(_, _, _, _)
BoundDescend(H, n, lo, path) ==
  IF n = NULL THEN path
  ELSE LET i == NodeFindPath(H, n, lo, 0, H.m[n].vs - 1)
       IN  IF i >= 0 THEN Append(path, <<n, i>>)
           ELSE BoundDescend(H, H.m[n].sub[-i - 1], lo, Append(path, <<n, -i - 2>>))

\* infix_const_iterator::operator++ on the stack st.
RECURSIVE Leftmost(_, _, _), Climb(_, _)
Leftmost(H, c, st) ==
  IF H.m[c].sub[0] # NULL
    THEN Leftmost(H, H.m[c].sub[0], Append(st, <<c, -1>>))
    ELSE Append(st, <<c, 0>>)

Climb(H, st) ==
  IF Last(st)[2] + 1 # H.m[Last(st)[1]].vs
    THEN [st EXCEPT ![Len(st)][2] = @ + 1]
  ELSE IF Len(st) = 1 THEN <<>>
  ELSE Climb(H, Front(st))

Increment(H, st) ==
  IF st = <<>> THEN st
  ELSE IF H.m[Last(st)[1]].sub[0] # NULL
    THEN Leftmost(H, H.m[Last(st)[1]].sub[Last(st)[2] + 1], st)
  ELSE IF Last(st)[2] + 1 < H.m[Last(st)[1]].vs
    THEN [st EXCEPT ![Len(st)][2] = @ + 1]
  ELSE Climb(H, st)

PairAt(H, st) == H.m[Last(st)[1]].kv[Last(st)[2]]

RECURSIVE Collect(_, _, _, _, _)
Collect(H, st, hi, ui, acc) ==
  IF st # <<>> /\ Cmp(PairAt(H, st)[1], hi) < (IF ui THEN 1 ELSE 0)
    THEN Collect(H, Increment(H, st), hi, ui, Append(acc, PairAt(H, st)))
    ELSE acc

\* Mutant: the inclusive flag of the lower bound is read the other way.
FirstInRangeFlipped(H, st, lo, li) ==
  IF Cmp(PairAt(H, st)[1], lo) < (IF li THEN 1 ELSE 0) THEN Increment(H, st) ELSE st

FirstInRange(H, st, lo, li) ==
  IF Cmp(PairAt(H, st)[1], lo) < (IF li THEN 0 ELSE 1) THEN Increment(H, st) ELSE st

RangeFrom(H, path, lo, hi, li, ui) ==
  IF path = <<>> THEN "ub"
  ELSE Collect(H, FirstInRange(H, IF Last(path)[2] = -1
                                     THEN [path EXCEPT ![Len(path)][2] = 0]
                                     ELSE path, lo, li), hi, ui, <<>>)

ObtainBetween(H, lo, hi, li, ui) ==
  RangeFrom(H, BoundDescend(H, H.root, lo, <<>>), lo, hi, li, ui)

(***************************************************************************)
(* The tree as a whole.                                                   *)
(***************************************************************************)
\* The nodes below n, bounded by Depth levels.
RECURSIVE Subtree(_, _, _)
Subtree(H, n, d) ==
  IF n = NULL \/ d = 0 THEN {}
  ELSE {n} \cup UNION {Subtree(H, H.m[n].sub[i], d - 1) : i \in 0..H.m[n].vs}

\* The pairs below n in infix order (what begin_infix walks).
RECURSIVE InOrder(_, _, _)
InOrder(H, n, d) ==
  IF n = NULL \/ d = 0 THEN <<>>
  ELSE FlattenSeq([i \in 1..H.m[n].vs + 1 |->
         InOrder(H, H.m[n].sub[i - 1], d - 1)
           \o (IF i <= H.m[n].vs THEN <<H.m[n].kv[i - 1]>> ELSE <<>>)])

\* The pairs constructed in the nodes of the tree.
TreePairs(H) ==
  UNION {{H.m[n].kv[i] : i \in 0..H.m[n].vs - 1} : n \in Subtree(H, H.root, Depth)} \ {Dead}

AsMap(P) ==
  [k \in Keys |-> IF \E p \in P : p[1] = k
                    THEN (CHOOSE p \in P : p[1] = k)[2]
                    ELSE Absent]

Contents(H) == AsMap(TreePairs(H))

\* The depths at which the leaves below n lie.
RECURSIVE LeafDepths(_, _, _)
LeafDepths(H, n, d) ==
  IF d = 0 THEN {-1}
  ELSE IF H.m[n].sub[0] = NULL THEN {Depth - d}
  ELSE UNION {LeafDepths(H, H.m[n].sub[i], d - 1) : i \in 0..H.m[n].vs}

(***************************************************************************)
(* What TLC tells states apart by.  No call reads a slot past virtual_size *)
(* before writing it (node_insert writes sub[vs + 1] first; what          *)
(* node_merge carries in from slot vs lands in a slot it destructs or     *)
(* leaves past the new size), and which free node create_node returns     *)
(* only names it.  So a state is the tree below the root, as nested       *)
(* sequences of pairs and subtrees, with how many nodes are allocated and *)
(* how many of them the tree holds.                                       *)
(***************************************************************************)
RECURSIVE Shape(_, _, _)
Shape(H, n, d) ==
  IF n = NULL \/ d = 0 THEN <<>>
  ELSE << [i \in 1..H.m[n].vs |-> H.m[n].kv[i - 1]],
          [i \in 1..H.m[n].vs + 1 |-> Shape(H, H.m[n].sub[i - 1], d - 1)] >>

View ==
  << Shape(heap, heap.root, Depth), Cardinality(heap.free),
     Cardinality(Subtree(heap, heap.root, Depth)), heap.overrun, heap.ret >>

(***************************************************************************)
(* The specification: the public calls, each under _mutex.                *)
(***************************************************************************)
Init ==
  heap = [m |-> [n \in Nodes |-> EmptyNode], root |-> NULL, free |-> Nodes,
          overrun |-> FALSE, ret |-> "ok"]

Insert(k, v)  == heap' = InsertInner(heap, k, v, FALSE)
Update(k, v)  == heap' = InsertInner(heap, k, v, TRUE)
Dispose(k)    == heap' = DisposeAt(heap, FindPath(heap, k))

Next ==
  \/ \E k \in Keys, v \in Values : Insert(k, v)
  \/ \E k \in Keys, v \in Values : Update(k, v)
  \/ \E k \in Keys : Dispose(k)

Spec == Init /\ [][Next]_heap

(***************************************************************************)
(* Properties.                                                            *)
(***************************************************************************)
\* The container the tree implements: its pairs as a map, and what the last
\* call returned or threw.
Container == INSTANCE AssociativeContainer WITH map <- Contents(heap), ret <- heap.ret

Pairs == Keys \X Values

NodeType ==
  [kv: [0..MaxKeys -> Pairs \cup {Dead}],
   sub: [0..2 * T -> Nodes \cup {NULL}],
   vs: 0..MaxKeys]

TypeOK ==
  heap \in [m: [Nodes -> NodeType], root: Nodes \cup {NULL}, free: SUBSET Nodes,
            overrun: BOOLEAN,
            ret: Values \cup Container!Errors \cup {"ok", "invalid_btree_merge"}]

InTree == Subtree(heap, heap.root, Depth)

\* After any sequence of insert, update and dispose calls, split and merge
\* keep the tree a B-tree of degree t: the root holds 1 to 2t-1 pairs and
\* every other node t-1 to 2t-1, all constructed; a node has a subtree in
\* each of its vs+1 slots or none at all; all leaves lie at one depth; and
\* the keys in infix order strictly increase.
IsBTree ==
  /\ \A n \in InTree :
       /\ heap.m[n].vs \in (IF n = heap.root THEN 1 ELSE MinKeys)..MaxKeys
       /\ \A i \in 0..heap.m[n].vs - 1 : heap.m[n].kv[i] # Dead
       /\ \A i \in 0..heap.m[n].vs :
            (heap.m[n].sub[i] = NULL) = (heap.m[n].sub[0] = NULL)
  /\ heap.root # NULL => Cardinality(LeafDepths(heap, heap.root, Depth)) = 1
  /\ \A i \in 1..Len(InOrder(heap, heap.root, Depth)) - 1 :
       InOrder(heap, heap.root, Depth)[i][1] < InOrder(heap, heap.root, Depth)[i + 1][1]

\* Every node create_node handed out is in the tree and every node in the
\* tree is one it handed out: split, merge and the root's collapse in
\* dispose neither leak a node nor keep a destroyed one.
NodesAccounted == Nodes \ heap.free = InTree

\* obtain_between over a non-empty tree returns exactly the pairs between
\* the bounds in key order, whatever the bounds and their inclusiveness:
\* the descent's <<node, p - 1>> entries and operator++ agree.
ObtainBetweenExact ==
  heap.root # NULL =>
    \A lo, hi \in Bounds, li, ui \in BOOLEAN :
      ObtainBetween(heap, lo, hi, li, ui) = Container!Between(Contents(heap), lo, hi, li, ui)

\* obtain_between is defined on every tree: it never reads the top of an
\* empty stack (path.top() before path.empty() on an empty tree).
ObtainBetweenDefined ==
  \A lo, hi \in Bounds, li, ui \in BOOLEAN : ObtainBetween(heap, lo, hi, li, ui) # "ub"

\* dispose's node_merge moves pairs and subtrees only within the arrays
\* create_node allocated.
NoMergeOverrun == ~heap.overrun

\* obtain changes nothing; in every state it returns, for every key, what
\* the map holds under it, or throws obtaining_of_nonexistent_key.
ObtainAgrees ==
  \A k \in Keys :
    ObtainAt(heap, FindPath(heap, k)).ret
      = IF Contents(heap)[k] = Absent THEN "obtaining_of_nonexistent_key"
                                      ELSE Contents(heap)[k]

\* insert, update and dispose behave as the associative container
\* they implement: the pairs in the tree are the map, each call returns or
\* throws what the map says, and a bad_alloc leaves the pairs unchanged.
ImplementsContainer == Container!Spec

=============================================================================

------------------------------ MODULE RBTreeOps ------------------------------
(***************************************************************************)
(* The free-block index of allocator_red_black_tree                        *)
(* (src/allocator/allocator_red_black_tree/src/allocator_red_black_tree.cpp)*)
(* as operators over a heap H = [m, root, status]:                          *)
(*   - H.m maps every block header, and the null pointer, to a record with *)
(*     at least the fields size, black, occ, parent, left, right;          *)
(*   - H.root is the tree root kept in the arena header (get_root_block);  *)
(*   - H.status is "ok" until the code throws ("logic_error"), would       *)
(*     dereference null ("segfault"), or would loop for ever ("hang").     *)
(* Each operator is the C++ function of the same name, one pointer store   *)
(* after the other, in the code's order.  H.m[NULL] stands for the page at *)
(* address 0: a store through null changes it, and Settle turns that into  *)
(* a segfault.  Fuel bounds every loop and recursion of the code; running  *)
(* out of it means the walk cycles, which the code would do for ever.      *)
(***************************************************************************)
EXTENDS Integers

CONSTANTS
  NULL,   \* nullptr
  Fuel    \* more steps than any walk over an acyclic tree of the arena can take

Get(H, b, f)    == H.m[b][f]
Put(H, b, f, v) == [H EXCEPT !.m[b][f] = v]
Fail(H, s)      == IF H.status = "ok" THEN [H EXCEPT !.status = s] ELSE H
Ok(H)           == H.status = "ok"

\* What a walk returns when it has gone round a cycle of links: no block
\* has this offset.
Hung == -1

Opp(side) == IF side = "left" THEN "right" ELSE "left"

\* block_is_black: a null child counts as black.
IsBlack(H, b)  == b = NULL \/ H.m[b].black
SetBlack(H, b) == Put(H, b, "black", TRUE)
SetRed(H, b)   == Put(H, b, "black", FALSE)

\* The child slot of p that holds c: get_left_child(p) == c ? left : right.
Slot(H, p, c) == IF Get(H, p, "left") = c THEN "left" ELSE "right"

\* A store through null is a segfault of the whole call.
Settle(H, nullHdr) == IF H.m[NULL] # nullHdr THEN Fail(H, "segfault") ELSE H

(***************************************************************************)
(* left_rotate / right_rotate: the child nr on side `up` becomes the root  *)
(* of the subtree; left_rotate is Rotate(H, b, "right").  Every heap step  *)
(* below is an operator applied to the heap the previous step returned.    *)
(***************************************************************************)
\* if (x) get_parent(x) = p;
LinkParent(H, x, p) == IF x # NULL THEN Put(H, x, "parent", p) ELSE H

\* b's slot `up` takes nr's inner child, nr takes b on the other side and
\* b's old parent par.
Pivot(H, b, up, nr, par) ==
  LET inner == Get(H, nr, Opp(up))
  IN  Put(Put(Put(LinkParent(Put(H, b, up, inner), inner, b),
                  nr, Opp(up), b), b, "parent", nr), nr, "parent", par)

\* nr takes b's place below par, or becomes the root.
Reattach(H, b, nr, par) ==
  IF par = NULL
    THEN [Put(H, nr, "parent", NULL) EXCEPT !.root = nr]
    ELSE Put(H, par, IF b = Get(H, par, "right") THEN "right" ELSE "left", nr)

\* Mutant: the rotation forgets to move the root.
RotateKeepsRoot(H, b, up) ==
  IF Get(H, b, "parent") = NULL
    THEN Pivot(H, b, up, Get(H, b, up), NULL)
    ELSE Reattach(Pivot(H, b, up, Get(H, b, up), Get(H, b, "parent")),
                  b, Get(H, b, up), Get(H, b, "parent"))

Rotate(H, b, up) ==
  Reattach(Pivot(H, b, up, Get(H, b, up), Get(H, b, "parent")),
           b, Get(H, b, up), Get(H, b, "parent"))

LeftRotate(H, b)  == Rotate(H, b, "right")
RightRotate(H, b) == Rotate(H, b, "left")

(***************************************************************************)
(* insert_to_tree: walk down from the root going left on size <= node size *)
(* to the last node, then hang the block left of it only on size < node    *)
(* size: on equal sizes the block lands in the right slot even when that   *)
(* slot is taken.                                                          *)
(***************************************************************************)
\* Mutant: the walk turns the wrong way.
RECURSIVE DescendReversed(_, _, _, _)
DescendReversed(H, cur, size, fuel) ==
  LET nxt == IF size > Get(H, cur, "size") THEN Get(H, cur, "left")
                                           ELSE Get(H, cur, "right")
  IN  IF nxt = NULL THEN [at |-> cur, st |-> "ok"]
      ELSE IF fuel = 0 THEN [at |-> cur, st |-> "hang"]
      ELSE DescendReversed(H, nxt, size, fuel - 1)

RECURSIVE Descend(_, _, _, _)
Descend(H, cur, size, fuel) ==
  LET nxt == IF size <= Get(H, cur, "size") THEN Get(H, cur, "left")
                                            ELSE Get(H, cur, "right")
  IN  IF nxt = NULL THEN [at |-> cur, st |-> "ok"]
      ELSE IF fuel = 0 THEN [at |-> cur, st |-> "hang"]
      ELSE Descend(H, nxt, size, fuel - 1)

\* The zig-zag rotation of the left case: parent red, block black.
ZigLeft(H, par, nb) ==
  IF Get(H, par, "right") = nb
    THEN LeftRotate(SetBlack(SetRed(H, par), nb), par)
    ELSE H

\* The zig-zag rotation of the mirrored case, without recolouring.
ZigRight(H, par, nb) ==
  IF Get(H, par, "left") = nb THEN RightRotate(H, par) ELSE H

RECURSIVE BalanceAfterInsert(_, _, _)
BalanceAfterInsert(H, nb, fuel) ==
  IF nb = NULL THEN H
  ELSE IF fuel = 0 THEN Fail(H, "hang")
  ELSE
  LET par == Get(H, nb, "parent") IN
  IF par = NULL THEN SetBlack(H, nb)
  ELSE IF IsBlack(H, nb) \/ IsBlack(H, par) THEN H
  ELSE
  LET gd == Get(H, par, "parent") IN
  IF gd = NULL THEN Fail(H, "logic_error")          \* get_uncle throws
  ELSE
  LET uncle == IF Get(H, gd, "left") = par THEN Get(H, gd, "right")
                                           ELSE Get(H, gd, "left")
  IN  IF ~IsBlack(H, uncle)
        THEN BalanceAfterInsert(SetRed(SetBlack(SetBlack(H, par), uncle), gd),
                                gd, fuel - 1)
      ELSE IF Get(H, gd, "left") = par
        THEN RightRotate(ZigLeft(SetRed(SetBlack(H, par), gd), par, nb), gd)
      \* the mirrored case blackens the new block, not its parent
      ELSE LeftRotate(ZigRight(SetRed(SetBlack(H, nb), gd), par, nb), gd)

\* The block becomes a red node without links.
ResetNode(H, b) ==
  [H EXCEPT !.m[b].black = FALSE, !.m[b].left = NULL,
            !.m[b].right = NULL, !.m[b].parent = NULL]

\* at's child slot chosen by the strict comparison takes b.
AttachAt(H, b, size, at) ==
  Put(H, at, IF size < Get(H, at, "size") THEN "left" ELSE "right", b)

\* Below the leaf the walk d ended at, then the fix-up.
InsertAt(H, b, size, d) ==
  IF d.st # "ok" THEN Fail(H, d.st)
  ELSE BalanceAfterInsert(
         AttachAt([H EXCEPT !.m[b].size = size, !.m[b].occ = FALSE,
                            !.m[b].parent = d.at], b, size, d.at),
         b, Fuel)

\* Mutant: the new leaf is hung below its parent without a parent link.
InsertNoParent(H, b, size) ==
  LET d == Descend(ResetNode(H, b), H.root, size, Fuel)
  IN  IF H.root = NULL THEN [ResetNode(H, b) EXCEPT !.m[b].black = TRUE, !.root = b]
      ELSE IF d.st # "ok" THEN Fail(ResetNode(H, b), d.st)
      ELSE BalanceAfterInsert(
             AttachAt([ResetNode(H, b) EXCEPT !.m[b].size = size, !.m[b].occ = FALSE],
                      b, size, d.at), b, Fuel)

\* The first block of an empty tree keeps its occupied flag.
InsertReset(H, b, size) ==
  IF H.root = NULL THEN [H EXCEPT !.m[b].black = TRUE, !.root = b]
  ELSE InsertAt(H, b, size, Descend(H, H.root, size, Fuel))

Insert(H, b, size) == InsertReset(ResetNode(H, b), b, size)


(***************************************************************************)
RECURSIVE Find(_, _, _, _, _)
Find(H, cur, b, size, fuel) ==
  IF cur = b THEN [at |-> cur, st |-> "ok"]
  ELSE IF cur = NULL THEN [at |-> NULL, st |-> "segfault"]
  ELSE IF fuel = 0 THEN [at |-> cur, st |-> "hang"]
  ELSE Find(H, IF size <= Get(H, cur, "size") THEN Get(H, cur, "left")
                                             ELSE Get(H, cur, "right"),
            b, size, fuel - 1)

RECURSIVE Rightmost(_, _, _)
Rightmost(H, x, fuel) ==
  IF Get(H, x, "right") = NULL THEN x
  ELSE IF fuel = 0 THEN Hung
  ELSE Rightmost(H, Get(H, x, "right"), fuel - 1)

SwapField(H, x, y, f) == Put(Put(H, x, f, Get(H, y, f)), y, f, Get(H, x, f))

\* The colours of x and y trade places when they differ.
SwapColour(H, x, y) ==
  IF IsBlack(H, x) # IsBlack(H, y)
    THEN Put(Put(H, x, "black", IsBlack(H, y)), y, "black", IsBlack(H, x))
    ELSE H

\* p's slot holding old takes new; with no parent, new becomes the root.
ReplaceChild(H, p, old, new) ==
  IF p # NULL THEN Put(H, p, Slot(H, p, old), new) ELSE [H EXCEPT !.root = new]

\* The child of x on side f gets parent p.
AdoptChild(H, x, f, p) == LinkParent(H, Get(H, x, f), p)

\* std::swap of the q children, then c takes ntd's parent.
SwapInner(H, ntd, c, q) ==
  Put(SwapField(H, ntd, c, q), c, "parent", Get(H, ntd, "parent"))

\* ntd takes c's o child and goes below c on side o.
SinkBelow(H, ntd, c, o) ==
  Put(Put(Put(H, ntd, o, Get(H, c, o)), ntd, "parent", c), c, o, ntd)

\* Neighbour case (c is ntd's child on side o), after ntd's parent slot.
NeighbourSwap(H, ntd, c, o) ==
  SinkBelow(AdoptChild(SwapInner(AdoptChild(AdoptChild(H, ntd, Opp(o), c),
                                            c, Opp(o), ntd),
                                 ntd, c, Opp(o)),
                       c, o, ntd),
            ntd, c, o)

Neighbour(H, ntd, c) ==
  NeighbourSwap(H, ntd, c,
                IF c = Get(H, Get(H, c, "parent"), "right") THEN "right" ELSE "left")

\* Distant case, first step: ntd's parent slot and c's parent slot (the
\* reference ptr_to_current, taken before) trade contents; with no parent,
\* c's slot takes ntd and c becomes the parentless root.
SwapSlots(H, ntd, c, pc, slotC) ==
  LET pd == Get(H, ntd, "parent")
  IN  IF pd # NULL
        THEN Put(Put(H, pd, Slot(H, pd, ntd), Get(H, pc, slotC)),
                 pc, slotC, Get(H, pd, Slot(H, pd, ntd)))
        ELSE [Put(Put(H, pc, slotC, ntd), c, "parent", NULL) EXCEPT !.root = c]

\* "left child swap": the left children trade parent links, or ntd's left
\* child gets parent c when c has none.
SwapLeftParents(H, ntd, c) ==
  LET lc == Get(H, c, "left")
      ln == Get(H, ntd, "left")
  IN  IF lc # NULL
        THEN Put(Put(H, lc, "parent", Get(H, ln, "parent")), ln, "parent", Get(H, lc, "parent"))
        ELSE Put(H, ln, "parent", c)

Distant(H, ntd, c, pc, slotC) ==
  SwapField(SwapField(SwapField(
    AdoptChild(SwapLeftParents(SwapSlots(H, ntd, c, pc, slotC), ntd, c), ntd, "right", c),
    c, ntd, "parent"), c, ntd, "left"), c, ntd, "right")

\* After the colour swap: is_neighbour decides the relinking.
SwapLinks(H, ntd, c) ==
  IF Get(H, c, "parent") = ntd
    THEN Neighbour(ReplaceChild(H, Get(H, ntd, "parent"), ntd, c), ntd, c)
    ELSE Distant(H, ntd, c, Get(H, c, "parent"), Slot(H, Get(H, c, "parent"), c))

SwapWith(H, ntd, c) ==
  IF c = Hung THEN Fail(H, "hang") ELSE SwapLinks(SwapColour(H, c, ntd), ntd, c)

\* Lines 339-478: a block with two children trades places, links and
\* colour with its in-order predecessor c, so that it has at most one child.
SwapWithPredecessor(H, ntd) ==
  SwapWith(H, ntd, Rightmost(H, Get(H, ntd, "left"), Fuel))

\* balance_black_leaf: the double-black fix-up.  The case "block is the
\* right child, brother and both nephews black, parent black" recurses with
\* (parent, parent) where the mirrored case uses (parent, parent's parent).
RECURSIVE BalanceBlackLeaf(_, _, _, _)
BalanceBlackLeaf(H, b, p, fuel) ==
  IF fuel = 0 THEN Fail(H, "hang")
  ELSE IF p = NULL THEN SetBlack(H, b)
  ELSE
  LET d    == IF Get(H, p, "left") = b THEN "left" ELSE "right"
      o    == Opp(d)
      br   == Get(H, p, o)
      far  == Get(H, br, o)
      near == Get(H, br, d)
      \* left_rotate when the block is a left child, right_rotate otherwise
      RotUp(h, x)   == Rotate(h, x, o)
      RotDown(h, x) == Rotate(h, x, d)
  IN  IF ~IsBlack(H, br)
        THEN BalanceBlackLeaf(RotUp(SetBlack(SetRed(H, p), br), p), b, p, fuel - 1)
      ELSE IF br = NULL THEN Fail(H, "segfault")
      ELSE IF ~IsBlack(H, far)
        THEN RotUp(SetBlack(SetBlack(Put(H, br, "black", IsBlack(H, p)), p), far), p)
      ELSE IF ~IsBlack(H, near)
        THEN LET h1 == SetBlack(Put(H, near, "black", IsBlack(H, p)), p)
             IN  RotUp(RotDown(h1, Get(h1, p, o)), p)
      ELSE LET h1 == SetRed(H, br)
           IN  IF ~IsBlack(h1, p) THEN SetBlack(h1, p)
               ELSE BalanceBlackLeaf(h1, p, IF d = "left" THEN Get(h1, p, "parent") ELSE p,
                                     fuel - 1)

BalanceAfterDelete(H, b, par, old) ==
  IF b = NULL /\ par = NULL THEN H
  ELSE IF ~IsBlack(H, old) THEN H
  ELSE IF ~IsBlack(H, b) THEN SetBlack(H, b)
  ELSE BalanceBlackLeaf(H, b, par, Fuel)

\* balance_after_delete(tmp, get_parent(current), current), the parent
\* read after the splice.
DeleteFixup(H, tmp, cur) == BalanceAfterDelete(H, tmp, Get(H, cur, "parent"), cur)

\* Lines 481-504: the block's only child tmp takes its slot; tmp's parent
\* link is reset only when the block was the root.
Splice(H, cur, tmp) ==
  IF Get(H, cur, "parent") # NULL
    THEN Put(H, Get(H, cur, "parent"), Slot(H, Get(H, cur, "parent"), cur), tmp)
  ELSE IF tmp # NULL THEN Put([H EXCEPT !.root = tmp], tmp, "parent", NULL)
  ELSE [H EXCEPT !.root = tmp]

Unhang(H, cur) ==
  DeleteFixup(Splice(H, cur, IF Get(H, cur, "left") = NULL THEN Get(H, cur, "right")
                                                        ELSE Get(H, cur, "left")),
              IF Get(H, cur, "left") = NULL THEN Get(H, cur, "right") ELSE Get(H, cur, "left"),
              cur)

Delete(H, b, size) ==
  LET f == Find(H, H.root, b, size, Fuel)
  IN  IF f.st # "ok" THEN Fail(H, f.st)
      ELSE IF Get(H, b, "left") # NULL /\ Get(H, b, "right") # NULL
        THEN Unhang(SwapWithPredecessor(H, b), b)
      ELSE Unhang(H, b)

=============================================================================

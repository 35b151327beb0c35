---------------------------- MODULE RedBlackTree ----------------------------
(***************************************************************************)
(* allocator_red_black_tree                                                *)
(* (src/allocator/allocator_red_black_tree/src/allocator_red_black_tree.cpp)*)
(* Every block is on one address-ordered list (prev, next) and free blocks *)
(* are also in a tree keyed by size (RBTreeOps).  Every public call holds  *)
(* the arena mutex for its whole duration, so each is one atomic step.     *)
(*                                                                         *)
(* Offsets are counted in cells from the start of the data area; a block  *)
(* header sits at its offset b and its payload starts at b + OccMeta.     *)
(* mem[b] is the header at b, whether or not b is still a block: a header *)
(* absorbed by a merge keeps its last contents.  The header's size field  *)
(* means two things in the code: the whole block for the initial block    *)
(* and for split remainders, the payload alone for a split-off allocation.*)
(***************************************************************************)
EXTENDS Integers, FiniteSets, Sequences, FiniteSetsExt, RBTreeOps

CONSTANTS
  Space,       \* space_size: cells of the data area
  OccMeta,     \* get_occupied_block_meta_size()
  AvailMeta,   \* get_available_block_meta_size()
  Requests,    \* set of <<value_size, values_count>> callers pass
  StaleFrees,  \* whether callers free pointers they already freed
  Outside      \* a pointer outside the arena

ASSUME OccMeta < AvailMeta /\ AvailMeta <= Space

FitModes == {"first_fit", "the_best_fit", "the_worst_fit"}

Cells == 0..(Space - 1)

VARIABLES
  mem,        \* header at every offset, and the null page
  root,       \* get_root_block()
  availSize,  \* get_allocator_data_size(): the "available" word
  fitMode,    \* get_fit_mode()
  held,       \* [at, len] of every region a caller holds
  released,   \* payloads callers have freed
  op,         \* the call just made
  ret         \* its outcome

vars == <<mem, root, availSize, fitMode, held, released, op, ret>>

NullHdr == [prev |-> NULL, next |-> NULL, size |-> 0, black |-> TRUE, occ |-> FALSE,
            parent |-> NULL, left |-> NULL, right |-> NULL]

\* Constructor, lines 51-98: one block spanning the data area, black, free,
\* alone in the tree.  The code writes every other header field it reads
\* before reading it, except the occupied flag of a split remainder that
\* enters an empty tree (see Allocate), so the other cells start as the
\* null header.
Init ==
  /\ mem = [x \in Cells \cup {NULL} |->
              IF x = 0 THEN [NullHdr EXCEPT !.size = Space] ELSE NullHdr]
  /\ root = 0
  /\ availSize = Space
  /\ fitMode \in FitModes
  /\ held = {}
  /\ released = {}
  /\ op = [kind |-> "none", arg |-> NULL]
  /\ ret = "ok"

\* A segfault, a hang or std::terminate ends the process.
Alive == ret \notin {"segfault", "hang", "abort"}

Heap == [m |-> mem, root |-> root, status |-> "ok"]

HeldAt == {r.at : r \in held}

Size(b) == mem[b].size

(***************************************************************************)
(* get_first_fit, get_best_fit, get_worst_fit.  All three read the root's *)
(* header before looking at the root, so an empty tree is a segfault.  A   *)
(* walk round a cycle of links returns Hung.                               *)
(***************************************************************************)
RECURSIVE RightWhile(_, _, _, _)
\* first fit: go right while the node is no bigger than the request
RightWhile(H, cur, size, fuel) ==
  IF cur = NULL \/ Get(H, cur, "size") > size THEN cur
  ELSE IF fuel = 0 THEN Hung
  ELSE RightWhile(H, Get(H, cur, "right"), size, fuel - 1)

RECURSIVE RightUntilFits(_, _, _, _)
\* best fit, first loop: go right while the node is smaller than the request
RightUntilFits(H, cur, size, fuel) ==
  IF Get(H, cur, "size") >= size THEN cur
  ELSE IF fuel = 0 THEN Hung
  ELSE IF Get(H, cur, "right") = NULL THEN NULL
  ELSE RightUntilFits(H, Get(H, cur, "right"), size, fuel - 1)

RECURSIVE LeftWhileFits(_, _, _, _)
\* best fit, second loop: go left while the left child still fits
LeftWhileFits(H, cur, size, fuel) ==
  LET l == Get(H, cur, "left")
  IN  IF l = NULL \/ Get(H, l, "size") < size THEN cur
      ELSE IF fuel = 0 THEN Hung
      ELSE LeftWhileFits(H, l, size, fuel - 1)

FitBlock(H, mode, size) ==
  CASE mode = "first_fit"     -> RightWhile(H, H.root, size, Fuel)
    [] mode = "the_worst_fit" -> LET r == Rightmost(H, H.root, Fuel)
                                 IN  IF r = Hung \/ Get(H, r, "size") >= size THEN r ELSE NULL
    [] mode = "the_best_fit"  -> LET c == RightUntilFits(H, H.root, size, Fuel)
                                 IN  IF c \in {NULL, Hung} THEN c ELSE LeftWhileFits(H, c, size, Fuel)

\* Mutant: the occupied header is not counted.
SizeToAllocNoHeader(n) == IF n < AvailMeta THEN AvailMeta ELSE n

\* Lines 213-219: payload plus occupied header, raised to a free header.
SizeToAlloc(n) == IF n + OccMeta < AvailMeta THEN AvailMeta ELSE n + OccMeta


\* if (x) get_prev(x) = p;
LinkPrev(H, x, p) == IF x # NULL THEN Put(H, x, "prev", p) ELSE H

\* Mutant: r's successor keeps pointing back at r.
AbsorbNoBackLink(H, l, r) ==
  IF ~Ok(H) THEN H
  ELSE Put(Put(H, l, "size", Get(H, l, "size") + Get(H, r, "size")),
           l, "next", Get(H, r, "next"))

\* l's size grows by r's, r's successor points back at l, l skips r.
Absorb(H, l, r) ==
  IF ~Ok(H) THEN H
  ELSE Put(LinkPrev(Put(H, l, "size", Get(H, l, "size") + Get(H, r, "size")),
                    Get(H, r, "next"), l),
           l, "next", Get(H, r, "next"))

\* Lines 817-840: the block l absorbs its right neighbour r, after the one
\* of them that is free and stays behind (inTree) is taken out of the tree.
Coalesce(H, l, r, inTree) ==
  Absorb(Delete(H, inTree, Get(H, inTree, "size")), l, r)

\* The outcome of a call that ran the heap operations ending in H.
Finish(H) ==
  LET F == Settle(H, NullHdr)
  IN  /\ mem' = F.m
      /\ root' = F.root
      /\ ret' = F.status

-----------------------------------------------------------------------------
(* allocate, lines 206-274.                                                 *)

\* The fit search dereferences the empty tree's null root.
AllocateNoTree(vs, vc) ==
  /\ Alive
  /\ op' = [kind |-> "allocate", arg |-> vs * vc]
  /\ root = NULL
  /\ ret' = "segfault"
  /\ UNCHANGED <<mem, root, availSize, fitMode, held, released>>

\* No block fits: logic_error, the same kind as a misuse.  A search that
\* goes round a cycle of corrupted links never returns.
AllocateNoFit(vs, vc) ==
  /\ Alive
  /\ op' = [kind |-> "allocate", arg |-> vs * vc]
  /\ root # NULL
  /\ FitBlock(Heap, fitMode, SizeToAlloc(vs * vc)) \in {NULL, Hung}
  /\ ret' = IF FitBlock(Heap, fitMode, SizeToAlloc(vs * vc)) = NULL THEN "logic_error" ELSE "hang"
  /\ UNCHANGED <<mem, root, availSize, fitMode, held, released>>

\* Take the block out of the tree, split off the remainder when it can hold
\* a free header (else take the whole block), put the remainder in the
\* tree, mark the block occupied.  The remainder's occupied flag is
\* whatever byte lies there (junk) when it enters an empty tree, because
\* insert_to_tree writes that flag only below an existing root.
\* The remainder nb = t + s becomes a block of real - s cells between t
\* and t's successor; its occupied byte is junk.
SplitOff(H, t, s, real, junk) ==
  IF ~Ok(H) THEN H
  ELSE Put(LinkPrev([H EXCEPT !.m[t + s].prev = t, !.m[t + s].next = Get(H, t, "next"),
                              !.m[t + s].size = real - s, !.m[t + s].occ = junk,
                              !.m[t].size = s - OccMeta],
                    Get(H, t, "next"), t + s),
           t, "next", t + s)

IndexRemainder(H, nb, size) == IF ~Ok(H) THEN H ELSE Insert(H, nb, size)

\* The chosen block is marked occupied.
Occupy(H, t) == IF ~Ok(H) THEN H ELSE Put(H, t, "occ", TRUE)

AllocateFit(vs, vc) ==
  /\ Alive
  /\ op' = [kind |-> "allocate", arg |-> vs * vc]
  /\ root # NULL
  /\ LET t    == FitBlock(Heap, fitMode, SizeToAlloc(vs * vc))
         real == Size(t)
         s0   == SizeToAlloc(vs * vc)
         s    == IF real - s0 # 0 /\ real - s0 < AvailMeta THEN real ELSE s0
     IN  /\ t \notin {NULL, Hung}
         /\ \E junk \in BOOLEAN :
              /\ Finish(Occupy(IF s < real
                                 THEN IndexRemainder(SplitOff(Delete(Heap, t, real), t, s, real, junk),
                                                     t + s, real - s)
                                 ELSE Delete(Heap, t, real),
                               t))
              /\ held' = IF ret' = "ok" THEN held \cup {[at |-> t + OccMeta, len |-> vs * vc]}
                         ELSE held
  /\ UNCHANGED <<availSize, fitMode, released>>

-----------------------------------------------------------------------------
(* deallocate, lines 799-846.                                               *)

\* Only the payload's range is checked; null is outside it.  The owner
\* word is loaded from at - OccMeta before the check; for null that load
\* faults unless the compiler drops it, as it may since it is unused.
DeallocateOutside(p) ==
  /\ Alive
  /\ op' = [kind |-> "deallocate", arg |-> p]
  /\ p \notin Cells
  /\ ret' \in IF p = NULL THEN {"logic_error", "segfault"} ELSE {"logic_error"}
  /\ UNCHANGED <<mem, root, availSize, fitMode, held, released>>

\* No owner or occupied check: merge with a free right neighbour, then with
\* a free left neighbour, and insert what results into the tree.
\* Mutant: line 844 uncommented, the free header's size added first.
IndexFreedWithMeta(H, blk) ==
  IF ~Ok(H) THEN H
  ELSE Insert(Put(H, blk, "size", Get(H, blk, "size") + AvailMeta), blk,
              Get(H, blk, "size") + AvailMeta)

\* The freed block, or the free block it merged into, enters the tree.
IndexFreed(H, blk) == IF ~Ok(H) THEN H ELSE Insert(H, blk, Get(H, blk, "size"))

\* Merge into a free left neighbour, then index the result.
MergeLeft(H, b) ==
  IF ~Ok(H) THEN H
  ELSE IF Get(H, b, "prev") # NULL /\ ~Get(H, Get(H, b, "prev"), "occ")
    THEN IndexFreed(Coalesce(H, Get(H, b, "prev"), b, Get(H, b, "prev")), Get(H, b, "prev"))
  ELSE IndexFreed(H, b)

DeallocateIn(p) ==
  /\ Alive
  /\ op' = [kind |-> "deallocate", arg |-> p]
  /\ p \in Cells
  /\ LET b  == p - OccMeta
         nb == mem[b].next
     IN  Finish(MergeLeft(IF nb # NULL /\ ~mem[nb].occ THEN Coalesce(Heap, b, nb, nb)
                          ELSE Heap,
                          b))
  /\ held' = {r \in held : r.at # p}
  /\ released' = released \cup {p}
  /\ UNCHANGED <<availSize, fitMode>>

\* set_fit_mode writes the mode word without taking the mutex.
SetFitMode(mode) ==
  /\ Alive
  /\ op' = [kind |-> "set_fit_mode", arg |-> mode]
  /\ fitMode' = mode
  /\ ret' = "ok"
  /\ UNCHANGED <<mem, root, availSize, held, released>>

\* get_blocks_info is noexcept and throws not_implemented: std::terminate.
GetBlocksInfo ==
  /\ Alive
  /\ op' = [kind |-> "get_blocks_info", arg |-> NULL]
  /\ ret' = "abort"
  /\ UNCHANGED <<mem, root, availSize, fitMode, held, released>>

-----------------------------------------------------------------------------
RECURSIVE ChainFrom(_, _)
ChainFrom(b, fuel) ==
  IF b = NULL \/ fuel = 0 THEN <<>> ELSE <<b>> \o ChainFrom(mem[b].next, fuel - 1)

\* The address-ordered block list, from the block at offset 0.
BlockList == ChainFrom(0, Space)

BlockSet == {BlockList[i] : i \in DOMAIN BlockList}

\* Payloads a caller may pass: those it holds, null, a foreign pointer and,
\* when StaleFrees, payloads it freed whose header is still a block's.
Pointers ==
  HeldAt \cup {NULL, Outside}
    \cup (IF StaleFrees THEN {p \in released : p - OccMeta \in BlockSet} ELSE {})

Next ==
  \/ \E r \in Requests : \/ AllocateNoTree(r[1], r[2])
                         \/ AllocateNoFit(r[1], r[2])
                         \/ AllocateFit(r[1], r[2])
  \/ \E p \in Pointers : DeallocateOutside(p)
  \/ \E p \in Pointers : DeallocateIn(p)
  \/ \E mode \in FitModes : SetFitMode(mode)
  \/ GetBlocksInfo

Spec == Init /\ [][Next]_vars


-----------------------------------------------------------------------------
RECURSIVE Subtree(_, _)
Subtree(x, fuel) ==
  IF x = NULL \/ fuel = 0 THEN {}
  ELSE {x} \cup Subtree(mem[x].left, fuel - 1) \cup Subtree(mem[x].right, fuel - 1)

\* The blocks the free index holds.
TreeNodes == Subtree(root, Fuel)

\* Where the block at position i of the list really ends.
BlockEnd(i) == IF i < Len(BlockList) THEN BlockList[i + 1] ELSE Space

HeldBlocks == {r.at - OccMeta : r \in held}

TypeOK ==
  /\ root \in Cells \cup {NULL}
  /\ availSize \in 0..Space
  /\ fitMode \in FitModes
  /\ \A r \in held : r.at \in Cells /\ r.len \in Nat
  /\ released \subseteq Cells
  /\ ret \in {"ok", "logic_error", "segfault", "hang", "abort"}
  /\ \A x \in Cells : /\ mem[x].size \in 0..Space
                      /\ mem[x].black \in BOOLEAN /\ mem[x].occ \in BOOLEAN
                      /\ {mem[x].prev, mem[x].next, mem[x].parent, mem[x].left,
                          mem[x].right} \subseteq Cells \cup {NULL}

\* The block list runs from offset 0 upwards to the end of the arena, its
\* prev links mirror its next links, and no header claims more cells than
\* lie before the next block: a size that overclaimed would let allocate
\* split a block past its neighbour's header.
BlockListWellFormed ==
  Alive =>
    /\ mem[0].prev = NULL
    /\ \A i \in 1..Len(BlockList) :
         /\ BlockList[i] < BlockEnd(i)
         /\ Size(BlockList[i]) <= BlockEnd(i) - BlockList[i]
         /\ i > 1 => mem[BlockList[i]].prev = BlockList[i - 1]
    /\ mem[BlockList[Len(BlockList)]].next = NULL

\* Every region a caller holds lies inside the data area, behind the
\* first block header.
HeldRegionsInArena ==
  \A r \in held : OccMeta <= r.at /\ r.at + r.len <= Space

\* No block a caller holds is in the free index, so allocate cannot hand
\* it out a second time.
HeldNotIndexed == Alive => TreeNodes \cap HeldBlocks = {}


\* Spec invariant 2: no two address-adjacent blocks are both free.  Free
\* means no caller holds it, whatever its occupied flag says.
Coalesced ==
  Alive =>
    \A i \in 1..(Len(BlockList) - 1) :
      BlockList[i] \in HeldBlocks \/ BlockList[i + 1] \in HeldBlocks

\* Spec invariant 1: the available word plus the cells of the occupied
\* blocks, headers included, is the capacity.
Accounting ==
  Alive =>
    availSize + MapThenSumSet(LAMBDA i : BlockEnd(i) - BlockList[i],
                              {i \in 1..Len(BlockList) : BlockList[i] \in HeldBlocks})
      = Space

\* The allocator implements the contract of class allocator: each call's
\* outcome is one the contract allows, and the live regions change as it says.
LiveRegions == {[start |-> r.at, len |-> r.len] : r \in held}

Contract == INSTANCE AllocatorContract WITH regions <- LiveRegions

ImplementsContract == Contract!Spec

=============================================================================

----------------------------- MODULE SortedList -----------------------------
(***************************************************************************)
(* The sorted-list allocator, class allocator_sorted_list                  *)
(* (src/allocator/allocator_sorted_list/src/allocator_sorted_list.cpp).    *)
(*                                                                         *)
(* The arena's data area is modelled cell by cell: mem[c] is the word      *)
(* stored at offset c from the start of the data area.  A block header is  *)
(* two words: the block size at b, and at b + Word either the next free    *)
(* block (free blocks) or the owning allocator (occupied blocks); the two  *)
(* fields share that word, exactly as get_next_block and                   *)
(* get_block_allocator read the same bytes.  Free blocks form a singly     *)
(* linked list from head in ascending address order.  Payload bytes are    *)
(* never written by the model: a word keeps whatever header was last       *)
(* written there, which is what a stale pointer reads.                     *)
(*                                                                         *)
(* Sizes are in cells and size_t arithmetic is taken modulo SizeMod, the   *)
(* modelled width of size_t.  The mutex is not modelled as a variable:     *)
(* every operation below runs entirely under std::lock_guard, so each is   *)
(* one atomic step (set_fit_mode takes no lock but writes a single word).  *)
(***************************************************************************)
EXTENDS Integers, Sequences, SequencesExt

CONSTANTS
  Space,      \* space_size: cells of the data area
  Word,       \* cells per size_t / pointer word (sizeof(void *))
  SizeMod,    \* 2^w: size_t arithmetic wraps modulo SizeMod
  Requests,   \* set of <<value_size, values_count>> the callers pass
  NULL,       \* nullptr
  Self,       \* this allocator instance (the value of `this`)
  Garbage,    \* contents of a word operator new never initialised
  Outside     \* a pointer that does not lie in the arena

ASSUME Word \in Nat \ {0}
ASSUME Space \in Nat /\ Space >= 2 * Word   \* the constructor throws otherwise
ASSUME SizeMod > Space + 2 * Word
ASSUME Requests \subseteq Nat \X Nat

FitModes == {"first_fit", "the_best_fit", "the_worst_fit"}

Cells == 0..(Space - 1)

\* get_block_meta_size: size_t + next pointer.
BlockMetaSize == 2 * Word
\* get_occupied_meta_size: size_t + allocator*.
OccupiedMetaSize == 2 * Word

VARIABLES
  mem,        \* [Cells -> word]: the data area
  head,       \* get_head_block(): first free block or NULL
  freeSpace,  \* get_free_space()
  fitMode,    \* get_fit_mode()
  issued,     \* payload pointers ever returned by allocate (caller history)
  op,         \* the call just made
  ret         \* its outcome

vars == <<mem, head, freeSpace, fitMode, issued, op, ret>>

WordValue == (0..(SizeMod - 1)) \cup {NULL, Self, Garbage}

(***************************************************************************)
(* Header accessors: get_block_size reads the word at b, get_next_block   *)
(* and get_block_allocator the word at b + Word.  A read outside the data  *)
(* area yields Garbage.                                                    *)
(***************************************************************************)
Read(m, a) == IF a \in Cells THEN m[a] ELSE Garbage

Write(m, a, v) == IF a \in Cells THEN [m EXCEPT ![a] = v] ELSE m

SizeOf(m, b) == IF Read(m, b) \in Nat THEN Read(m, b) ELSE 0

NextOf(m, b) == Read(m, b + Word)

\* The free list, followed from head; the walk is cut after Space blocks so
\* that a corrupted, cyclic list still yields a finite sequence.
FreeList ==
  LET RECURSIVE Chain(_, _)
      Chain(b, k) ==
        IF b \notin Cells \/ k = 0 THEN <<>>
        ELSE <<b>> \o Chain(NextOf(mem, b), k - 1)
  IN Chain(head, Space)

(***************************************************************************)
(* create_blocks_info: walk the data area from its start by block sizes;  *)
(* a block is free exactly when it is the next block of the free list.    *)
(***************************************************************************)
BlocksInfo ==
  LET RECURSIVE Walk(_, _, _)
      Walk(cur, avail, k) ==
        IF cur >= Space \/ k = 0 THEN <<>>
        ELSE LET size == SizeOf(mem, cur)
                 free == avail # NULL /\ cur = avail
             IN <<[at |-> cur, size |-> size, occupied |-> ~free]>>
                \o Walk(cur + size, IF free THEN NextOf(mem, avail) ELSE avail,
                        k - 1)
  IN Walk(0, head, Space + 1)

(***************************************************************************)
(* Fault variants of the helpers below, each the kind of slip the code    *)
(* could contain; they are used only to show that a property can fail.    *)
(***************************************************************************)
InitHeadUnset ==
  /\ mem = [c \in Cells |-> IF c = 0 THEN Space
                           ELSE IF c = Word THEN NULL ELSE Garbage]
  /\ head = Garbage
  /\ freeSpace = Space
  /\ fitMode \in FitModes
  /\ issued = {}
  /\ op = [kind |-> "none", arg |-> NULL]
  /\ ret = "ok"

BetterWorstReversed(fit, cs, bs, t, ts) ==
  /\ cs >= bs
  /\ \/ t = 0
     \/ fit = "the_best_fit" /\ cs < ts
     \/ fit = "the_worst_fit" /\ cs < ts

ScanPickSkipsLast(chain, bs, fit) ==
  LET RECURSIVE Go(_, _)
      Go(i, t) ==
        IF (fit = "first_fit" /\ t # 0) \/ i >= Len(chain) THEN t
        ELSE Go(i + 1,
                IF /\ SizeOf(mem, chain[i]) >= bs
                   /\ \/ t = 0
                      \/ fit = "the_best_fit" /\ SizeOf(mem, chain[i]) < SizeOf(mem, chain[t])
                      \/ fit = "the_worst_fit" /\ SizeOf(mem, chain[i]) > SizeOf(mem, chain[t])
                THEN i ELSE t)
  IN IF chain = <<>> THEN 0
     ELSE Go(2, IF SizeOf(mem, chain[1]) >= bs THEN 1 ELSE 0)

SplitRemainderWholeSize(m, target, bs, tsize) ==
  LET next == target + bs
  IN Write(Write(m, next + Word, NextOf(m, target)), next, tsize)

NotForeignNoOwnerCheck(p) ==
  p \in 0..(Space - 1)

CoalesceRightNever(m, ab, next) ==
  IF next # NULL THEN Write(m, ab + Word, next) ELSE Write(m, ab + Word, NULL)

CoalesceLeftNoGrow(m, prev, ab) ==
  IF prev # NULL
  THEN IF prev + SizeOf(m, prev) = ab
       THEN Write(m, prev + Word, Read(m, ab + Word))
       ELSE Write(m, prev + Word, ab)
  ELSE m

(***************************************************************************)
(* The constructor: one free block spanning the whole data area.          *)
(***************************************************************************)
Init ==
  /\ mem = [c \in Cells |-> IF c = 0 THEN Space
                           ELSE IF c = Word THEN NULL ELSE Garbage]
  /\ head = 0
  /\ freeSpace = Space
  /\ fitMode \in FitModes
  /\ issued = {}
  /\ op = [kind |-> "none", arg |-> NULL]
  /\ ret = "ok"

(***************************************************************************)
(* allocate                                                                *)
(***************************************************************************)

\* block_size = value_size * values_count + get_occupied_meta_size(), in
\* size_t arithmetic.
BlockSize(vs, vc) == (((vs * vc) % SizeMod) + OccupiedMetaSize) % SizeMod

\* The loop's test for replacing the current candidate.
Better(fit, cs, bs, t, ts) ==
  /\ cs >= bs
  /\ \/ t = 0
     \/ fit = "the_best_fit" /\ cs < ts
     \/ fit = "the_worst_fit" /\ cs > ts

\* Index in the free list of the block the scan settles on, 0 for none:
\* the head is tested first, then the loop walks on unless first_fit has
\* already found a candidate.
ScanPick(chain, bs, fit) ==
  LET RECURSIVE Go(_, _)
      Go(i, t) ==
        IF (fit = "first_fit" /\ t # 0) \/ i > Len(chain) THEN t
        ELSE Go(i + 1,
                IF Better(fit, SizeOf(mem, chain[i]), bs, t,
                          IF t = 0 THEN 0 ELSE SizeOf(mem, chain[t]))
                THEN i ELSE t)
  IN IF chain = <<>> THEN 0
     ELSE Go(2, IF SizeOf(mem, chain[1]) >= bs THEN 1 ELSE 0)

\* The block is handed out whole when what would be left over could not
\* hold an occupied header.
MustTakeWhole(bs, tsize) == (bs + OccupiedMetaSize) % SizeMod > tsize

\* Carve the remainder block right after the first bs cells.
SplitRemainder(m, target, bs, tsize) ==
  LET next == target + bs
  IN Write(Write(m, next + Word, NextOf(m, target)), next,
           (tsize - bs) % SizeMod)

\* Unlink the target: its predecessor (or head) now points at next.
LinkPrev(m, prev, next) ==
  IF prev # NULL THEN Write(m, prev + Word, next) ELSE m

AllocateNoSpace(vs, vc) ==
  /\ ScanPick(FreeList, BlockSize(vs, vc), fitMode) = 0
  /\ op' = [kind |-> "allocate", arg |-> vs * vc]
  /\ ret' = "bad_alloc"
  /\ UNCHANGED <<mem, head, freeSpace, fitMode, issued>>

\* Successful allocation; `whole` selects between the two branches of the
\* code (hand out the whole block, or split off a free remainder).
AllocateFrom(vs, vc, whole) ==
  LET chain  == FreeList
      bs     == BlockSize(vs, vc)
      t      == ScanPick(chain, bs, fitMode)
      target == chain[t]
      prev   == IF t = 1 THEN NULL ELSE chain[t - 1]
      tsize  == SizeOf(mem, target)
      next   == IF whole THEN NextOf(mem, target) ELSE target + bs
      size   == IF whole THEN tsize ELSE bs
      m1     == IF whole THEN mem ELSE SplitRemainder(mem, target, bs, tsize)
      m2     == LinkPrev(m1, prev, next)
  IN /\ t # 0
     /\ MustTakeWhole(bs, tsize) = whole
     /\ mem' = Write(Write(m2, target, size), target + Word, Self)
     /\ head' = IF prev = NULL THEN next ELSE head
     /\ freeSpace' = (freeSpace - size) % SizeMod
     /\ issued' = issued \cup {target + OccupiedMetaSize}
     /\ op' = [kind |-> "allocate", arg |-> vs * vc]
     /\ ret' = "ok"
     /\ UNCHANGED fitMode

AllocateSplit(vs, vc) == AllocateFrom(vs, vc, FALSE)

AllocateWhole(vs, vc) == AllocateFrom(vs, vc, TRUE)

(***************************************************************************)
(* deallocate                                                              *)
(***************************************************************************)

\* The guard that throws logic_error: p out of [begin, end) of the data
\* area, or the owner word of the header in front of p not this allocator.
Foreign(p) ==
  ~(p \in Cells /\ Read(mem, p - OccupiedMetaSize + Word) = Self)

NotForeign(p) == ~Foreign(p)

\* Free-list neighbours of p: prev is the last free block below p, next the
\* first one that is not.
DeallocPosition(p) ==
  LET chain == FreeList
      i     == SelectInSeq(chain, LAMBDA b : ~(b < p))
  IN IF i = 0 THEN <<IF chain = <<>> THEN NULL ELSE Last(chain), NULL>>
     ELSE <<IF i = 1 THEN NULL ELSE chain[i - 1], chain[i]>>

\* Link the freed block to next, absorbing next when they touch.
CoalesceRight(m, ab, next) ==
  IF next # NULL
  THEN IF ab + SizeOf(m, ab) = next
       THEN LET m1 == Write(m, ab, (SizeOf(m, ab) + SizeOf(m, next)) % SizeMod)
            IN Write(m1, ab + Word, NextOf(m1, next))
       ELSE Write(m, ab + Word, next)
  ELSE Write(m, ab + Word, NULL)

\* Link prev to the freed block, prev absorbing it when they touch.
CoalesceLeft(m, prev, ab) ==
  IF prev # NULL
  THEN IF prev + SizeOf(m, prev) = ab
       THEN LET m1 == Write(m, prev, (SizeOf(m, prev) + SizeOf(m, ab)) % SizeMod)
            IN Write(m1, prev + Word, NextOf(m1, ab))
       ELSE Write(m, prev + Word, ab)
  ELSE m

DeallocateNull ==
  /\ op' = [kind |-> "deallocate", arg |-> NULL]
  /\ ret' = "ok"
  /\ UNCHANGED <<mem, head, freeSpace, fitMode, issued>>

DeallocateRejected(p) ==
  /\ p # NULL
  /\ Foreign(p)
  /\ op' = [kind |-> "deallocate", arg |-> p]
  /\ ret' = "logic_error"
  /\ UNCHANGED <<mem, head, freeSpace, fitMode, issued>>

DeallocateOk(p) ==
  LET ab   == p - OccupiedMetaSize
      size == SizeOf(mem, ab)
      pos  == DeallocPosition(p)
      prev == pos[1]
      next == pos[2]
  IN /\ p # NULL
     /\ NotForeign(p)
     /\ mem' = CoalesceLeft(CoalesceRight(mem, ab, next), prev, ab)
     /\ head' = IF prev = NULL THEN ab ELSE head
     /\ freeSpace' = (freeSpace + size) % SizeMod
     /\ op' = [kind |-> "deallocate", arg |-> p]
     /\ ret' = "ok"
     /\ UNCHANGED <<fitMode, issued>>

(***************************************************************************)
(* set_fit_mode                                                            *)
(***************************************************************************)
SetFitMode(f) ==
  /\ fitMode' = f
  /\ op' = [kind |-> "set_fit_mode", arg |-> f]
  /\ ret' = "ok"
  /\ UNCHANGED <<mem, head, freeSpace, issued>>

\* Pointers a caller may pass to deallocate: whatever it was ever given,
\* nullptr, and a pointer into some other memory.
Pointers == issued \cup {NULL, Outside}

Next ==
  \/ \E r \in Requests :
       \/ AllocateNoSpace(r[1], r[2])
       \/ AllocateSplit(r[1], r[2])
       \/ AllocateWhole(r[1], r[2])
  \/ DeallocateNull
  \/ \E p \in Pointers \ {NULL} :
       \/ DeallocateRejected(p)
       \/ DeallocateOk(p)
  \/ \E f \in FitModes : SetFitMode(f)

Spec == Init /\ [][Next]_vars

(***************************************************************************)
(* Properties                                                              *)
(***************************************************************************)

TypeOK ==
  /\ mem \in [Cells -> WordValue]
  /\ head \in Cells \cup {NULL}
  /\ freeSpace \in 0..Space
  /\ fitMode \in FitModes
  /\ issued \subseteq 0..Space
  /\ ret \in {"ok", "bad_alloc", "logic_error"}

FreeBlocks == SelectSeq(BlocksInfo, LAMBDA b : ~b.occupied)

OccupiedBlocks == SelectSeq(BlocksInfo, LAMBDA b : b.occupied)

SumSizes(s) == FoldLeft(LAMBDA acc, b : acc + b.size, 0, s)

\* The header chain written by allocate and deallocate stays a partition
\* of the arena: walking create_blocks_info from the start by block sizes
\* lands exactly on the end, every block can hold its header, and the free
\* list reached from head is exactly the free blocks of that walk, in
\* address order, ending in nullptr.  A wrong split offset, a lost link or
\* a merge that forgets a size breaks it only after several calls.
ArenaWellFormed ==
  LET bi == BlocksInfo
  IN /\ bi # <<>>
     /\ Last(bi).at + Last(bi).size = Space
     /\ \A i \in 1..Len(bi) : bi[i].size >= BlockMetaSize
     /\ FreeList = [i \in 1..Len(FreeBlocks) |-> FreeBlocks[i].at]
     /\ FreeList # <<>> => NextOf(mem, Last(FreeList)) = NULL

\* The available-size counter that allocate decrements and deallocate
\* increments equals the space of the free blocks, and the occupied blocks
\* account for the rest (spec invariant 1).
Accounting ==
  /\ freeSpace = SumSizes(FreeBlocks)
  /\ freeSpace + SumSizes(OccupiedBlocks) = Space

\* deallocate merges with both neighbours: no two address-adjacent blocks
\* are both free (spec invariant 2).
Coalesced ==
  LET bi == BlocksInfo
  IN \A i \in 1..(Len(bi) - 1) : ~(~bi[i].occupied /\ ~bi[i + 1].occupied)

\* Size of the block a request of n cells needs, computed from the
\* request as the spec states it.
Needed(n) == ((n % SizeMod) + OccupiedMetaSize) % SizeMod

\* allocate fails with bad_alloc only when no free block of the arena is
\* large enough for the request.
NoSpuriousExhaustion ==
  [][ (op'.kind = "allocate" /\ ret' = "bad_alloc")
        => \A i \in 1..Len(FreeBlocks) : FreeBlocks[i].size < Needed(op'.arg)
    ]_vars

\* The block a successful allocate takes is the one the fit mode in force
\* names: first_fit the lowest-addressed free block that is large enough,
\* the_best_fit one of the smallest such blocks, the_worst_fit one of the
\* largest (spec section 4.1).
FitModeHonoured ==
  [][ (op'.kind = "allocate" /\ ret' = "ok")
        => LET bs    == Needed(op'.arg)
               fits  == {b \in ToSet(FreeList) : SizeOf(mem, b) >= bs}
               taken == ToSet(FreeList) \ ToSet(FreeList')
           IN \A t \in taken :
                /\ t \in fits
                /\ fitMode = "first_fit" => \A f \in fits : t <= f
                /\ fitMode = "the_best_fit" =>
                     \A f \in fits : SizeOf(mem, t) <= SizeOf(mem, f)
                /\ fitMode = "the_worst_fit" =>
                     \A f \in fits : SizeOf(mem, t) >= SizeOf(mem, f)
    ]_vars

(***************************************************************************)
(* Refinement: the payloads of the occupied blocks are the live regions  *)
(* of the allocator contract.                                              *)
(***************************************************************************)
LiveRegions ==
  {[start |-> OccupiedBlocks[i].at + OccupiedMetaSize,
    len   |-> OccupiedBlocks[i].size - OccupiedMetaSize] :
     i \in 1..Len(OccupiedBlocks)}

Contract == INSTANCE AllocatorContract WITH regions <- LiveRegions

\* Every call behaves as the contract says: allocations are fresh,
\* disjoint, inside the arena and large enough; deallocate releases exactly
\* the region it is given and rejects every pointer that is not live.
ImplementsContract == Contract!Spec

=============================================================================

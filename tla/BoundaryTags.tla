---------------------------- MODULE BoundaryTags ----------------------------
(***************************************************************************)
(* The boundary-tag allocator, class allocator_boundary_tags               *)
(* (src/allocator/allocator_boundary_tags/src/allocator_boundary_tags.cpp).*)
(*                                                                         *)
(* Only occupied blocks are linked, in a doubly linked list in address    *)
(* order; free space is the gaps between them.  A block is identified by  *)
(* its payload pointer b; its header is the four words in front of it:    *)
(* data size at b - 4 Word, owner at b - 3 Word, prev at b - 2 Word, next *)
(* at b - Word.  mem[c] is the word at offset c of the data area, as in   *)
(* SortedList; payload words are never written, so a header keeps its    *)
(* contents after the block is released.                                  *)
(*                                                                         *)
(* Each public operation runs under std::lock_guard and is one step.      *)
(* allocate re-reads the fit mode on every iteration of its scan while    *)
(* set_fit_mode writes it without the lock.  With RacyFitMode, each read  *)
(* may see any mode another thread stored meanwhile; the step then takes *)
(* any gap that some sequence of reads makes the scan settle on.          *)
(***************************************************************************)
EXTENDS Integers, Sequences, SequencesExt

CONSTANTS
  Space,      \* space_size: cells of the data area
  Word,       \* cells per size_t / pointer word
  SizeMod,    \* 2^w: size_t arithmetic wraps modulo SizeMod
  Requests,   \* set of <<value_size, values_count>> the callers pass
  StaleFrees, \* TRUE: callers may pass a pointer they already released
  RacyFitMode,\* TRUE: set_fit_mode may run on another thread during a scan
  NULL, Self, Garbage, Outside

ASSUME Word \in Nat \ {0}
ASSUME Space \in Nat /\ Space >= 4 * Word   \* the constructor throws otherwise
ASSUME SizeMod > Space + 4 * Word
ASSUME Requests \subseteq Nat \X Nat
ASSUME StaleFrees \in BOOLEAN
ASSUME RacyFitMode \in BOOLEAN

FitModes == {"first_fit", "the_best_fit", "the_worst_fit"}

Cells == 0..(Space - 1)

\* get_block_meta_size: size_t + allocator* + prev + next.
BlockMetaSize == 4 * Word

VARIABLES
  mem,        \* [Cells -> word]: the data area
  head,       \* get_head_block(): first occupied block (payload) or NULL
  availSize,  \* get_allctr_avail_size()
  fitMode,    \* get_fit_mode()
  issued,     \* payload pointers ever returned by allocate
  op,         \* the call just made
  ret,        \* its outcome
  raced       \* auxiliary: the last allocate took a gap the stored mode does not name

vars == <<mem, head, availSize, fitMode, issued, op, ret, raced>>

WordValue == (0..(SizeMod - 1)) \cup {NULL, Self, Garbage}

Read(m, a) == IF a \in Cells THEN m[a] ELSE Garbage

Write(m, a, v) == IF a \in Cells THEN [m EXCEPT ![a] = v] ELSE m

AsSize(v) == IF v \in Nat THEN v ELSE 0

\* get_block_data_size, get_block_allctr, get_prev_block, get_next_block.
DataSize(m, b) == AsSize(Read(m, b - 4 * Word))
OwnerOf(m, b)  == Read(m, b - 3 * Word)
PrevOf(m, b)   == Read(m, b - 2 * Word)
NextOf(m, b)   == Read(m, b - Word)

\* Where a payload pointer can lie: right after a header, up to the end of
\* the data area (a zero-size block there has its payload at the end).
Payloads == BlockMetaSize..Space

\* The occupied list from head, cut after Space blocks.
OccList ==
  LET RECURSIVE Chain(_, _)
      Chain(b, k) ==
        IF b \notin Payloads \/ k = 0 THEN <<>>
        ELSE <<b>> \o Chain(NextOf(mem, b), k - 1)
  IN Chain(head, Space)

(***************************************************************************)
(* The gaps allocate scans, in its order: the gap before head, then the   *)
(* gap after each occupied block.  start is the gap's first cell, size    *)
(* its width in size_t arithmetic, prev the occupied block in front.      *)
(***************************************************************************)
Gaps ==
  LET occ == OccList
      RBorder(i) == IF NextOf(mem, occ[i]) = NULL THEN Space
                    ELSE AsSize(NextOf(mem, occ[i])) - BlockMetaSize
      LBorder(i) == occ[i] + DataSize(mem, occ[i])
  IN <<[start |-> 0,
        size  |-> IF head = NULL THEN Space ELSE (head - BlockMetaSize) % SizeMod,
        prev  |-> NULL]>>
     \o [i \in 1..Len(occ) |->
           [start |-> LBorder(i),
            size  |-> (RBorder(i) - LBorder(i)) % SizeMod,
            prev  |-> occ[i]]]

\* create_blocks_info: a free entry for every nonempty gap and an occupied
\* entry (header included) for every block, left to right.
BlocksInfo ==
  LET occ == OccList
      g   == Gaps
      FreeEntry(i) == IF g[i].size = 0 THEN <<>>
                      ELSE <<[at |-> g[i].start, size |-> g[i].size,
                              occupied |-> FALSE]>>
  IN FreeEntry(1)
     \o FlattenSeq([i \in 1..Len(occ) |->
          <<[at |-> occ[i] - BlockMetaSize,
             size |-> BlockMetaSize + DataSize(mem, occ[i]),
             occupied |-> TRUE]>> \o FreeEntry(i + 1)])

(***************************************************************************)
(* Fault variants of the helpers below, used only to show that each       *)
(* property can fail.                                                      *)
(***************************************************************************)
UnlinkNoBackLink(m, prev, next) ==
  IF prev = NULL THEN m ELSE Write(m, prev - Word, next)

ScanPickFirstGapOnly(g, cmn, fit) ==
  IF g[1].size >= cmn THEN 1 ELSE 0

BetterBestReversed(fit, size, cmn, t, tsize) ==
  /\ size >= cmn
  /\ \/ t = 0
     \/ fit = "the_best_fit" /\ (size - cmn) % SizeMod > (tsize - cmn) % SizeMod
     \/ fit = "the_worst_fit" /\ (size - cmn) % SizeMod > (tsize - cmn) % SizeMod

ReleasedSizeNoMeta(m, p) == DataSize(m, p)

CommonSizeNoMeta(vs, vc) == (vs * vc) % SizeMod

InitHeadGarbage ==
  /\ mem = [c \in Cells |-> Garbage]
  /\ head = Garbage
  /\ availSize = Space
  /\ fitMode \in FitModes
  /\ issued = {}
  /\ op = [kind |-> "none", arg |-> NULL]
  /\ ret = "ok"
  /\ raced = FALSE

(***************************************************************************)
(* The constructor: no occupied block.                                    *)
(***************************************************************************)
Init ==
  /\ mem = [c \in Cells |-> Garbage]
  /\ head = NULL
  /\ availSize = Space
  /\ fitMode \in FitModes
  /\ issued = {}
  /\ op = [kind |-> "none", arg |-> NULL]
  /\ ret = "ok"
  /\ raced = FALSE

(***************************************************************************)
(* allocate                                                                *)
(***************************************************************************)

\* cmn_size = value_size * values_count + get_block_meta_size().
CommonSize(vs, vc) == (((vs * vc) % SizeMod) + BlockMetaSize) % SizeMod

\* The loop's test for replacing the current candidate gap.
Better(fit, size, cmn, t, tsize) ==
  /\ size >= cmn
  /\ \/ t = 0
     \/ fit = "the_best_fit" /\ (size - cmn) % SizeMod < (tsize - cmn) % SizeMod
     \/ fit = "the_worst_fit" /\ (size - cmn) % SizeMod > (tsize - cmn) % SizeMod

\* Index of the gap the scan settles on, 0 for none: the gap before head
\* is tested first; the loop stops early once first_fit has a candidate.
ScanPick(g, cmn, fit) ==
  LET RECURSIVE Go(_, _)
      Go(i, t) ==
        IF (fit = "first_fit" /\ t # 0) \/ i > Len(g) THEN t
        ELSE Go(i + 1, IF Better(fit, g[i].size, cmn, t,
                                 IF t = 0 THEN 0 ELSE g[t].size)
                       THEN i ELSE t)
  IN Go(2, IF g[1].size >= cmn THEN 1 ELSE 0)

(***************************************************************************)
(* The same loop when every get_fit_mode() may return a different mode:   *)
(* the first_fit test may stop it once there is a candidate, and a gap    *)
(* that fits may replace the candidate when its leftover is smaller (a    *)
(* the_best_fit read) or larger (a the_worst_fit read), or be passed over *)
(* (a first_fit read).  The set of indices the loop can settle on.        *)
(***************************************************************************)
RacyPicks(g, cmn) ==
  LET Leftover(i) == (g[i].size - cmn) % SizeMod
      Step(i, t) ==
        IF g[i].size < cmn THEN {t}
        ELSE IF t = 0 THEN {i}
        ELSE {t} \cup (IF Leftover(i) # Leftover(t) THEN {i} ELSE {})
      RECURSIVE Go(_, _)
      Go(i, t) ==
        IF i > Len(g) THEN {t}
        ELSE (IF t # 0 THEN {t} ELSE {}) \cup UNION {Go(i + 1, u) : u \in Step(i, t)}
  IN Go(2, IF g[1].size >= cmn THEN 1 ELSE 0)

\* The gaps allocate may take: the one the stored mode names and, with a
\* racing set_fit_mode, any other the reads allow.
Picks(g, cmn) ==
  {ScanPick(g, cmn, fitMode)} \cup (IF RacyFitMode THEN RacyPicks(g, cmn) ELSE {})

\* The request is enlarged to the whole gap when the leftover could not
\* hold a header.
MustEnlarge(tsize, cmn) == (tsize - cmn) % SizeMod < BlockMetaSize

AllocateNoSpace(vs, vc) ==
  /\ 0 \in Picks(Gaps, CommonSize(vs, vc))
  /\ op' = [kind |-> "allocate", arg |-> vs * vc]
  /\ ret' = "bad_alloc"
  /\ raced' = FALSE
  /\ UNCHANGED <<mem, head, availSize, fitMode, issued>>

\* Successful allocation in gap t; `enlarge` selects the branch that hands
\* out the whole gap.  A racing writer's stores are SetFitMode steps before
\* or after this one: the mode a scan saw in passing need not stay stored.
AllocateAt(vs, vc, enlarge, t) ==
  LET g      == Gaps
      cmn0   == CommonSize(vs, vc)
      tsize  == g[t].size
      prev   == g[t].prev
      target == g[t].start + BlockMetaSize
      req    == IF enlarge THEN (tsize - BlockMetaSize) % SizeMod
                ELSE (vs * vc) % SizeMod
      cmn    == IF enlarge THEN tsize ELSE cmn0
      tnext  == IF prev # NULL THEN NextOf(mem, prev) ELSE head
      m1     == IF prev # NULL THEN Write(mem, prev - Word, target) ELSE mem
      m2     == IF tnext # NULL THEN Write(m1, tnext - 2 * Word, target) ELSE m1
      m3     == Write(Write(Write(Write(m2,
                  target - 4 * Word, req),
                  target - 3 * Word, Self),
                  target - 2 * Word, prev),
                  target - Word, tnext)
  IN /\ t # 0
     /\ MustEnlarge(tsize, cmn0) = enlarge
     /\ mem' = m3
     /\ head' = IF head = NULL \/ head = tnext THEN target ELSE head
     /\ availSize' = (availSize - cmn) % SizeMod
     /\ issued' = issued \cup {target}
     /\ op' = [kind |-> "allocate", arg |-> vs * vc]
     /\ ret' = "ok"
     /\ raced' = (t # ScanPick(g, cmn0, fitMode))
     /\ UNCHANGED fitMode

AllocateIn(vs, vc, enlarge) ==
  \E t \in Picks(Gaps, CommonSize(vs, vc)) : AllocateAt(vs, vc, enlarge, t)

AllocateFit(vs, vc) == AllocateIn(vs, vc, FALSE)

AllocateEnlarged(vs, vc) == AllocateIn(vs, vc, TRUE)

(***************************************************************************)
(* deallocate                                                              *)
(***************************************************************************)

\* The guard that throws logic_error.
Foreign(p) == ~(p \in Cells /\ OwnerOf(mem, p) = Self)

\* Splice the block out of the occupied list.
Unlink(m, prev, next) ==
  LET m1 == IF prev = NULL THEN m ELSE Write(m, prev - Word, next)
  IN IF next # NULL THEN Write(m1, next - 2 * Word, prev) ELSE m1

\* What deallocate gives back to the available size.
ReleasedSize(m, p) == BlockMetaSize + DataSize(m, p)

DeallocateNull ==
  /\ op' = [kind |-> "deallocate", arg |-> NULL]
  /\ ret' = "ok"
  /\ raced' = FALSE
  /\ UNCHANGED <<mem, head, availSize, fitMode, issued>>

DeallocateRejected(p) ==
  /\ p # NULL
  /\ Foreign(p)
  /\ op' = [kind |-> "deallocate", arg |-> p]
  /\ ret' = "logic_error"
  /\ raced' = FALSE
  /\ UNCHANGED <<mem, head, availSize, fitMode, issued>>

DeallocateOk(p) ==
  LET prev == PrevOf(mem, p)
      next == NextOf(mem, p)
  IN /\ p # NULL
     /\ ~Foreign(p)
     /\ mem' = Unlink(mem, prev, next)
     /\ head' = IF prev = NULL THEN next ELSE head
     /\ availSize' = (availSize + ReleasedSize(mem, p)) % SizeMod
     /\ op' = [kind |-> "deallocate", arg |-> p]
     /\ ret' = "ok"
     /\ raced' = FALSE
     /\ UNCHANGED <<fitMode, issued>>

SetFitMode(f) ==
  /\ fitMode' = f
  /\ op' = [kind |-> "set_fit_mode", arg |-> f]
  /\ ret' = "ok"
  /\ raced' = FALSE
  /\ UNCHANGED <<mem, head, availSize, issued>>

\* Pointers a caller passes to deallocate: the blocks it holds, nullptr, a
\* pointer into other memory and, with StaleFrees, blocks it has already
\* given back.
Pointers ==
  (IF StaleFrees THEN issued ELSE ToSet(OccList)) \cup {NULL, Outside}

Next ==
  \/ \E r \in Requests :
       \/ AllocateNoSpace(r[1], r[2])
       \/ AllocateFit(r[1], r[2])
       \/ AllocateEnlarged(r[1], r[2])
  \/ DeallocateNull
  \/ \E p \in Pointers \ {NULL} :
       \/ DeallocateRejected(p)
       \/ DeallocateOk(p)
  \/ \E f \in FitModes : SetFitMode(f)

Spec == Init /\ [][Next]_vars

(***************************************************************************)
(* Properties                                                              *)
(***************************************************************************)

TypeOK ==
  /\ mem \in [Cells -> WordValue]
  /\ head \in Payloads \cup {NULL}
  /\ availSize \in 0..Space
  /\ fitMode \in FitModes
  /\ issued \subseteq Payloads
  /\ ret \in {"ok", "bad_alloc", "logic_error"}
  /\ raced \in BOOLEAN

FreeBlocks == SelectSeq(BlocksInfo, LAMBDA b : ~b.occupied)

OccupiedBlocks == SelectSeq(BlocksInfo, LAMBDA b : b.occupied)

SumSizes(s) == FoldLeft(LAMBDA acc, b : acc + b.size, 0, s)

\* The occupied list that allocate splices into and deallocate splices out
\* of stays a doubly linked list in address order whose blocks, with the
\* gaps create_blocks_info computes between them, tile the arena: each
\* entry starts where the previous one ends and the last ends at the end;
\* every prev link mirrors a next link, head has no prev, the last block
\* has no next, and every listed block carries this allocator as owner.
\* A back link left stale by one call misroutes a later gap computation.
ArenaWellFormed ==
  LET occ == OccList
      bi  == BlocksInfo
  IN /\ occ # <<>> => NextOf(mem, Last(occ)) = NULL
     /\ occ # <<>> => PrevOf(mem, occ[1]) = NULL
     /\ \A i \in 1..(Len(occ) - 1) : PrevOf(mem, occ[i + 1]) = occ[i]
     /\ \A i \in 1..Len(occ) : OwnerOf(mem, occ[i]) = Self
     /\ \A i \in 1..Len(bi) :
          bi[i].at = SumSizes(SubSeq(bi, 1, i - 1))
     /\ SumSizes(bi) = Space

\* The available size allocate decrements by cmn_size and deallocate
\* increments by meta + data size equals the space the gaps leave free
\* (spec invariant 1), the enlarged requests included.
Accounting ==
  /\ availSize = SumSizes(FreeBlocks)
  /\ availSize + SumSizes(OccupiedBlocks) = Space

\* Size a request of n cells needs, header included.
Needed(n) == n + BlockMetaSize

\* allocate fails with bad_alloc only when no gap of the arena is large
\* enough for the request and its header.
NoSpuriousExhaustion ==
  [][ (op'.kind = "allocate" /\ ret' = "bad_alloc")
        => \A i \in 1..Len(Gaps) : Gaps[i].size < Needed(op'.arg)
    ]_vars

\* The gap a successful allocate fills is the one the fit mode in force
\* names: first_fit the lowest-addressed gap that is large enough,
\* the_best_fit the lowest-addressed of the smallest such gaps,
\* the_worst_fit the lowest-addressed of the largest (spec section 4.1).
\* An allocate whose scan read a mode a racing set_fit_mode stored in
\* passing is exempt: no single mode is in force during it.
FitModeHonoured ==
  [][ (op'.kind = "allocate" /\ ret' = "ok" /\ ~raced')
        => LET fits == {g \in ToSet(Gaps) : g.size >= Needed(op'.arg)}
               new  == ToSet(OccList') \ ToSet(OccList)
           IN \A b \in new : \E t \in fits :
                /\ t.start + BlockMetaSize = b
                /\ \A f \in fits :
                     /\ fitMode = "first_fit" => t.start <= f.start
                     /\ fitMode = "the_best_fit" =>
                          \/ t.size < f.size
                          \/ t.size = f.size /\ t.start <= f.start
                     /\ fitMode = "the_worst_fit" =>
                          \/ t.size > f.size
                          \/ t.size = f.size /\ t.start <= f.start
    ]_vars

(***************************************************************************)
(* Refinement: the payloads of the listed blocks are the live regions of  *)
(* the allocator contract.                                                 *)
(***************************************************************************)
LiveRegions ==
  {[start |-> b, len |-> DataSize(mem, b)] : b \in ToSet(OccList)}

Contract == INSTANCE AllocatorContract WITH regions <- LiveRegions

\* Every call behaves as the contract says: allocations are fresh,
\* disjoint, inside the arena and large enough; deallocate releases exactly
\* the region it is given and rejects every pointer that is not live, a
\* pointer already released included (spec section 7).
ImplementsContract == Contract!Spec

=============================================================================

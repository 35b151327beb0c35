---------------------------- MODULE BuddySystem -----------------------------
(***************************************************************************)
(* The buddy-system allocator, class allocator_buddies_system              *)
(* (src/allocator/allocator_buddies_system/src/allocator_buddies_system.cpp)*)
(*                                                                         *)
(* The data area has 2^SpacePower cells (one cell per byte).  A block at  *)
(* offset b starts with one byte: its power in the low 7 bits and the     *)
(* occupied flag in bit 7.  A free block continues with prev and next     *)
(* pointers of the free list; an occupied block with its owner, which     *)
(* shares the cell of prev.  Payload cells are never written.             *)
(*                                                                         *)
(* Every operation holds the mutex and is one step.  allocate reads the   *)
(* fit mode once, under the lock.  A write through nullptr kills the      *)
(* process: ret becomes "segfault" and nothing happens afterwards.        *)
(***************************************************************************)
EXTENDS Integers, Sequences, SequencesExt, Bitwise

CONSTANTS
  SpacePower, \* space_size: the arena has 2^SpacePower cells
  Word,       \* cells per pointer
  Requests,   \* set of <<value_size, values_count>> the callers pass
  StaleFrees, \* TRUE: callers may pass a pointer they already released
  NULL, Self, Garbage, Outside

ASSUME SpacePower \in 1..7
ASSUME Word \in Nat \ {0}
ASSUME Requests \subseteq (Nat \ {0}) \X (Nat \ {0})
ASSUME StaleFrees \in BOOLEAN

FitModes == {"first_fit", "the_best_fit", "the_worst_fit"}

ArenaSize == 2 ^ SpacePower

Cells == 0..(ArenaSize - 1)

\* get_available_block_meta_size: power byte + prev + next.
AvailableMetaSize == 1 + 2 * Word

\* get_occupied_block_meta_size: power byte + allocator*.
OccupiedMetaSize == 1 + Word

VARIABLES
  mem,        \* [Cells -> cell]: the data area
  first,      \* get_first_available_block(): head of the free list or NULL
  availSize,  \* get_allocator_available_size()
  fitMode,    \* get_fit_mode()
  held,       \* payload pointers the callers hold
  released,   \* payload pointers the callers have given back
  op,         \* the call just made
  ret         \* its outcome; "segfault" once the process has died

vars == <<mem, first, availSize, fitMode, held, released, op, ret>>

Read(m, a) == IF a \in Cells THEN m[a] ELSE Garbage

Write(m, a, v) == IF a \in Cells THEN [m EXCEPT ![a] = v] ELSE m

ByteOf(m, b) == IF Read(m, b) \in 0..255 THEN Read(m, b) ELSE 0

\* get_block_data_size (byte & 127), block_is_occupied (byte >> 7).
Power(m, b)    == ByteOf(m, b) % 128
Occupied(m, b) == ByteOf(m, b) \div 128 = 1

\* set_block_size, avail_block, occupy_block.
SetPower(m, b, p) == Write(m, b, p)
MarkAvail(m, b)   == Write(m, b, ByteOf(m, b) % 128)
MarkOccupied(m, b) == Write(m, b, (ByteOf(m, b) % 128) + 128)

\* get_prev_available_block / get_block_allocator share one word.
PrevOf(m, b)  == Read(m, b + 1)
OwnerOf(m, b) == Read(m, b + 1)
NextOf(m, b)  == Read(m, b + 1 + Word)
SetPrev(m, b, v) == Write(m, b + 1, v)
SetNext(m, b, v) == Write(m, b + 1 + Word, v)

\* get_buddy: flip the bit of the block's size in its offset.
BuddyOf(m, b) == b ^^ (2 ^ Power(m, b))

\* get_power_of_size: ceil(log2(n)) for n >= 1.
PowerOfSize(n) == CHOOSE k \in 0..n : 2 ^ k >= n /\ (k = 0 \/ 2 ^ (k - 1) < n)

\* The free list from first, cut after ArenaSize blocks.
FreeList ==
  LET RECURSIVE Chain(_, _)
      Chain(b, k) ==
        IF b \notin Cells \/ k = 0 THEN <<>>
        ELSE <<b>> \o Chain(NextOf(mem, b), k - 1)
  IN Chain(first, ArenaSize)

\* create_blocks_info: walk from offset 0 by 1 << power.
BlocksInfo ==
  LET RECURSIVE Walk(_, _)
      Walk(b, k) ==
        IF b \notin Cells \/ k = 0 THEN <<>>
        ELSE <<[at |-> b, power |-> Power(mem, b),
                occupied |-> Occupied(mem, b)]>>
             \o Walk(b + 2 ^ Power(mem, b), k - 1)
  IN Walk(0, ArenaSize)

(***************************************************************************)
(* Fault variants of the helpers below, used only to show that each       *)
(* property can fail.                                                      *)
(***************************************************************************)
InitAvailTooBig ==
  /\ mem = [c \in Cells |-> IF c = 0 THEN SpacePower
                            ELSE IF c \in {1, 1 + Word} THEN NULL
                            ELSE Garbage]
  /\ first = 0
  /\ availSize = ArenaSize + 1
  /\ fitMode \in FitModes
  /\ held = {}
  /\ released = {}
  /\ op = [kind |-> "none", arg |-> NULL]
  /\ ret = "ok"

SplitOnceBuddyUnsized(m, t, ts) ==
  LET m1 == SetPower(m, t, ts)
      buddy == BuddyOf(m1, t)
      m2 == MarkAvail(m1, buddy)
      m3 == SetNext(SetNext(m2, buddy, NextOf(m2, t)), t, buddy)
      tmp == NextOf(m3, NextOf(m3, t))
  IN IF tmp # NULL THEN SetPrev(m3, tmp, NextOf(m3, t))
     ELSE SetPrev(m3, NextOf(m3, t), t)

SplitOnceNoBackLink(m, t, ts) ==
  LET m1 == SetPower(m, t, ts)
      buddy == BuddyOf(m1, t)
      m2 == MarkAvail(SetPower(m1, buddy, ts), buddy)
      m3 == SetNext(SetNext(m2, buddy, NextOf(m2, t)), t, buddy)
  IN m3

BetterWorstReversed(fit, size, preq, t, tsize) ==
  /\ \/ t = 0
     \/ fit = "the_best_fit" /\ size - preq < tsize - preq
     \/ fit = "the_worst_fit" /\ size - preq < tsize - preq

UnlinkKeepsPrevLink(m, tprev, tnext) == m

ExemptedSizeOffByOne(m, at) == 2 ^ (Power(m, at) + 1)

(***************************************************************************)
(* The constructor: one free block of power space_size at offset 0 with   *)
(* null links; the available size is the whole arena.                     *)
(***************************************************************************)
Init ==
  /\ mem = [c \in Cells |-> IF c = 0 THEN SpacePower
                            ELSE IF c \in {1, 1 + Word} THEN NULL
                            ELSE Garbage]
  /\ first = 0
  /\ availSize = ArenaSize
  /\ fitMode \in FitModes
  /\ held = {}
  /\ released = {}
  /\ op = [kind |-> "none", arg |-> NULL]
  /\ ret = "ok"

Alive == ret # "segfault"

(***************************************************************************)
(* allocate                                                                *)
(***************************************************************************)

\* The scan's test for replacing the candidate (it is entered only for
\* blocks of power >= power_of_allocation_size).
Better(fit, size, preq, t, tsize) ==
  /\ \/ t = 0
     \/ fit = "the_best_fit" /\ size - preq < tsize - preq
     \/ fit = "the_worst_fit" /\ size - preq > tsize - preq

\* Index in the free list of the block the scan settles on, 0 for none:
\* the first block is tested, then the loop walks the list from the first
\* block again, stopping early once first_fit has a candidate.
ScanPick(chain, pa, preq, fit) ==
  LET RECURSIVE Go(_, _)
      Go(i, t) ==
        IF (fit = "first_fit" /\ t # 0) \/ i > Len(chain) THEN t
        ELSE Go(i + 1,
                IF /\ Power(mem, chain[i]) >= pa
                   /\ Better(fit, Power(mem, chain[i]), preq, t,
                             IF t = 0 THEN 0 ELSE Power(mem, chain[t]))
                THEN i ELSE t)
  IN Go(1, IF chain # <<>> /\ Power(mem, chain[1]) >= pa THEN 1 ELSE 0)

\* One round of the halving loop: the target shrinks to power ts and its
\* upper half becomes a free buddy linked right after it.
SplitOnce(m, t, ts) ==
  LET m1 == SetPower(m, t, ts)
      buddy == BuddyOf(m1, t)
      m2 == MarkAvail(SetPower(m1, buddy, ts), buddy)
      m3 == SetNext(SetNext(m2, buddy, NextOf(m2, t)), t, buddy)
      tmp == NextOf(m3, NextOf(m3, t))
  IN IF tmp # NULL THEN SetPrev(m3, tmp, NextOf(m3, t))
     ELSE SetPrev(m3, NextOf(m3, t), t)

\* The halving loop: while half the block still holds the request.
RECURSIVE Split(_, _, _, _)
Split(m, t, ts, pa) ==
  IF (2 ^ ts) \div 2 >= 2 ^ pa
  THEN Split(SplitOnce(m, t, ts - 1), t, ts - 1, pa)
  ELSE [mem |-> m, size |-> ts]

\* Take the target out of the free list: its predecessor skips it.
Unlink(m, tprev, tnext) ==
  IF tprev # NULL THEN SetNext(m, tprev, tnext) ELSE m

\* Everything allocate computes before its first write through a pointer
\* that may be null.
AllocPlan(vs, vc) ==
  LET req   == vs * vc
      pa    == PowerOfSize(req + AvailableMetaSize)
      preq  == PowerOfSize(req)
      chain == FreeList
      t     == ScanPick(chain, pa, preq, fitMode)
      tb    == chain[t]
      tprev == IF t = 1 THEN NULL ELSE chain[t - 1]
      sp    == Split(mem, tb, Power(mem, tb), pa)
      m1    == SetPrev(MarkOccupied(sp.mem, tb), tb, Self)
      tnext == NextOf(m1, tb)
  IN IF t = 0
     THEN [found |-> FALSE, target |-> NULL, prev |-> NULL, next |-> NULL,
           size |-> 0, mem |-> mem]
     ELSE [found |-> TRUE, target |-> tb, prev |-> tprev, next |-> tnext,
           size |-> sp.size, mem |-> Unlink(m1, tprev, tnext)]

AllocateNoSpace(vs, vc) ==
  /\ Alive
  /\ ~AllocPlan(vs, vc).found
  /\ op' = [kind |-> "allocate", arg |-> vs * vc]
  /\ ret' = "bad_alloc"
  /\ UNCHANGED <<mem, first, availSize, fitMode, held, released>>

\* get_prev_available_block(target_next) = target_prev with target_next
\* null: the target was the last free block and was not split.
AllocateFault(vs, vc) ==
  LET pl == AllocPlan(vs, vc)
  IN /\ Alive
     /\ pl.found
     /\ pl.next = NULL
     /\ op' = [kind |-> "allocate", arg |-> vs * vc]
     /\ ret' = "segfault"
     /\ UNCHANGED <<mem, first, availSize, fitMode, held, released>>

AllocateOk(vs, vc) ==
  LET pl == AllocPlan(vs, vc)
  IN /\ Alive
     /\ pl.found
     /\ pl.next # NULL
     /\ mem' = SetPrev(pl.mem, pl.next, pl.prev)
     /\ first' = IF pl.target = first THEN pl.next ELSE first
     /\ availSize' = availSize - 2 ^ pl.size
     /\ held' = held \cup {pl.target + OccupiedMetaSize}
     /\ op' = [kind |-> "allocate", arg |-> vs * vc]
     /\ ret' = "ok"
     /\ UNCHANGED <<fitMode, released>>

(***************************************************************************)
(* deallocate                                                              *)
(***************************************************************************)

\* The guard that throws logic_error: the owner word is not this allocator
\* or the header lies outside the arena.
Foreign(at) == OwnerOf(mem, at) # Self \/ at \notin Cells

\* exempted_size: 1 << power of the block.
ExemptedSize(m, at) == 2 ^ Power(m, at)

DeallocateNull ==
  /\ Alive
  /\ op' = [kind |-> "deallocate", arg |-> NULL]
  /\ ret' = "ok"
  /\ UNCHANGED <<mem, first, availSize, fitMode, held, released>>

DeallocateRejected(p) ==
  /\ Alive
  /\ p # NULL
  /\ ~(p \in Nat /\ ~Foreign(p - OccupiedMetaSize))
  /\ op' = [kind |-> "deallocate", arg |-> p]
  /\ ret' = "logic_error"
  /\ UNCHANGED <<mem, first, availSize, fitMode, held, released>>

(***************************************************************************)
(* An accepted deallocate clears the occupied flag only when the buddy is *)
(* occupied.  The merge loop then runs while the buddy is free and        *)
(* curr_size == power(buddy); curr_size starts at 0 and every block has   *)
(* power >= 2 (BuddyStructure), so its body never runs.  The block is not *)
(* put back on the free list; the available size grows all the same.      *)
(***************************************************************************)
DeallocateOk(p) ==
  LET at    == p - OccupiedMetaSize
      buddy == BuddyOf(mem, at)
  IN /\ Alive
     /\ p \in Nat
     /\ ~Foreign(at)
     /\ mem' = IF Occupied(mem, buddy) THEN MarkAvail(mem, at) ELSE mem
     /\ availSize' = availSize + ExemptedSize(mem, at)
     /\ held' = held \ {p}
     /\ released' = released \cup {p}
     /\ op' = [kind |-> "deallocate", arg |-> p]
     /\ ret' = "ok"
     /\ UNCHANGED <<first, fitMode>>

\* set_fit_mode writes without the lock; allocate reads the mode once
\* under the lock, so the write lands between two operations.
SetFitMode(f) ==
  /\ Alive
  /\ fitMode' = f
  /\ op' = [kind |-> "set_fit_mode", arg |-> f]
  /\ ret' = "ok"
  /\ UNCHANGED <<mem, first, availSize, held, released>>

Pointers == held \cup {Outside} \cup (IF StaleFrees THEN released ELSE {})

Next ==
  \/ \E r \in Requests :
       \/ AllocateNoSpace(r[1], r[2])
       \/ AllocateFault(r[1], r[2])
       \/ AllocateOk(r[1], r[2])
  \/ DeallocateNull
  \/ \E p \in Pointers :
       \/ DeallocateRejected(p)
       \/ DeallocateOk(p)
  \/ \E f \in FitModes : SetFitMode(f)

Spec == Init /\ [][Next]_vars

(***************************************************************************)
(* Properties                                                              *)
(***************************************************************************)

TypeOK ==
  /\ mem \in [Cells -> (0..255) \cup Cells \cup {NULL, Self, Garbage}]
  /\ first \in Cells \cup {NULL}
  /\ availSize \in 0..ArenaSize
  /\ fitMode \in FitModes
  /\ held \subseteq Nat
  /\ released \subseteq Nat
  /\ ret \in {"ok", "bad_alloc", "logic_error", "segfault"}

BlockStarts == {BlocksInfo[i].at : i \in 1..Len(BlocksInfo)}

\* The smallest block allocate ever carves: a one-cell request and the
\* free-block header.
MinPower == PowerOfSize(1 + AvailableMetaSize)

SizeSum(bs) == FoldLeft(LAMBDA acc, b : acc + 2 ^ Power(mem, b), 0, bs)

\* The halving loop keeps the arena a buddy partition (spec invariant 3):
\* walking create_blocks_info by 1 << power lands exactly on the end, every
\* block sits at an offset that is a multiple of its size, and no block is
\* smaller than the smallest allocate carves, so the buddy of every block
\* (offset XOR size) is the start of a block.  A split that leaves the
\* buddy's size byte unwritten breaks it.
BuddyStructure ==
  LET bi == BlocksInfo
  IN /\ bi # <<>>
     /\ Last(bi).at + 2 ^ Last(bi).power = ArenaSize
     /\ \A i \in 1..Len(bi) :
          /\ bi[i].power >= MinPower
          /\ bi[i].at % (2 ^ bi[i].power) = 0

\* The free list that allocate splits into and unlinks from stays a
\* doubly linked, nullptr-terminated list without repeats, starting at
\* first, whose members are block starts with the occupied flag clear.
FreeListWellFormed ==
  LET fl == FreeList
  IN /\ (first = NULL) <=> (fl = <<>>)
     /\ fl # <<>> => NextOf(mem, Last(fl)) = NULL /\ PrevOf(mem, fl[1]) = NULL
     /\ IsInjective(fl)
     /\ \A i \in 1..Len(fl) :
          /\ fl[i] \in BlockStarts
          /\ ~Occupied(mem, fl[i])
          /\ i > 1 => PrevOf(mem, fl[i]) = fl[i - 1]

\* allocate never hands out memory a caller still holds: each held
\* pointer is the payload of an occupied block that is off the free list.
HeldBlocksLive ==
  \A p \in held :
    LET b == p - OccupiedMetaSize
    IN /\ b \in BlockStarts
       /\ Occupied(mem, b)
       /\ b \notin ToSet(FreeList)

\* What allocate subtracts (1 << target_size) and deallocate adds
\* (exempted_size) balance: the available size plus the blocks the
\* callers hold is the arena.
HeldAccounting ==
  availSize + SizeSum(SetToSeq({p - OccupiedMetaSize : p \in held}))
    = ArenaSize

\* The block a successful allocate takes is the one the fit mode names
\* among the listed blocks large enough, in free-list order: first_fit the
\* first, the_best_fit the first of the smallest, the_worst_fit the first
\* of the largest.
FitModeHonoured ==
  [][ (op'.kind = "allocate" /\ ret' = "ok")
        => LET fl   == FreeList
               pa   == PowerOfSize(op'.arg + AvailableMetaSize)
               fits == {i \in 1..Len(fl) : Power(mem, fl[i]) >= pa}
           IN \A p \in held' \ held : \E k \in fits :
                /\ fl[k] = p - OccupiedMetaSize
                /\ \A j \in fits :
                     LET pk == Power(mem, fl[k])
                         pj == Power(mem, fl[j])
                     IN /\ fitMode = "first_fit" => k <= j
                        /\ fitMode = "the_best_fit" => pk < pj \/ (pk = pj /\ k <= j)
                        /\ fitMode = "the_worst_fit" => pk > pj \/ (pk = pj /\ k <= j)
    ]_vars

(***************************************************************************)
(* What the spec says of the buddy strategy and the code does not keep.   *)
(***************************************************************************)

\* allocate either returns a block or throws bad_alloc (spec section 4.1):
\* the process never dies inside it.
NoFault == ret # "segfault"

\* Spec invariant 1: the available size plus the occupied blocks of
\* get_blocks_info is the arena, after every deallocate included.
Accounting ==
  availSize + SizeSum(SetToSeq({BlocksInfo[i].at : i \in
                {j \in 1..Len(BlocksInfo) : BlocksInfo[j].occupied}}))
    = ArenaSize

\* Round trip (spec section 8): once the callers hold nothing, the free
\* list again covers the whole arena.
RoundTrip == held = {} => SizeSum(FreeList) = ArenaSize

\* deallocate of a pointer already given back, and not handed out again,
\* is rejected with logic_error (spec section 7: double frees are misuse).
DoubleFreeRejected ==
  [][ (op'.kind = "deallocate" /\ op'.arg \in released \ held)
        => ret' = "logic_error"
    ]_vars

=============================================================================

------------------------- MODULE AllocatorContract -------------------------
(***************************************************************************)
(* What every arena allocator of the repository promises its callers       *)
(* (class allocator, src/allocator/allocator/include/allocator.h, and the  *)
(* shared failure semantics of the four strategies):                       *)
(*                                                                         *)
(*  - allocate(value_size, values_count) either fails with bad_alloc,      *)
(*    leaving the live regions alone, or hands out a fresh region of at    *)
(*    least value_size * values_count cells, inside the arena and disjoint *)
(*    from every region still live;                                        *)
(*  - deallocate(NULL) is a no-op;                                         *)
(*  - deallocate(p) of the start of a live region releases exactly that    *)
(*    region;                                                              *)
(*  - deallocate(p) of anything else (outside the arena, never issued,     *)
(*    already released) is rejected with logic_error and changes nothing;  *)
(*  - set_fit_mode and get_blocks_info leave the live regions alone.       *)
(*                                                                         *)
(* A region is a payload [start, start + len) measured in cells from the   *)
(* start of the arena's data area.  op records the call just made and ret  *)
(* its outcome, so that a refinement can relate each call to its result.   *)
(***************************************************************************)
EXTENDS Integers

CONSTANTS
  Space,      \* cells of the arena's data area
  NULL        \* the null pointer

VARIABLES
  regions,    \* set of live regions [start, len]
  op,         \* the call just made: [kind, arg]
  ret         \* its outcome: "ok", "bad_alloc" or "logic_error"

vars == <<regions, op, ret>>

Region == [start : 0..Space, len : 0..Space]

InArena(r) == r.start + r.len <= Space

Disjoint(r, s) == r.start + r.len <= s.start \/ s.start + s.len <= r.start

IsLiveStart(p) == \E r \in regions : r.start = p

Init ==
  /\ regions = {}
  /\ op = [kind |-> "none", arg |-> NULL]
  /\ ret = "ok"

Allocate(n) ==
  /\ op' = [kind |-> "allocate", arg |-> n]
  /\ \/ /\ ret' = "bad_alloc"
        /\ UNCHANGED regions
     \/ /\ ret' = "ok"
        /\ \E r \in Region :
             /\ InArena(r)
             /\ r.len >= n
             /\ \A s \in regions : Disjoint(r, s)
             /\ regions' = regions \cup {r}

Deallocate(p) ==
  /\ op' = [kind |-> "deallocate", arg |-> p]
  /\ \/ /\ p = NULL
        /\ ret' = "ok"
        /\ UNCHANGED regions
     \/ \E r \in regions :
          /\ r.start = p
          /\ ret' = "ok"
          /\ regions' = regions \ {r}
     \/ /\ p # NULL
        /\ ~IsLiveStart(p)
        /\ ret' = "logic_error"
        /\ UNCHANGED regions

\* set_fit_mode, get_blocks_info: calls that do not touch the live regions.
Other(kind, a) ==
  /\ op' = [kind |-> kind, arg |-> a]
  /\ ret' = "ok"
  /\ UNCHANGED regions

\* The argument of a call is whatever the caller passes: it is read off op'
\* rather than enumerated, so that any request size and any pointer value,
\* model values for foreign pointers included, is allowed.
Next ==
  \/ Allocate(op'.arg)
  \/ Deallocate(op'.arg)
  \/ /\ op'.kind \in {"set_fit_mode", "get_blocks_info"}
     /\ Other(op'.kind, op'.arg)

Spec == Init /\ [][Next]_vars

=============================================================================

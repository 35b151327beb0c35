---------------------------- MODULE MCSortedList ----------------------------
(***************************************************************************)
(* Model-checking instance of SortedList: a one-word header per field,    *)
(* a data area of a few blocks, and request sizes that exercise the       *)
(* split, the hand-out of a whole block and exhaustion.                   *)
(***************************************************************************)
EXTENDS SortedList

\* Requests whose product is nonzero and far below SizeMod.
MCRequests == {<<1, 1>>, <<2, 1>>}

\* A zero-size request: its block is a bare header.
MCRequestsZero == {<<0, 1>>, <<2, 1>>}

\* A request whose product overflows the modelled size_t.
MCRequestsWrap == {<<2, 1>>, <<5, 3>>}

=============================================================================

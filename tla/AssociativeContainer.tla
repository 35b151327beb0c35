------------------------ MODULE AssociativeContainer ------------------------
(***************************************************************************)
(* What an associative container promises its caller: the interface of    *)
(* associative_container.h (insert, update, obtain, dispose) and the       *)
(* exceptions search_tree.h declares for each of them, over a map from     *)
(* keys to values.  ret is what the last call returned or threw.  Any      *)
(* call that allocates may throw bad_alloc, and then leaves the map as it  *)
(* was.  Between is what search_tree::obtain_between promises: the pairs   *)
(* with keys between the bounds, in key order.                             *)
(***************************************************************************)
EXTENDS Integers, Sequences, FiniteSets

CONSTANTS
  Keys,    \* keys, ordered by the keys comparer
  Values,  \* values
  Absent   \* no value: the key is not in the container

VARIABLES map, ret

vars == <<map, ret>>

Errors == {"insertion_of_existent_key", "updating_of_nonexistent_key",
           "obtaining_of_nonexistent_key", "disposal_of_nonexistent_key",
           "bad_alloc"}

TypeOK ==
  /\ map \in [Keys -> Values \cup {Absent}]
  /\ ret \in Values \cup Errors \cup {"ok"}

Init ==
  /\ map = [k \in Keys |-> Absent]
  /\ ret = "ok"

(***************************************************************************)
(* One call, as a relation between the map m before it, the map m2 after  *)
(* it and the returned value r2.                                           *)
(***************************************************************************)
Insert(m, m2, r2, k, v) ==
  \/ r2 = "ok" /\ m[k] = Absent /\ m2 = [m EXCEPT ![k] = v]
  \/ r2 = "insertion_of_existent_key" /\ m[k] # Absent /\ m2 = m

Update(m, m2, r2, k, v) ==
  \/ r2 = "ok" /\ m[k] # Absent /\ m2 = [m EXCEPT ![k] = v]
  \/ r2 = "updating_of_nonexistent_key" /\ m[k] = Absent /\ m2 = m

Obtain(m, m2, r2, k) ==
  \/ r2 = "obtaining_of_nonexistent_key" /\ m[k] = Absent /\ m2 = m
  \/ r2 = m[k] /\ m[k] # Absent /\ m2 = m

Dispose(m, m2, r2, k) ==
  \/ r2 = m[k] /\ m[k] # Absent /\ m2 = [m EXCEPT ![k] = Absent]
  \/ r2 = "disposal_of_nonexistent_key" /\ m[k] = Absent /\ m2 = m

\* A call that could not allocate throws bad_alloc and changes nothing.
OutOfMemory(m, m2, r2) == r2 = "bad_alloc" /\ m2 = m

Call(m, m2, r2) ==
  \/ \E k \in Keys, v \in Values : Insert(m, m2, r2, k, v)
  \/ \E k \in Keys, v \in Values : Update(m, m2, r2, k, v)
  \/ \E k \in Keys : Obtain(m, m2, r2, k)
  \/ \E k \in Keys : Dispose(m, m2, r2, k)
  \/ OutOfMemory(m, m2, r2)

Next == Call(map, map', ret')

Spec == Init /\ [][Next]_vars

\* k lies on the allowed side of a bound: strictly, or also on it.
Above(k, lo, incl) == k > lo \/ (incl /\ k = lo)
Below(k, hi, incl) == k < hi \/ (incl /\ k = hi)

\* The pairs of m whose keys lie between lo and hi, in ascending key order.
Between(m, lo, hi, li, ui) ==
  LET S == {k \in Keys : m[k] # Absent /\ Above(k, lo, li) /\ Below(k, hi, ui)}
      Nth(i) == CHOOSE k \in S : Cardinality({j \in S : j < k}) = i - 1
  IN  [i \in 1..Cardinality(S) |-> <<Nth(i), m[Nth(i)]>>]

=============================================================================

-------------------------- MODULE RedistributionPlan --------------------------
(***************************************************************************)
(* The arithmetic of redistribute_path_keys (manager_server.cpp): from the *)
(* record counts of the storage servers, the transfers it makes.  A        *)
(* transfer is <<"L", id>> (transfer_left(id): one key from server id to   *)
(* server id-1) or <<"R", id>> (transfer_right(id): one key from server id *)
(* to server id+1), with the code's 0-based ids.                           *)
(***************************************************************************)
EXTENDS Integers, SequencesExt

Copies(n, x) == [k \in 1..n |-> x]

\* redistribute_path_keys from the counts on: the transfers it makes, in
\* order, [] when it redistributes nothing.  c, d and p are the code's
\* cnts, differ and differ_prefix, 0-based.  transfer_left_n(j, n) and
\* transfer_right_n(i, n) are n copies of one transfer; their size_t loop
\* counter makes a negative n huge, but the n the plan passes is never
\* below 0 (a prefix the loop has passed is negative or reset to 0).
RECURSIVE PlanFrom(_, _, _, _, _)
PlanFrom(sz, i, d, p, plan) ==
  IF i = sz THEN plan
  ELSE IF p[i] < 0 THEN PlanFrom(sz, i + 1, d, p, plan)
  ELSE LET fromLeft == i > 0 /\ p[i - 1] < 0
           left == IF fromLeft
                   THEN FoldLeft(LAMBDA acc, j : acc \o Copies(-p[j - 1], <<"L", j>>),
                                 <<>>, [k \in 1..i |-> i + 1 - k])
                   ELSE <<>>
           d1 == IF fromLeft THEN [d EXCEPT ![i] = @ + p[i - 1]] ELSE d
           toRight == i + 1 < sz /\ d1[i] > 0
           right == IF toRight THEN Copies(d1[i], <<"R", i>>) ELSE <<>>
           d2 == IF toRight THEN [d1 EXCEPT ![i + 1] = @ + d1[i]] ELSE d1
       IN  PlanFrom(sz, i + 1, d2, [p EXCEPT ![i] = 0], plan \o left \o right)

\* The share of server i (0-based): sum / sz, one more for the first
\* sum % sz servers.
Target(cs, i) ==
  LET sum == FoldFunction(+, 0, cs)
  IN  sum \div Len(cs) + (IF i < sum % Len(cs) THEN 1 ELSE 0)

\* The counts are gathered, then: nothing to do when there are fewer
\* records than servers or no server is empty or off its share by a factor
\* above 2; otherwise the plan.
Plan(cs) ==
  LET sz == Len(cs)
      c == [i \in 0..sz - 1 |-> cs[i + 1]]
      need == \E i \in 0..sz - 1 : c[i] = 0 \/ Target(cs, i) \div c[i] > 2
                                            \/ c[i] \div Target(cs, i) > 2
      d == [i \in 0..sz - 1 |-> c[i] - Target(cs, i)]
      p == [i \in 0..sz - 1 |-> FoldFunction(+, 0, [j \in 0..i |-> d[j]])]
  IN  IF FoldFunction(+, 0, cs) < sz \/ ~need THEN <<>> ELSE PlanFrom(sz, 0, d, p, <<>>)

=============================================================================

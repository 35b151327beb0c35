---------------------------- MODULE Redistribution ----------------------------
(***************************************************************************)
(* What the transfers redistribute_path_keys plans (RedistributionPlan)   *)
(* do to the record counts of the storage servers.  ManagerProtocol runs   *)
(* the same plan over the message queue; here only the counts move, and a  *)
(* transfer out of an empty server fails as transfer_left and             *)
(* transfer_right fail when OBTAIN_MIN or OBTAIN_MAX finds no key.          *)
(***************************************************************************)
EXTENDS RedistributionPlan

CONSTANTS
  ServerCnt,  \* bound: the number of storage servers
  MaxRecords  \* bound: records on one server at the start

VARIABLES
  cnts,     \* records per server, 1-based (server id i is cnts[i + 1])
  todo,     \* the transfers still to make
  failed,   \* a transfer returned -1 and redistribute_path_keys returned it
  planned   \* the plan was not empty: a redistribution was found needed

vars == <<cnts, todo, failed, planned>>

\* The server a transfer takes its key from and the one it gives it to,
\* as indices of cnts.
Source(u) == u[2] + 1
Dest(u) == IF u[1] = "L" THEN u[2] ELSE u[2] + 2

Init ==
  /\ cnts \in [1..ServerCnt -> 0..MaxRecords]
  /\ todo = Plan(cnts)
  /\ planned = (todo # <<>>)
  /\ failed = FALSE

\* One transfer: OBTAIN_MIN or OBTAIN_MAX on the source; with no key there
\* it fails and the rest of the plan is abandoned.
Transfer ==
  /\ todo # <<>> /\ ~failed
  /\ LET u == Head(todo)
     IN  IF cnts[Source(u)] = 0
         THEN failed' = TRUE /\ UNCHANGED <<cnts, todo>>
         ELSE /\ cnts' = [cnts EXCEPT ![Source(u)] = @ - 1, ![Dest(u)] = @ + 1]
              /\ todo' = Tail(todo)
              /\ UNCHANGED failed
  /\ UNCHANGED planned

Next == Transfer

Spec == Init /\ [][Next]_vars

TypeOK ==
  /\ cnts \in [1..ServerCnt -> Nat]
  /\ todo \in Seq({"L", "R"} \X (0..ServerCnt - 1))
  /\ failed \in BOOLEAN /\ planned \in BOOLEAN

\* redistribute_path_keys moves keys so that every server ends with its
\* share (target_cnt, plus one for the first `additional` servers): once a
\* needed redistribution has made all its transfers, the counts are the
\* targets and no transfer failed on an empty server.
Balanced ==
  (planned /\ (todo = <<>> \/ failed)) =>
     /\ ~failed
     /\ \A i \in 1..ServerCnt : cnts[i] = Target(cnts, i - 1)

=============================================================================

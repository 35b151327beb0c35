------------------------------- MODULE DbReply --------------------------------
(***************************************************************************)
(* What a call of db_storage answers: a status ("ok" or the exception it   *)
(* threw) and what it returned, a value (obtain, dispose), a key and a     *)
(* value (obtain_min, obtain_max, obtain_next) or a count                  *)
(* (get_collection_records_cnt).  A part the call does not return is       *)
(* Absent.                                                                 *)
(***************************************************************************)
CONSTANT Absent

Status(st) == [status |-> st, key |-> Absent, value |-> Absent, count |-> Absent]
Returned(v) == [status |-> "ok", key |-> Absent, value |-> v, count |-> Absent]
PairReply(k, v) == [status |-> "ok", key |-> k, value |-> v, count |-> Absent]
CountReply(n) == [status |-> "ok", key |-> Absent, value |-> Absent, count |-> n]

=============================================================================

---------------------------- MODULE StorageServer ----------------------------
(***************************************************************************)
(* One storage server process (db_storage_server.cpp): its database, cut  *)
(* down to one collection, and what handling one message does to it.       *)
(*                                                                         *)
(* The collection is the only structure of the path the manager routes;   *)
(* its pool and schema exist exactly where it does, so ADD_POOL and        *)
(* ADD_SCHEMA are not separate commands here.  A database is a record:     *)
(* coll (the collection exists) and keys (the logins stored in it).  The   *)
(* values stored with a login are left out: nothing the manager or the     *)
(* client decides depends on them.                                         *)
(*                                                                         *)
(* Every message of the one System V queue is a record                     *)
(*   [mtype, cmd, status, pid, req, key, cnt, tag]                         *)
(* for the fields mtype, cmd, status, pid, req_id, login and extra_value   *)
(* of strg_msg_t; tag names the client command a message descends from      *)
(* (0 for none) and is read only by properties.                             *)
(***************************************************************************)
EXTENDS Integers, FiniteSets, Sequences

CONSTANTS
  Keys   \* the logins, ordered as tkey_comparer orders them

\* ipc_data.h: the message types the manager and the storage servers use.
STORAGE_ANSWER_PRIOR == 8
CLIENT_PRIOR == 10
CLIENT_PING_PRIOR == 11
STORAGE_ADDITION_PRIOR == 31
STRUCT_ADDITION_PRIOR == 32
STRUCT_DISPOSAL_PRIOR == 33
GETTING_RECORDS_CNT_PRIOR == 40
MAX_COMMON_PRIOR == 30

Commands == {"ADD_STORAGE_SERVER", "TERMINATE_STORAGE_SERVER",
             "SET_IN_MEMORY_CACHE_MODE", "PING", "SHUTDOWN", "TERMINATE",
             "TERMINATE_ASSISTANT_THREAD", "GET_RECORDS_CNT",
             "ADD_COLLECTION", "DISPOSE_COLLECTION",
             "ADD", "DISPOSE", "OBTAIN", "OBTAIN_MIN", "OBTAIN_MAX", "OBTAIN_NEXT"}

Statuses == {"CLIENT", "OK", "INVALID_PATH", "ATTEMPT_TO_ADD_POOL_DUBLICATE",
             "POOL_DOES_NOT_EXIST", "ATTEMPT_TO_INSERT_EXISTENT_KEY",
             "ATTEMPT_TO_DISPOSE_NONEXISTENT_KEY",
             "ATTTEMT_TO_OBTAIN_NONEXISTENT_KEY", "FAILED_TO_ADD_STRUCT",
             "FAILED_TO_DISPOSE_KEY", "FAILED_TO_PERFORM_DATA_COMMAND"}

EmptyDb == [coll |-> FALSE, keys |-> {}]

\* What handling one message leaves: the database, the answer sent (a
\* sequence of at most one message) and whether the server keeps running.
Outcome(db, out, run) == [db |-> db, out |-> out, run |-> run]

Answer(m, prio, st) == [m EXCEPT !.mtype = prio, !.status = st]

\* db_storage::collection::obtain_min and obtain_max.
Least(K) == CHOOSE k \in K : \A j \in K : k <= j
Greatest(K) == CHOOSE k \in K : \A j \in K : j <= k

\* db_storage::collection::obtain_next.  The scan stops at the first key
\* the comparer calls equal to k (it tests the int result for non-zero, so
\* it walks past every other key); with no such key it throws.  The answer
\* is the key after it, or k itself when k is the greatest key.
ObtainNext(K, k) ==
  IF \E j \in K : j > k THEN Least({j \in K : j > k}) ELSE k

\* SET_IN_MEMORY_CACHE_MODE: the server is never set up before (END_SETUP
\* is never sent), so the answer is OK.
HandleSetup(db, m) == Outcome(db, <<Answer(m, STORAGE_ADDITION_PRIOR, "OK")>>, TRUE)

\* GET_RECORDS_CNT: without the collection, obtain throws
\* invalid_path_exception, the handler sets the status and rethrows, and
\* nothing catches it: the process ends without answering.
HandleRecordsCnt(db, m) ==
  IF db.coll
  THEN Outcome(db, <<[Answer(m, GETTING_RECORDS_CNT_PRIOR, "OK") EXCEPT !.cnt = Cardinality(db.keys)]>>, TRUE)
  ELSE Outcome(db, <<>>, FALSE)

HandleAddCollection(db, m) ==
  IF db.coll
  THEN Outcome(db, <<Answer(m, STRUCT_ADDITION_PRIOR, "ATTEMPT_TO_ADD_POOL_DUBLICATE")>>, TRUE)
  ELSE Outcome([db EXCEPT !.coll = TRUE], <<Answer(m, STRUCT_ADDITION_PRIOR, "OK")>>, TRUE)

HandleDisposeCollection(db, m) ==
  IF db.coll
  THEN Outcome(EmptyDb, <<Answer(m, STRUCT_DISPOSAL_PRIOR, "OK")>>, TRUE)
  ELSE Outcome(db, <<Answer(m, STRUCT_DISPOSAL_PRIOR, "POOL_DOES_NOT_EXIST")>>, TRUE)

\* The key commands answer at STORAGE_ANSWER_PRIOR; a missing collection
\* is invalid_path_exception, answered INVALID_PATH.
KeyAnswer(db, m, st, db2) ==
  Outcome(db2, <<Answer(m, STORAGE_ANSWER_PRIOR, st)>>, TRUE)

HandleAdd(db, m) ==
  CASE ~db.coll -> KeyAnswer(db, m, "INVALID_PATH", db)
    [] m.key \in db.keys -> KeyAnswer(db, m, "ATTEMPT_TO_INSERT_EXISTENT_KEY", db)
    [] OTHER -> KeyAnswer(db, m, "OK", [db EXCEPT !.keys = @ \cup {m.key}])

HandleDispose(db, m) ==
  CASE ~db.coll -> KeyAnswer(db, m, "INVALID_PATH", db)
    [] m.key \notin db.keys -> KeyAnswer(db, m, "ATTEMPT_TO_DISPOSE_NONEXISTENT_KEY", db)
    [] OTHER -> KeyAnswer(db, m, "OK", [db EXCEPT !.keys = @ \ {m.key}])

HandleObtain(db, m) ==
  CASE ~db.coll -> KeyAnswer(db, m, "INVALID_PATH", db)
    [] m.key \notin db.keys -> KeyAnswer(db, m, "ATTTEMT_TO_OBTAIN_NONEXISTENT_KEY", db)
    [] OTHER -> KeyAnswer(db, m, "OK", db)

\* OBTAIN_MIN, OBTAIN_MAX and OBTAIN_NEXT copy the key found into login.
Found(db, m, k) == Outcome(db, <<[Answer(m, STORAGE_ANSWER_PRIOR, "OK") EXCEPT !.key = k]>>, TRUE)

HandleObtainMin(db, m) ==
  CASE ~db.coll -> KeyAnswer(db, m, "INVALID_PATH", db)
    [] db.keys = {} -> KeyAnswer(db, m, "ATTTEMT_TO_OBTAIN_NONEXISTENT_KEY", db)
    [] OTHER -> Found(db, m, Least(db.keys))

HandleObtainMax(db, m) ==
  CASE ~db.coll -> KeyAnswer(db, m, "INVALID_PATH", db)
    [] db.keys = {} -> KeyAnswer(db, m, "ATTTEMT_TO_OBTAIN_NONEXISTENT_KEY", db)
    [] OTHER -> Found(db, m, Greatest(db.keys))

HandleObtainNext(db, m) ==
  CASE ~db.coll -> KeyAnswer(db, m, "INVALID_PATH", db)
    [] m.key \notin db.keys -> KeyAnswer(db, m, "ATTTEMT_TO_OBTAIN_NONEXISTENT_KEY", db)
    [] OTHER -> Found(db, m, ObtainNext(db.keys, m.key))

\* The main loop of db_storage_server.cpp on one received message.
\* TERMINATE clears the database before the server stops; SHUTDOWN stops
\* it as it is; a command it has no case for is dropped.
Serve(db, m) ==
  CASE m.cmd = "SET_IN_MEMORY_CACHE_MODE" -> HandleSetup(db, m)
    [] m.cmd = "SHUTDOWN" -> Outcome(db, <<>>, FALSE)
    [] m.cmd = "TERMINATE" -> Outcome(EmptyDb, <<>>, FALSE)
    [] m.cmd = "GET_RECORDS_CNT" -> HandleRecordsCnt(db, m)
    [] m.cmd = "ADD_COLLECTION" -> HandleAddCollection(db, m)
    [] m.cmd = "DISPOSE_COLLECTION" -> HandleDisposeCollection(db, m)
    [] m.cmd = "ADD" -> HandleAdd(db, m)
    [] m.cmd = "DISPOSE" -> HandleDispose(db, m)
    [] m.cmd = "OBTAIN" -> HandleObtain(db, m)
    [] m.cmd = "OBTAIN_MIN" -> HandleObtainMin(db, m)
    [] m.cmd = "OBTAIN_MAX" -> HandleObtainMax(db, m)
    [] m.cmd = "OBTAIN_NEXT" -> HandleObtainNext(db, m)
    [] OTHER -> Outcome(db, <<>>, TRUE)

=============================================================================

------------------------------ MODULE DbContract ------------------------------
(***************************************************************************)
(* What db_storage (db_storage.h) promises its caller, in in-memory mode:  *)
(* a hierarchy of pools, schemas in a pool and collections in a schema,    *)
(* each collection a map from keys to values with the calls of an          *)
(* associative container.  Structures are added and disposed by name;      *)
(* disposing one takes everything beneath it.  Nothing works before a     *)
(* successful setup.  ret is what the last call returned or threw.         *)
(***************************************************************************)
EXTENDS Integers, Sequences, FiniteSets, DbReply

CONSTANTS
  Pools, Schemas, Colls,  \* structure names, ordered as the names are
  Keys, Values,           \* keys (ordered by tkey_comparer), values
  Ids,                    \* the ids setup may be given, 0 included
  Modes,                  \* the modes setup may be given, "uninitialized" included
  Counts                  \* the values a size_t count may take

\* call is the call last made, its name and arguments; ret its answer.
VARIABLES ready, pools, schemas, colls, store, call, ret

vars == <<ready, pools, schemas, colls, store, call, ret>>

AC == INSTANCE AssociativeContainer WITH map <- [k \in Keys |-> Absent]

Paths == Pools \X Schemas \X Colls
EmptyMap == [k \in Keys |-> Absent]

StructErrors == {"logic_error", "setup_failure", "invalid_path",
                 "insertion_of_existent_struct", "disposal_of_nonexistent_struct"}

Rets == {Status(e) : e \in AC!Errors \cup StructErrors \cup {"ok"}}
        \cup {Returned(v) : v \in Values} \cup {PairReply(k, v) : k \in Keys, v \in Values}
        \cup {CountReply(n) : n \in Counts}

TypeOK ==
  /\ ready \in BOOLEAN
  /\ pools \subseteq Pools
  /\ schemas \subseteq Pools \X Schemas
  /\ colls \subseteq Paths
  /\ store \in [Paths -> [Keys -> Values \cup {Absent}]]
  /\ ret \in Rets

Init ==
  /\ ready = FALSE
  /\ pools = {} /\ schemas = {} /\ colls = {}
  /\ store = [x \in Paths |-> EmptyMap]
  /\ call = <<"none">>
  /\ ret = Status("ok")

Answer(r) == ret' = r /\ UNCHANGED <<ready, pools, schemas, colls, store>>
Fail(e) == Answer(Status(e))

\* Setup succeeds once, with a positive id and a mode other than
\* "uninitialized".
Setup(id, md) ==
  IF ~ready /\ id > 0 /\ md # "uninitialized"
  THEN ready' = TRUE /\ ret' = Status("ok") /\ UNCHANGED <<pools, schemas, colls, store>>
  ELSE Fail("setup_failure")

\* Every call but setup first requires a set-up storage.
Perform(A) == IF ready THEN A ELSE Fail("logic_error")

\* Taking away the structures under a name: the collections in paths P
\* go, and with them their contents.
Drop(P) ==
  /\ colls' = colls \ P
  /\ store' = [x \in Paths |-> IF x \in P THEN EmptyMap ELSE store[x]]

AddPool(p) == Perform(
  IF p \in pools THEN Fail("insertion_of_existent_struct")
  ELSE pools' = pools \cup {p} /\ ret' = Status("ok") /\ UNCHANGED <<ready, schemas, colls, store>>)

DisposePool(p) == Perform(
  IF p \notin pools THEN Fail("disposal_of_nonexistent_struct")
  ELSE /\ pools' = pools \ {p}
       /\ schemas' = {ps \in schemas : ps[1] # p}
       /\ Drop({x \in Paths : x[1] = p})
       /\ ret' = Status("ok") /\ UNCHANGED ready)

AddSchema(p, s) == Perform(
  IF p \notin pools THEN Fail("invalid_path")
  ELSE IF <<p, s>> \in schemas THEN Fail("insertion_of_existent_struct")
  ELSE schemas' = schemas \cup {<<p, s>>} /\ ret' = Status("ok")
       /\ UNCHANGED <<ready, pools, colls, store>>)

DisposeSchema(p, s) == Perform(
  IF p \notin pools THEN Fail("invalid_path")
  ELSE IF <<p, s>> \notin schemas THEN Fail("disposal_of_nonexistent_struct")
  ELSE /\ schemas' = schemas \ {<<p, s>>}
       /\ Drop({x \in Paths : x[1] = p /\ x[2] = s})
       /\ ret' = Status("ok") /\ UNCHANGED <<ready, pools>>)

AddCollection(x) == Perform(
  IF <<x[1], x[2]>> \notin schemas THEN Fail("invalid_path")
  ELSE IF x \in colls THEN Fail("insertion_of_existent_struct")
  ELSE colls' = colls \cup {x} /\ ret' = Status("ok")
       /\ UNCHANGED <<ready, pools, schemas, store>>)

DisposeCollection(x) == Perform(
  IF <<x[1], x[2]>> \notin schemas THEN Fail("invalid_path")
  ELSE IF x \notin colls THEN Fail("disposal_of_nonexistent_struct")
  ELSE Drop({x}) /\ ret' = Status("ok") /\ UNCHANGED <<ready, pools, schemas>>)

\* A call on key k of collection x: the collection must exist, then the
\* call does what associative_container's promises (AssociativeContainer):
\* insert needs k absent, update, obtain and dispose need it present.
OnKey(x, A) == Perform(IF x \notin colls THEN Fail("invalid_path") ELSE A)

Put(x, k, v, r) ==
  store' = [store EXCEPT ![x][k] = v] /\ ret' = r /\ UNCHANGED <<ready, pools, schemas, colls>>

Insert(x, k, v) == OnKey(x,
  IF store[x][k] # Absent THEN Fail("insertion_of_existent_key") ELSE Put(x, k, v, Status("ok")))

Update(x, k, v) == OnKey(x,
  IF store[x][k] = Absent THEN Fail("updating_of_nonexistent_key") ELSE Put(x, k, v, Status("ok")))

Obtain(x, k) == OnKey(x,
  IF store[x][k] = Absent THEN Fail("obtaining_of_nonexistent_key") ELSE Answer(Returned(store[x][k])))

Dispose(x, k) == OnKey(x,
  IF store[x][k] = Absent THEN Fail("disposal_of_nonexistent_key")
  ELSE Put(x, k, Absent, Returned(store[x][k])))

Present(x) == {k \in Keys : store[x][k] # Absent}
Pair(x, k) == PairReply(k, store[x][k])

\* obtain_min, obtain_max and obtain_next: the least, the greatest, and the
\* pair after key k (or k's own pair when k is the greatest).
Extreme(x, Pick(_)) == Perform(
  IF x \notin colls THEN Fail("invalid_path")
  ELSE IF Present(x) = {} THEN Fail("obtaining_of_nonexistent_key")
  ELSE Answer(Pair(x, Pick(Present(x)))))

LeastOf(S) == CHOOSE k \in S : \A j \in S : k <= j
GreatestOf(S) == CHOOSE k \in S : \A j \in S : j <= k

ObtainNext(x, k) == Perform(
  IF x \notin colls THEN Fail("invalid_path")
  ELSE IF k \notin Present(x) THEN Fail("obtaining_of_nonexistent_key")
  ELSE LET after == {j \in Present(x) : j > k}
       IN  Answer(Pair(x, IF after = {} THEN k ELSE LeastOf(after))))

\* get_collection_records_cnt answers with some count: the interface does
\* not tie it to the contents (db_storage.h declares no more).
GetRecordsCnt(x) == Perform(
  IF x \notin colls THEN Fail("invalid_path")
  ELSE ret'.count # Absent /\ ret' = CountReply(ret'.count) /\ ret'.count \in Counts /\ UNCHANGED <<ready, pools, schemas, colls, store>>)

\* consolidate is a call that changes nothing a caller can see.
Consolidate == Answer(Status("ok"))

\* Each step is one call: its name and arguments, and what it does.
Next ==
  \/ \E id \in Ids, md \in Modes : call' = <<"setup", id, md>> /\ Setup(id, md)
  \/ call' = <<"consolidate">> /\ Consolidate
  \/ \E p \in Pools :
       \/ call' = <<"add_pool", p>> /\ AddPool(p)
       \/ call' = <<"dispose_pool", p>> /\ DisposePool(p)
  \/ \E p \in Pools, s \in Schemas :
       \/ call' = <<"add_schema", p, s>> /\ AddSchema(p, s)
       \/ call' = <<"dispose_schema", p, s>> /\ DisposeSchema(p, s)
  \/ \E x \in Paths :
       \/ call' = <<"add_collection">> \o x /\ AddCollection(x)
       \/ call' = <<"dispose_collection">> \o x /\ DisposeCollection(x)
       \/ call' = <<"obtain_min">> \o x /\ Extreme(x, LeastOf)
       \/ call' = <<"obtain_max">> \o x /\ Extreme(x, GreatestOf)
       \/ call' = <<"get_collection_records_cnt">> \o x /\ GetRecordsCnt(x)
       \/ \E k \in Keys :
            \/ call' = <<"dispose">> \o x \o <<k>> /\ Dispose(x, k)
            \/ call' = <<"obtain">> \o x \o <<k>> /\ Obtain(x, k)
            \/ call' = <<"obtain_next">> \o x \o <<k>> /\ ObtainNext(x, k)
            \/ \E v \in Values :
                 \/ call' = <<"add">> \o x \o <<k, v>> /\ Insert(x, k, v)
                 \/ call' = <<"update">> \o x \o <<k, v>> /\ Update(x, k, v)

Spec == Init /\ [][Next]_vars

=============================================================================

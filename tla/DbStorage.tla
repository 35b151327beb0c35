------------------------------ MODULE DbStorage ------------------------------
(***************************************************************************)
(* db_storage (db_storage.cpp) in in_memory_cache mode.  The storage holds *)
(* its pools in a b_tree, each pool its schemas, each schema its           *)
(* collections in a b_tree<string, collection> of order T.  With at most   *)
(* 2T-1 collections that tree is a single leaf node, modelled slot by      *)
(* slot: node[ps] holds the collection names and their contents in slot    *)
(* order, and cnt[ps] the _records_cnt word of each slot.                  *)
(*                                                                         *)
(* collection's move constructor and move assignment (move_from) carry     *)
(* only _tree_variant and _data: _records_cnt is left as the memory had    *)
(* it.  The B-tree moves pairs between slots with std::swap, so the names  *)
(* and contents move while each count stays in its slot, and a pair        *)
(* constructed in a slot (the node's raw memory, or what a destroyed pair  *)
(* left) starts with whatever count the slot holds: any of UninitCnt.      *)
(* The contents of a collection are a map: its own b_tree is BTree's.      *)
(***************************************************************************)
EXTENDS Integers, Sequences, SequencesExt, FiniteSets, DbReply

CONSTANTS
  Pools, Schemas, Colls,  \* structure names, ordered as the names are
  Keys, Values,           \* keys (ordered by tkey_comparer), values
  Ids,                    \* the ids setup may be given, 0 included
  Modes,                  \* the modes setup may be given
  T,                      \* t_for_b_trees of the collections tree
  CntMod,                 \* size_t wraps at CntMod
  UninitCnt,              \* the counts an uninitialised _records_cnt may hold
  MaxDrift                \* bound: counts explored within MaxDrift of 0

ASSUME T >= 2 /\ Cardinality(Colls) <= 2 * T - 1
ASSUME UninitCnt \subseteq 0..CntMod - 1

\* call is the call last made, its name and arguments; ret its answer.
VARIABLES mode, pools, schemas, node, cnt, call, ret

vars == <<mode, pools, schemas, node, cnt, call, ret>>

Paths == Pools \X Schemas \X Colls
EmptyMap == [k \in Keys |-> Absent]
Slot == [name : Colls, data : [Keys -> Values \cup {Absent}]]

TypeOK ==
  /\ mode \in Modes
  /\ pools \subseteq Pools
  /\ schemas \subseteq Pools \X Schemas
  /\ node \in [Pools \X Schemas -> Seq(Slot)]
  /\ cnt \in [Pools \X Schemas -> Seq(0..CntMod - 1)]
  /\ ret.status \in {"ok", "logic_error", "setup_failure", "invalid_path",
                    "insertion_of_existent_struct", "disposal_of_nonexistent_struct",
                    "insertion_of_existent_key", "updating_of_nonexistent_key",
                    "obtaining_of_nonexistent_key", "disposal_of_nonexistent_key"}
  /\ \A ps \in Pools \X Schemas : Len(node[ps]) = Len(cnt[ps])
                                  /\ Len(node[ps]) <= 2 * T - 1

\* db_storage(): mode uninitialized, no pools.
Init ==
  /\ mode = "uninitialized"
  /\ pools = {} /\ schemas = {}
  /\ node = [ps \in Pools \X Schemas |-> <<>>]
  /\ cnt = [ps \in Pools \X Schemas |-> <<>>]
  /\ call = <<"none">>
  /\ ret = Status("ok")

Throw(e) == ret' = Status(e) /\ UNCHANGED <<mode, pools, schemas, node, cnt>>

\* setup: throw_if_initialized_at_setup, then throw_if_invalid_setup.
Setup(id, md) ==
  IF mode = "uninitialized" /\ md # "uninitialized" /\ id > 0
  THEN mode' = md /\ ret' = Status("ok") /\ UNCHANGED <<pools, schemas, node, cnt>>
  ELSE Throw("setup_failure")

\* throw_if_uninutialized_at_perform, ahead of every public operation.
Perform(A) == IF mode # "uninitialized" THEN A ELSE Throw("logic_error")

\* Destroying the collections trees of schemas S: their nodes are freed.
FreeNodes(S) ==
  /\ node' = [ps \in DOMAIN node |-> IF ps \in S THEN <<>> ELSE node[ps]]
  /\ cnt' = [ps \in DOMAIN cnt |-> IF ps \in S THEN <<>> ELSE cnt[ps]]

AddPool(p) == Perform(
  IF p \in pools THEN Throw("insertion_of_existent_struct")
  ELSE pools' = pools \cup {p} /\ ret' = Status("ok") /\ UNCHANGED <<mode, schemas, node, cnt>>)

DisposePool(p) == Perform(
  IF p \notin pools THEN Throw("disposal_of_nonexistent_struct")
  ELSE /\ pools' = pools \ {p}
       /\ schemas' = {ps \in schemas : ps[1] # p}
       /\ FreeNodes({ps \in schemas : ps[1] = p})
       /\ ret' = Status("ok") /\ UNCHANGED mode)

AddSchema(p, s) == Perform(
  IF p \notin pools THEN Throw("invalid_path")
  ELSE IF <<p, s>> \in schemas THEN Throw("insertion_of_existent_struct")
  ELSE schemas' = schemas \cup {<<p, s>>} /\ ret' = Status("ok")
       /\ UNCHANGED <<mode, pools, node, cnt>>)

DisposeSchema(p, s) == Perform(
  IF p \notin pools THEN Throw("invalid_path")
  ELSE IF <<p, s>> \notin schemas THEN Throw("disposal_of_nonexistent_struct")
  ELSE /\ schemas' = schemas \ {<<p, s>>}
       /\ FreeNodes({<<p, s>>})
       /\ ret' = Status("ok") /\ UNCHANGED <<mode, pools>>)

\* The slot of collection c in schema ps, 0 when it has none.
SlotOf(ps, c) ==
  IF \E i \in 1..Len(node[ps]) : node[ps][i].name = c
  THEN CHOOSE i \in 1..Len(node[ps]) : node[ps][i].name = c ELSE 0

\* node_insert: the pair is constructed in the first free slot and swapped
\* down past every slot whose name is greater.
NodeInsert(sl, e) ==
  InsertAt(sl, Cardinality({i \in 1..Len(sl) : sl[i].name < e.name}) + 1, e)

\* Mutant: schema::add without the b_tree's existent-key check, a second
\* pair of the same name inserted.
AddCollectionUnchecked(p, s, c) == Perform(
  IF <<p, s>> \notin schemas THEN Throw("invalid_path")
  ELSE \E g \in UninitCnt :
         /\ node' = [node EXCEPT ![<<p, s>>] = NodeInsert(@, [name |-> c, data |-> EmptyMap])]
         /\ cnt' = [cnt EXCEPT ![<<p, s>>] = Append(@, g)]
         /\ ret' = Status("ok") /\ UNCHANGED <<mode, pools, schemas>>)

\* add_collection: schema::add inserts collection(...) into the tree; a
\* fresh collection has no records, but the count its slot ends up with is
\* the slot's own.
AddCollection(p, s, c) == Perform(
  IF <<p, s>> \notin schemas THEN Throw("invalid_path")
  ELSE IF SlotOf(<<p, s>>, c) # 0 THEN Throw("insertion_of_existent_struct")
  ELSE \E g \in UninitCnt :
         /\ node' = [node EXCEPT ![<<p, s>>] = NodeInsert(@, [name |-> c, data |-> EmptyMap])]
         /\ cnt' = [cnt EXCEPT ![<<p, s>>] = Append(@, g)]
         /\ ret' = Status("ok") /\ UNCHANGED <<mode, pools, schemas>>)

DisposeCollection(p, s, c) == Perform(
  IF <<p, s>> \notin schemas THEN Throw("invalid_path")
  ELSE IF SlotOf(<<p, s>>, c) = 0 THEN Throw("disposal_of_nonexistent_struct")
  ELSE /\ node' = [node EXCEPT ![<<p, s>>] = RemoveAt(@, SlotOf(<<p, s>>, c))]
       /\ cnt' = [cnt EXCEPT ![<<p, s>>] = SubSeq(@, 1, Len(@) - 1)]
       /\ ret' = Status("ok") /\ UNCHANGED <<mode, pools, schemas>>)

(***************************************************************************)
(* The calls of collection on the pair in slot i of schema ps.             *)
(***************************************************************************)
Data(ps, i) == node[ps][i].data
Present(ps, i) == {k \in Keys : Data(ps, i)[k] # Absent}
Answer(r) == ret' = r /\ UNCHANGED <<mode, pools, schemas, node, cnt>>

\* The model's bound on the counts it follows: within MaxDrift above 0 or
\* below the wrap.
InWindow(n) == n <= MaxDrift \/ n >= CntMod - MaxDrift

\* insert: the b_tree insert throws on an existent key, before
\* ++_records_cnt.
CollInsert(ps, i, k, v) ==
  IF Data(ps, i)[k] # Absent THEN Throw("insertion_of_existent_key")
  ELSE /\ InWindow((cnt[ps][i] + 1) % CntMod)
       /\ node' = [node EXCEPT ![ps][i].data[k] = v]
       /\ cnt' = [cnt EXCEPT ![ps][i] = (@ + 1) % CntMod]
       /\ ret' = Status("ok") /\ UNCHANGED <<mode, pools, schemas>>

\* update: the new tdata replaces the old one; the count stays.
CollUpdate(ps, i, k, v) ==
  IF Data(ps, i)[k] = Absent THEN Throw("updating_of_nonexistent_key")
  ELSE /\ node' = [node EXCEPT ![ps][i].data[k] = v]
       /\ ret' = Status("ok") /\ UNCHANGED <<mode, pools, schemas, cnt>>

\* dispose: the value is returned and --_records_cnt.
CollDispose(ps, i, k) ==
  IF Data(ps, i)[k] = Absent THEN Throw("disposal_of_nonexistent_key")
  ELSE /\ InWindow((cnt[ps][i] - 1) % CntMod)
       /\ node' = [node EXCEPT ![ps][i].data[k] = Absent]
       /\ cnt' = [cnt EXCEPT ![ps][i] = (@ - 1) % CntMod]
       /\ ret' = Returned(Data(ps, i)[k]) /\ UNCHANGED <<mode, pools, schemas>>

CollObtain(ps, i, k) ==
  IF Data(ps, i)[k] = Absent THEN Throw("obtaining_of_nonexistent_key")
  ELSE Answer(Returned(Data(ps, i)[k]))

\* obtain_min and obtain_max: the first and the last pair of the infix
\* iteration, an exception when begin equals end.
CollObtainMin(ps, i) ==
  IF Present(ps, i) = {} THEN Throw("obtaining_of_nonexistent_key")
  ELSE LET k == CHOOSE k \in Present(ps, i) : \A j \in Present(ps, i) : k <= j
       IN  Answer(PairReply(k, Data(ps, i)[k]))

CollObtainMax(ps, i) ==
  IF Present(ps, i) = {} THEN Throw("obtaining_of_nonexistent_key")
  ELSE LET k == CHOOSE k \in Present(ps, i) : \A j \in Present(ps, i) : j <= k
       IN  Answer(PairReply(k, Data(ps, i)[k]))

\* obtain_next: iterate to the pair of key k (an exception when the
\* iteration ends first), then answer the pair after it, or k's own pair
\* when there is none.
CollObtainNext(ps, i, k) ==
  IF k \notin Present(ps, i) THEN Throw("obtaining_of_nonexistent_key")
  ELSE LET after == {j \in Present(ps, i) : j > k}
           n == IF after = {} THEN k ELSE CHOOSE j \in after : \A j2 \in after : j <= j2
       IN  Answer(PairReply(n, Data(ps, i)[n]))

CollGetRecordsCnt(ps, i) == Answer(CountReply(cnt[ps][i]))

\* The public calls on a collection: obtain the pool, the schema and the
\* collection, each missing one an invalid_path_exception.
OnCollection(ps, c, A(_)) ==
  Perform(IF ps \notin schemas \/ SlotOf(ps, c) = 0 THEN Throw("invalid_path")
          ELSE A(SlotOf(ps, c)))

Add(ps, c, k, v) == OnCollection(ps, c, LAMBDA i : CollInsert(ps, i, k, v))
Update(ps, c, k, v) == OnCollection(ps, c, LAMBDA i : CollUpdate(ps, i, k, v))
Dispose(ps, c, k) == OnCollection(ps, c, LAMBDA i : CollDispose(ps, i, k))
Obtain(ps, c, k) == OnCollection(ps, c, LAMBDA i : CollObtain(ps, i, k))
ObtainMin(ps, c) == OnCollection(ps, c, LAMBDA i : CollObtainMin(ps, i))
ObtainMax(ps, c) == OnCollection(ps, c, LAMBDA i : CollObtainMax(ps, i))
ObtainNext(ps, c, k) == OnCollection(ps, c, LAMBDA i : CollObtainNext(ps, i, k))
GetCollectionRecordsCnt(ps, c) == OnCollection(ps, c, LAMBDA i : CollGetRecordsCnt(ps, i))

\* consolidate: every collection's consolidate returns at once in
\* in_memory_cache mode; there is no mode check.
Consolidate == Answer(Status("ok"))

\* Each step is one call: its name and arguments, and what it does.
Next ==
  \/ \E id \in Ids, md \in Modes : call' = <<"setup", id, md>> /\ Setup(id, md)
  \/ call' = <<"consolidate">> /\ Consolidate
  \/ \E p \in Pools :
       \/ call' = <<"add_pool", p>> /\ AddPool(p)
       \/ call' = <<"dispose_pool", p>> /\ DisposePool(p)
  \/ \E p \in Pools, s \in Schemas :
       \/ call' = <<"add_schema", p, s>> /\ AddSchema(p, s)
       \/ call' = <<"dispose_schema", p, s>> /\ DisposeSchema(p, s)
  \/ \E p \in Pools, s \in Schemas, c \in Colls :
       \/ call' = <<"add_collection", p, s, c>> /\ AddCollection(p, s, c)
       \/ call' = <<"dispose_collection", p, s, c>> /\ DisposeCollection(p, s, c)
       \/ call' = <<"obtain_min", p, s, c>> /\ ObtainMin(<<p, s>>, c)
       \/ call' = <<"obtain_max", p, s, c>> /\ ObtainMax(<<p, s>>, c)
       \/ call' = <<"get_collection_records_cnt", p, s, c>> /\ GetCollectionRecordsCnt(<<p, s>>, c)
       \/ \E k \in Keys :
            \/ call' = <<"dispose", p, s, c, k>> /\ Dispose(<<p, s>>, c, k)
            \/ call' = <<"obtain", p, s, c, k>> /\ Obtain(<<p, s>>, c, k)
            \/ call' = <<"obtain_next", p, s, c, k>> /\ ObtainNext(<<p, s>>, c, k)
            \/ \E v \in Values :
                 \/ call' = <<"add", p, s, c, k, v>> /\ Add(<<p, s>>, c, k, v)
                 \/ call' = <<"update", p, s, c, k, v>> /\ Update(<<p, s>>, c, k, v)

Spec == Init /\ [][Next]_vars

(***************************************************************************)
(* The contract: the collection of a path is the slot with its name.       *)
(***************************************************************************)
Contract == INSTANCE DbContract WITH
  ready <- mode # "uninitialized",
  colls <- {x \in Paths : SlotOf(<<x[1], x[2]>>, x[3]) # 0},
  store <- [x \in Paths |-> IF SlotOf(<<x[1], x[2]>>, x[3]) = 0 THEN EmptyMap
                            ELSE Data(<<x[1], x[2]>>, SlotOf(<<x[1], x[2]>>, x[3]))],
  Counts <- 0..CntMod - 1

RecordsCntExact ==
  \A ps \in schemas : \A i \in 1..Len(node[ps]) : cnt[ps][i] = Cardinality(Present(ps, i))

=============================================================================

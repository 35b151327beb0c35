--------------------------- MODULE ManagerProtocol ---------------------------
(***************************************************************************)
(* The manager server (manager_server.cpp), its storage servers            *)
(* (db_storage_server.cpp, see StorageServer) and one terminal client      *)
(* (client.cpp), all talking over the one System V message queue.          *)
(*                                                                         *)
(* The queue is a sequence.  msgrcv with a positive type takes the first   *)
(* message of that type; the manager's msgrcv(-30) takes the first message *)
(* of the lowest type up to 30.  msgsnd blocks while the queue is full.    *)
(* msgrcvt (a bounded poll) either takes a message of its type or, when    *)
(* none is queued, gives up: the model lets it give up whenever nothing of  *)
(* its type is there, since how long the other side takes is not bounded.  *)
(*                                                                         *)
(* The manager is one thread running the main loop and, inside it, one     *)
(* handler at a time; mgr.pc says where it waits, mgr.msg is the handler's  *)
(* msg.  Its terminal thread (run_terminal_reader) reads "run", "terminate" *)
(* and "shutdown".  The client runs run_session in terminal mode: one       *)
(* command at a time, each answered or timed out.                           *)
(***************************************************************************)
EXTENDS StorageServer, RedistributionPlan

CONSTANTS
  Top,           \* std::string(64, 127): the separator above every login
  ManagerPid,    \* getpid() of the manager
  ClientPid,     \* getpid() of the client
  StoragePids,   \* the pids successive forks of storage servers return
  ClientScript,  \* the client's input: <<cmd, login>> per line
  TerminalScript,\* the manager's terminal input: "run", "terminate", "shutdown"
  QueueCap,      \* bound: messages the queue holds before msgsnd blocks
  ChangeFactor   \* the 30 of data_change_counter >= 30 * (1 + servers)

ASSUME /\ \A k \in Keys : k < Top
       /\ QueueCap \in Nat \ {0}
       /\ ChangeFactor \in Nat \ {0}

VARIABLES
  queue,     \* the message queue
  mqAlive,   \* the queue exists (until the manager removes it)
  runFlag,   \* the manager's run_flag, written by both of its threads
  servers,   \* strg_servers: pids of the storage servers, in key order
  hasPath,   \* separators holds the one collection's path
  seps,      \* separators[path]: the logins splitting the servers' key ranges
  mgr,       \* the manager's main thread
  proc,      \* each storage pid: "unborn", "up" or "exited"
  db,        \* each storage server's database
  forked,    \* storage servers forked so far
  term,      \* the manager's terminal thread
  client,    \* the client
  changes    \* data_change_counter: ADD and DISPOSE messages the main loop read

vars == <<queue, mqAlive, runFlag, servers, hasPath, seps, mgr, proc, db,
          forked, term, client, changes>>

Pids == {StoragePids[i] : i \in DOMAIN StoragePids}

Msg(t, c, st, p) ==
  [mtype |-> t, cmd |-> c, status |-> st, pid |-> p, req |-> 0, key |-> 0, cnt |-> 0, tag |-> 0]

\* A strg_msg_t declared in a handler: only the fields the handler sets.
MgrMsg(t, c) == Msg(t, c, "OK", ManagerPid)

Idle == [pc |-> "loop", msg |-> MgrMsg(0, "PING"), npid |-> 0, i |-> 0,
         cnts |-> <<>>, todo |-> <<>>, id |-> 0, nsep |-> 0, after |-> "none"]

\* Index of the first message of type t, 0 if there is none.
FirstOf(q, t) == SelectInSeq(q, LAMBDA m : m.mtype = t)

\* msgrcv(-MAX_COMMON_PRIOR): the first message of the lowest type <= 30.
ManagerPick(q) ==
  LET ts == {q[i].mtype : i \in DOMAIN q} \cap 1..MAX_COMMON_PRIOR
  IN  IF ts = {} THEN 0 ELSE FirstOf(q, Min(ts))

Fits(q) == Len(q) <= QueueCap

-----------------------------------------------------------------------------
(* get_id_for_key; the plan of redistribute_path_keys is RedistributionPlan. *)

\* The number of leading separators the key is not below.
GetIdForKey(k) ==
  IF ~hasPath THEN 0
  ELSE Max({n \in 0..Len(seps) : \A i \in 1..n : k >= seps[i]})

-----------------------------------------------------------------------------
(* The manager's handlers.  Each ends by setting mgr' and queue'.           *)

\* Back at the head of the main loop.
Finish(q) == mgr' = Idle /\ queue' = q

\* redistribute_keys, after its paths: it tells the (never started)
\* assistant thread to stop, with a message of type CLIENT_PING_PRIOR.
RedistDone(q) == Finish(Append(q, MgrMsg(CLIENT_PING_PRIOR, "TERMINATE_ASSISTANT_THREAD")))

\* redistribute_keys over the servers S: with the path, ask S[1] for its
\* count (redistribute_path_keys); without it, nothing to redistribute.
Redistribute(q, S) ==
  IF ~hasPath THEN RedistDone(q)
  ELSE LET s == MgrMsg(S[1], "GET_RECORDS_CNT")
       IN  /\ mgr' = [Idle EXCEPT !.pc = "count", !.i = 1, !.msg = s]
           /\ queue' = Append(q, s)

\* The next transfer of the plan: transfer_left asks server id for its
\* minimum, transfer_right for its maximum, in a fresh msg.  With none left,
\* a redistribution is over and a termination goes on to TERMINATE.
StartTransfers(q, todo, after) ==
  IF todo = <<>>
  THEN IF after = "redist" THEN RedistDone(q)
       ELSE mgr' = [Idle EXCEPT !.pc = "terminate"] /\ queue' = q
  ELSE LET u == Head(todo)
           s == MgrMsg(servers[u[2] + 1], IF u[1] = "L" THEN "OBTAIN_MIN" ELSE "OBTAIN_MAX")
       IN  /\ mgr' = [mgr EXCEPT !.pc = IF u[1] = "L" THEN "min" ELSE "max",
                                 !.msg = s, !.id = u[2], !.todo = Tail(todo),
                                 !.after = after]
           /\ queue' = Append(q, s)

\* A transfer returned -1: redistribute_path_keys returns it and
\* redistribute_keys goes on; handle_terminate_server_command throws.
Fail(q) == IF mgr.after = "redist" THEN RedistDone(q) ELSE Finish(q)

\* Send s and wait at pc.
SendAndWait(q, s, pc) == mgr' = [mgr EXCEPT !.pc = pc, !.msg = s] /\ queue' = Append(q, s)

\* msgrcvt(n, ..., t): A(m, q, got) with the first message of type t taken
\* out of the queue, or with the handler's msg unchanged when it gives up.
Await(t, A(_, _, _)) ==
  LET i == FirstOf(queue, t)
  IN  \/ i > 0 /\ A(queue[i], RemoveAt(queue, i), TRUE)
      \/ i = 0 /\ A(mgr.msg, queue, FALSE)

\* handle_add_server_command: fork a storage server (run_storage_server
\* answers -1 when fork fails or the child is gone after 200us), then send
\* it its setup and wait for the answer.
AddServer(m, q) ==
  \/ /\ Finish(q)
     /\ UNCHANGED <<proc, forked>>
  \/ /\ forked < Len(StoragePids)
     /\ LET p == StoragePids[forked + 1]
            s == [m EXCEPT !.mtype = p, !.cmd = "SET_IN_MEMORY_CACHE_MODE",
                           !.cnt = Len(servers) + 1, !.pid = ManagerPid]
        IN  /\ proc' = [proc EXCEPT ![p] = "up"]
            /\ forked' = forked + 1
            /\ mgr' = [Idle EXCEPT !.pc = "setup", !.npid = p, !.msg = s]
            /\ queue' = Append(q, s)

\* The setup answer: list the server, give every path a Top separator for
\* it and redistribute; no answer: kill it.
SetupDone(m, q, got) ==
  \/ /\ got
     /\ LET S == Append(servers, mgr.npid)
        IN  /\ servers' = S
            /\ IF Len(S) > 1
               THEN /\ seps' = IF hasPath THEN Append(seps, Top) ELSE seps
                    /\ Redistribute(q, S)
               ELSE /\ Finish(q)
                    /\ UNCHANGED seps
     /\ UNCHANGED proc
  \/ /\ ~got
     /\ proc' = [proc EXCEPT ![mgr.npid] = "exited"]
     /\ Finish(q)
     /\ UNCHANGED <<servers, seps>>

\* redistribute_path_keys: one count per server in turn, each asked with the
\* message the previous count came in; then the plan.
CountDone(m, q, got) ==
  \/ ~got /\ RedistDone(q)
  \/ /\ got
     /\ LET c == Append(mgr.cnts, m.cnt)
        IN  IF mgr.i < Len(servers)
            THEN LET s == [m EXCEPT !.mtype = servers[mgr.i + 1]]
                 IN  /\ mgr' = [mgr EXCEPT !.i = @ + 1, !.cnts = c, !.msg = s]
                     /\ queue' = Append(q, s)
            ELSE StartTransfers(q, Plan(c), "redist")

\* handle_terminate_server_command: with fewer than two servers it throws
\* (none: strg_servers[SIZE_MAX] is out of bounds and the process dies);
\* otherwise it counts the last server's records, moves them all left and
\* stops it.
TerminateServer(m, q) ==
  \/ Len(servers) = 1 /\ Finish(q)
  \/ Len(servers) = 0 /\ mgr' = [Idle EXCEPT !.pc = "crashed"] /\ queue' = q
  \/ /\ Len(servers) > 1
     /\ IF hasPath
        THEN LET s == [m EXCEPT !.cmd = "GET_RECORDS_CNT", !.pid = ManagerPid,
                                !.status = "OK", !.mtype = servers[Len(servers)]]
             IN  /\ mgr' = [Idle EXCEPT !.pc = "tcount", !.id = Len(servers) - 1, !.msg = s]
                 /\ queue' = Append(q, s)
        ELSE mgr' = [Idle EXCEPT !.pc = "terminate"] /\ queue' = q

TCountDone(m, q, got) ==
  \/ ~got /\ Finish(q)
  \/ got /\ StartTransfers(q, Copies(m.cnt, <<"L", mgr.id>>), "term")

\* transfer_left(id): OBTAIN_MIN, OBTAIN_NEXT of it, ADD the answer's login
\* to server id-1, DISPOSE it from server id, separator id-1 := that login.
MinDone(m, q, got) ==
  IF got /\ m.status = "OK"
  THEN SendAndWait(q, [m EXCEPT !.mtype = servers[mgr.id + 1], !.status = "OK",
                                !.cmd = "OBTAIN_NEXT"], "next")
  ELSE Fail(q)

\* The check of ATTTEMT_TO_OBTAIN_NONEXISTENT_KEY only compares (==), so
\* that answer fails the transfer like any other.
\* Mutant: the login found is not kept as the new separator.
NextDoneNoSep(m, q, got) ==
  IF got /\ m.status = "OK"
  THEN LET s == [m EXCEPT !.mtype = servers[mgr.id], !.cmd = "ADD"]
       IN  /\ mgr' = [mgr EXCEPT !.pc = "addl", !.msg = s]
           /\ queue' = Append(q, s)
  ELSE Fail(q)

NextDone(m, q, got) ==
  IF got /\ m.status = "OK"
  THEN LET s == [m EXCEPT !.mtype = servers[mgr.id], !.cmd = "ADD"]
       IN  /\ mgr' = [mgr EXCEPT !.pc = "addl", !.msg = s, !.nsep = m.key]
           /\ queue' = Append(q, s)
  ELSE Fail(q)

AddLeftDone(m, q, got) ==
  IF got /\ m.status = "OK"
  THEN SendAndWait(q, [m EXCEPT !.mtype = servers[mgr.id + 1], !.cmd = "DISPOSE"], "displ")
  ELSE Fail(q)

\* Whether or not the DISPOSE is answered ("WORST CASE" is only printed).
DisposeLeftDone(m, q, got) ==
  /\ seps' = [seps EXCEPT ![mgr.id] = mgr.nsep]
  /\ StartTransfers(q, mgr.todo, mgr.after)

\* transfer_right(id): OBTAIN_MAX, ADD it to server id+1, DISPOSE it from
\* server id, separator id := that login.
MaxDone(m, q, got) ==
  IF got /\ m.status = "OK"
  THEN LET s == [m EXCEPT !.mtype = servers[mgr.id + 2], !.cmd = "ADD"]
       IN  /\ mgr' = [mgr EXCEPT !.pc = "addr", !.msg = s, !.nsep = m.key]
           /\ queue' = Append(q, s)
  ELSE Fail(q)

AddRightDone(m, q, got) ==
  IF got /\ m.status = "OK"
  THEN SendAndWait(q, [m EXCEPT !.mtype = servers[mgr.id + 1], !.cmd = "DISPOSE"], "dispr")
  ELSE Fail(q)

DisposeRightDone(m, q, got) ==
  /\ seps' = [seps EXCEPT ![mgr.id + 1] = mgr.nsep]
  /\ StartTransfers(q, mgr.todo, mgr.after)

\* handle_add_struct_command: the command goes to every server in turn.  At
\* the first failure or silence it answers with the failure, the status of
\* the msg it holds (the client's CLIENT when the first server is silent) or
\* FAILED_TO_ADD_STRUCT, after undoing the servers before it; that undo
\* loop, for (j = i; j > 0; ++i), never ends once a server but the first
\* has failed.
AddStruct(m, q) ==
  IF servers = <<>>
  THEN Finish(Append(q, [m EXCEPT !.mtype = m.pid, !.status = "FAILED_TO_ADD_STRUCT"]))
  ELSE LET s == [m EXCEPT !.mtype = servers[1]]
       IN  mgr' = [Idle EXCEPT !.pc = "struct", !.i = 1, !.msg = s] /\ queue' = Append(q, s)

StructDone(m, q, got) ==
  LET cur == IF got THEN m ELSE mgr.msg
      old == IF cur.status # "OK" THEN cur.status ELSE "FAILED_TO_ADD_STRUCT"
  IN  \/ /\ got /\ m.status = "OK" /\ mgr.i < Len(servers)
         /\ LET s == [m EXCEPT !.mtype = servers[mgr.i + 1]]
            IN  mgr' = [mgr EXCEPT !.i = @ + 1, !.msg = s] /\ queue' = Append(q, s)
         /\ UNCHANGED <<hasPath, seps>>
      \/ /\ got /\ m.status = "OK" /\ mgr.i = Len(servers)
         /\ hasPath' = TRUE
         /\ seps' = Copies(Len(servers) - 1, Top)
         /\ Finish(Append(q, [m EXCEPT !.mtype = m.pid, !.status = "OK"]))
      \/ /\ ~got \/ m.status # "OK"
         /\ mgr.i = 1
         /\ Finish(Append(q, [cur EXCEPT !.mtype = cur.pid, !.status = old]))
         /\ UNCHANGED <<hasPath, seps>>
      \/ /\ ~got \/ m.status # "OK"
         /\ mgr.i > 1
         /\ SendAndWait(q, [cur EXCEPT !.cmd = "DISPOSE_COLLECTION", !.status = "OK",
                                       !.mtype = servers[mgr.i - 1]], "rollback")
         /\ UNCHANGED <<hasPath, seps>>

\* One turn of the endless undo loop: wait for the disposal answer, send the
\* disposal to the same server again.
RollbackDone(m, q, got) ==
  LET cur == IF got THEN m ELSE mgr.msg
  IN  SendAndWait(q, [cur EXCEPT !.status = "OK", !.mtype = servers[mgr.i - 1]], "rollback")

\* handle_dispose_struct_command: every server in turn, failures ignored;
\* then the path is forgotten and the client told OK.
DisposeStruct(m, q) ==
  IF servers = <<>>
  THEN Finish(Append(q, [m EXCEPT !.mtype = m.pid, !.status = "FAILED_TO_DISPOSE_KEY"]))
  ELSE LET s == [m EXCEPT !.mtype = servers[1]]
       IN  mgr' = [Idle EXCEPT !.pc = "dstruct", !.i = 1, !.msg = s] /\ queue' = Append(q, s)

DStructDone(m, q, got) ==
  LET cur == IF got THEN m ELSE mgr.msg
  IN  \/ /\ mgr.i < Len(servers)
         /\ LET s == [cur EXCEPT !.mtype = servers[mgr.i + 1]]
            IN  mgr' = [mgr EXCEPT !.i = @ + 1, !.msg = s] /\ queue' = Append(q, s)
         /\ UNCHANGED <<hasPath, seps>>
      \/ /\ mgr.i = Len(servers)
         /\ IF cur.cmd = "DISPOSE_COLLECTION"
            THEN hasPath' = FALSE /\ seps' = <<>>
            ELSE UNCHANGED <<hasPath, seps>>
         /\ Finish(Append(q, [cur EXCEPT !.mtype = cur.pid, !.status = "OK"]))

\* handle_data_command: a client's command goes to the server of its key;
\* anything else (a storage server's answer) to the pid it names.  An id
\* past the end of strg_servers makes at() throw out_of_range, which
\* nothing catches: the manager process dies.
DataCommand(m, q) ==
  \/ /\ m.status = "CLIENT" /\ servers = <<>>
     /\ Finish(Append(q, [m EXCEPT !.mtype = m.pid, !.status = "FAILED_TO_PERFORM_DATA_COMMAND"]))
  \/ /\ m.status = "CLIENT" /\ servers # <<>>
     /\ GetIdForKey(m.key) < Len(servers)
     /\ Finish(Append(q, [m EXCEPT !.mtype = servers[GetIdForKey(m.key) + 1]]))
  \/ /\ m.status = "CLIENT" /\ servers # <<>>
     /\ GetIdForKey(m.key) >= Len(servers)
     /\ mgr' = [Idle EXCEPT !.pc = "crashed"] /\ queue' = q
  \/ /\ m.status # "CLIENT"
     /\ Finish(Append(q, [m EXCEPT !.mtype = m.pid]))

DataCommands == {"ADD", "DISPOSE", "OBTAIN", "OBTAIN_MIN", "OBTAIN_MAX", "OBTAIN_NEXT"}

-----------------------------------------------------------------------------
(* The manager's main thread.                                               *)

\* After every handler: once data_change_counter reaches 30 * (1 + the
\* number of servers), redistribute_keys and a counter reset.
ChangesDue == changes >= ChangeFactor * (1 + Len(servers))

MgrPeriodic ==
  /\ mgr.pc = "loop" /\ ChangesDue
  /\ Redistribute(queue, servers)
  /\ Fits(queue')
  /\ changes' = 0
  /\ UNCHANGED <<mqAlive, runFlag, servers, hasPath, seps, proc, db, forked, term, client>>

\* The loop head: while (run_flag) msgrcv ...; after it, msgctl(IPC_RMID).
MgrWait ==
  /\ mgr.pc = "loop" /\ ~ChangesDue /\ runFlag
  /\ mgr' = [mgr EXCEPT !.pc = "recv"]
  /\ UNCHANGED <<queue, mqAlive, runFlag, servers, hasPath, seps, proc, db, forked, changes, term, client>>

MgrStop ==
  /\ mgr.pc = "loop" /\ ~ChangesDue /\ ~runFlag
  /\ mgr' = [Idle EXCEPT !.pc = "down"]
  /\ queue' = <<>> /\ mqAlive' = FALSE
  /\ UNCHANGED <<runFlag, servers, hasPath, seps, proc, db, forked, changes, term, client>>

\* One message of the main loop and the handler its cmd selects.
MgrReceive ==
  /\ mgr.pc = "recv"
  /\ ManagerPick(queue) > 0
  /\ LET i == ManagerPick(queue)
         m == queue[i]
         q == RemoveAt(queue, i)
     IN  \/ /\ m.cmd \in {"PING", "SHUTDOWN"}
            /\ runFlag' = FALSE /\ Finish(q)
            /\ UNCHANGED <<servers, hasPath, seps, proc, forked, changes>>
         \/ /\ m.cmd = "ADD_STORAGE_SERVER" /\ AddServer(m, q)
            /\ UNCHANGED <<runFlag, servers, hasPath, seps, changes>>
         \/ /\ m.cmd = "TERMINATE_STORAGE_SERVER" /\ TerminateServer(m, q)
            /\ UNCHANGED <<runFlag, servers, hasPath, seps, proc, forked, changes>>
         \/ /\ m.cmd = "ADD_COLLECTION" /\ AddStruct(m, q)
            /\ UNCHANGED <<runFlag, servers, hasPath, seps, proc, forked, changes>>
         \/ /\ m.cmd = "DISPOSE_COLLECTION" /\ DisposeStruct(m, q)
            /\ UNCHANGED <<runFlag, servers, hasPath, seps, proc, forked, changes>>
         \/ /\ m.cmd \in DataCommands /\ DataCommand(m, q)
            /\ changes' = IF m.cmd \in {"ADD", "DISPOSE"} THEN changes + 1 ELSE changes
            /\ UNCHANGED <<runFlag, servers, hasPath, seps, proc, forked>>
         \/ /\ m.cmd = "TERMINATE_ASSISTANT_THREAD" /\ Finish(q)
            /\ UNCHANGED <<runFlag, servers, hasPath, seps, proc, forked, changes>>
  /\ Fits(queue')
  /\ UNCHANGED <<mqAlive, db, term, client>>

\* A wait of a handler, answered or given up.
MgrAwait(pc, t, A(_, _, _)) ==
  /\ mgr.pc = pc
  /\ Await(t, A)
  /\ Fits(queue')

SetupStep ==
  /\ MgrAwait("setup", STORAGE_ADDITION_PRIOR, SetupDone)
  /\ UNCHANGED <<mqAlive, runFlag, hasPath, db, forked, changes, term, client>>

\* Steps that change neither the server list nor the processes.
HandlerStep ==
  /\ \/ MgrAwait("count", GETTING_RECORDS_CNT_PRIOR, CountDone) /\ UNCHANGED seps
     \/ MgrAwait("tcount", GETTING_RECORDS_CNT_PRIOR, TCountDone) /\ UNCHANGED seps
     \/ MgrAwait("min", STORAGE_ANSWER_PRIOR, MinDone) /\ UNCHANGED seps
     \/ MgrAwait("next", STORAGE_ANSWER_PRIOR, NextDone) /\ UNCHANGED seps
     \/ MgrAwait("addl", STORAGE_ANSWER_PRIOR, AddLeftDone) /\ UNCHANGED seps
     \/ MgrAwait("displ", STORAGE_ANSWER_PRIOR, DisposeLeftDone)
     \/ MgrAwait("max", STORAGE_ANSWER_PRIOR, MaxDone) /\ UNCHANGED seps
     \/ MgrAwait("addr", STORAGE_ANSWER_PRIOR, AddRightDone) /\ UNCHANGED seps
     \/ MgrAwait("dispr", STORAGE_ANSWER_PRIOR, DisposeRightDone)
  /\ UNCHANGED <<mqAlive, runFlag, servers, hasPath, proc, db, forked, changes, term, client>>

StructStep ==
  /\ \/ MgrAwait("struct", STRUCT_ADDITION_PRIOR, StructDone)
     \/ MgrAwait("dstruct", STRUCT_DISPOSAL_PRIOR, DStructDone)
     \/ MgrAwait("rollback", STRUCT_DISPOSAL_PRIOR, RollbackDone) /\ UNCHANGED <<hasPath, seps>>
  /\ UNCHANGED <<mqAlive, runFlag, servers, proc, db, forked, changes, term, client>>

\* The end of handle_terminate_server_command: TERMINATE to the last
\* server, drop it from strg_servers (its separator stays), redistribute.
TerminateStep ==
  /\ mgr.pc = "terminate"
  /\ LET S == SubSeq(servers, 1, Len(servers) - 1)
     IN  /\ servers' = S
         /\ Redistribute(Append(queue, MgrMsg(servers[Len(servers)], "TERMINATE")), S)
  /\ Fits(queue')
  /\ UNCHANGED <<mqAlive, runFlag, hasPath, seps, proc, db, forked, changes, term, client>>

-----------------------------------------------------------------------------
(* The storage servers, the manager's terminal thread and the client.       *)

\* The storage server's main loop: msgrcv(pid) and the case of its cmd.
StorageStep(p) ==
  /\ proc[p] = "up" /\ mqAlive
  /\ FirstOf(queue, p) > 0
  /\ LET i == FirstOf(queue, p)
         o == Serve(db[p], queue[i])
     IN  /\ db' = [db EXCEPT ![p] = o.db]
         /\ queue' = RemoveAt(queue, i) \o o.out
         /\ proc' = IF o.run THEN proc ELSE [proc EXCEPT ![p] = "exited"]
  /\ UNCHANGED <<mqAlive, runFlag, servers, hasPath, seps, mgr, forked, changes, term, client>>

\* With the queue removed, msgrcv fails and the server's loop breaks.
StorageLost(p) ==
  /\ proc[p] = "up" /\ ~mqAlive
  /\ proc' = [proc EXCEPT ![p] = "exited"]
  /\ UNCHANGED <<queue, mqAlive, runFlag, servers, hasPath, seps, mgr, db, forked, changes, term, client>>

ManagerRunning == mgr.pc \notin {"down", "crashed"}

TermLineIs(l) == term.n < Len(TerminalScript) /\ TerminalScript[term.n + 1] = l

\* run_terminal_reader: "run" and "terminate" go to the main loop as type-4
\* messages.
TermLine(l, c) ==
  /\ ManagerRunning /\ term.pc = "read" /\ TermLineIs(l)
  /\ queue' = Append(queue, Msg(4, c, "OK", 0))
  /\ Fits(queue')
  /\ term' = [term EXCEPT !.n = @ + 1]
  /\ UNCHANGED <<mqAlive, runFlag, servers, hasPath, seps, mgr, proc, db, forked, changes, client>>

\* "shutdown": clear run_flag, SHUTDOWN to every server in strg_servers as
\* it reads it now (without a lock), then wait for every child.
TermShutdown ==
  /\ ManagerRunning /\ term.pc = "read" /\ TermLineIs("shutdown")
  /\ runFlag' = FALSE
  /\ queue' = queue \o [i \in 1..Len(servers) |-> MgrMsg(servers[i], "SHUTDOWN")]
  /\ Fits(queue')
  /\ term' = [term EXCEPT !.pc = "reap", !.n = @ + 1]
  /\ UNCHANGED <<mqAlive, servers, hasPath, seps, mgr, proc, db, forked, changes, client>>

\* while (wait(NULL) > 0): no child left running; then SHUTDOWN, type 1.
TermReap ==
  /\ ManagerRunning /\ term.pc = "reap"
  /\ \A p \in Pids : proc[p] # "up"
  /\ queue' = Append(queue, MgrMsg(1, "SHUTDOWN"))
  /\ Fits(queue')
  /\ term' = [term EXCEPT !.pc = "done"]
  /\ UNCHANGED <<mqAlive, runFlag, servers, hasPath, seps, mgr, proc, db, forked, changes, client>>

\* The statuses handle_server_answer has no throwing case for: the answer
\* is reported as done and the request counter moves on.
Reported(st) == st \in {"OK", "CLIENT"}

RequestWrap == 1000000000

\* run_session: msg.req_id = request_counter and a command sent (a failed
\* msgsnd throws, caught in terminal mode); then handle_server_answer.
ClientSend ==
  /\ client.pc = "idle" /\ client.sent < Len(ClientScript)
  /\ LET c == ClientScript[client.sent + 1][1]
         k == ClientScript[client.sent + 1][2]
         m == [Msg(CLIENT_PRIOR, c, "CLIENT", ClientPid) EXCEPT
                 !.req = client.req, !.key = k, !.tag = client.sent + 1]
     IN  IF mqAlive
         THEN /\ queue' = Append(queue, m) /\ Fits(queue')
              /\ client' = [client EXCEPT !.pc = "wait", !.sent = @ + 1,
                                          !.cmd = c, !.key = k, !.got = 0]
         ELSE /\ client' = [client EXCEPT !.sent = @ + 1, !.got = 0]
              /\ UNCHANGED queue
  /\ UNCHANGED <<mqAlive, runFlag, servers, hasPath, seps, mgr, proc, db, forked, changes, term>>

\* handle_server_answer: answers with another req_id are dropped; the one
\* with the current req_id ends the command, and only a reported one moves
\* request_counter on.
ClientReceive ==
  /\ client.pc = "wait"
  /\ FirstOf(queue, ClientPid) > 0
  /\ LET i == FirstOf(queue, ClientPid)
         m == queue[i]
     IN  /\ queue' = RemoveAt(queue, i)
         /\ client' = IF m.req # client.req THEN client
                      ELSE [client EXCEPT !.pc = "idle", !.got = m.tag,
                              !.ok = Reported(m.status),
                              !.req = IF Reported(m.status) THEN (@ % RequestWrap) + 1 ELSE @]
  /\ UNCHANGED <<mqAlive, runFlag, servers, hasPath, seps, mgr, proc, db, forked, changes, term>>

\* msgrcvt(60) gives up: "Cannot receive server answer" is thrown, caught
\* in terminal mode, and request_counter is left as it is.
ClientTimeout ==
  /\ client.pc = "wait"
  /\ FirstOf(queue, ClientPid) = 0
  /\ client' = [client EXCEPT !.pc = "idle"]
  /\ UNCHANGED <<queue, mqAlive, runFlag, servers, hasPath, seps, mgr, proc, db, forked, changes, term>>

-----------------------------------------------------------------------------

\* The manager has just started: its queue holds the one ADD_STORAGE_SERVER
\* of the initial server; the client has connected.
Init ==
  /\ queue = <<Msg(1, "ADD_STORAGE_SERVER", "OK", 0)>>
  /\ mqAlive = TRUE
  /\ runFlag = TRUE
  /\ servers = <<>>
  /\ hasPath = FALSE
  /\ seps = <<>>
  /\ mgr = Idle
  /\ proc = [p \in Pids |-> "unborn"]
  /\ db = [p \in Pids |-> EmptyDb]
  /\ forked = 0
  /\ term = [pc |-> "read", n |-> 0]
  /\ client = [pc |-> "idle", req |-> 1, sent |-> 0, cmd |-> "OBTAIN", key |-> 0,
               got |-> 0, ok |-> FALSE]
  /\ changes = 0

Next ==
  \/ MgrPeriodic \/ MgrWait \/ MgrStop \/ MgrReceive
  \/ SetupStep \/ HandlerStep \/ StructStep \/ TerminateStep
  \/ \E p \in Pids : StorageStep(p) \/ StorageLost(p)
  \/ TermLine("run", "ADD_STORAGE_SERVER")
  \/ TermLine("terminate", "TERMINATE_STORAGE_SERVER")
  \/ TermShutdown \/ TermReap
  \/ ClientSend
  \/ ClientReceive \/ ClientTimeout

Spec == Init /\ [][Next]_vars

-----------------------------------------------------------------------------

MsgType == [mtype : Nat, cmd : Commands, status : Statuses, pid : Nat,
            req : Nat, key : Keys \cup {0}, cnt : Nat, tag : Nat]

TypeOK ==
  /\ queue \in Seq(MsgType) /\ Len(queue) <= QueueCap
  /\ mqAlive \in BOOLEAN /\ runFlag \in BOOLEAN
  /\ servers \in Seq(Pids) /\ hasPath \in BOOLEAN /\ seps \in Seq(Keys \cup {Top})
  /\ mgr.pc \in {"loop", "recv", "setup", "count", "tcount", "min", "next", "addl",
                 "displ", "max", "addr", "dispr", "terminate", "struct", "rollback",
                 "dstruct", "down", "crashed"}
  /\ mgr.msg \in MsgType
  /\ proc \in [Pids -> {"unborn", "up", "exited"}]
  /\ db \in [Pids -> [coll : BOOLEAN, keys : SUBSET Keys]]
  /\ forked \in 0..Len(StoragePids)
  /\ term \in [pc : {"read", "reap", "done"}, n : 0..Len(TerminalScript)]
  /\ client.pc \in {"idle", "wait"} /\ client.sent \in 0..Len(ClientScript)

-----------------------------------------------------------------------------
(* Properties.                                                              *)

\* No storage server has a command waiting and the manager is between
\* messages: every transfer it started has been carried out or abandoned.
Quiet == mgr.pc = "loop" /\ \A i \in DOMAIN queue : queue[i].mtype \notin Pids

\* The logins a listed storage server holds.
Stored(s) == db[servers[s]].keys

\* The client's last command was an ADD and handle_server_answer reported
\* it done for that very request.
AddReported ==
  /\ client.pc = "idle" /\ client.got # 0 /\ client.got = client.sent
  /\ client.ok /\ client.cmd = "ADD"

RoutingInRange ==
  hasPath => \A k \in Keys : GetIdForKey(k) < Len(servers)

\* handle_server_answer takes an answer as the one to its request only
\* when it carries that request's req_id: the answer it accepted is the
\* answer to the command it sent last.
AnswerIsOwn == client.got = 0 \/ client.got = client.sent

\* The client prints "Added collection" only when the collection was
\* added on every server.
AddCollectionReported ==
  (client.got # 0 /\ client.got = client.sent /\ client.ok
     /\ client.cmd = "ADD_COLLECTION") => hasPath

\* Once the manager is quiet, no login is on two servers: every transfer
\* that added a login to one server has disposed it from the other.
SingleCopyWhenQuiet ==
  Quiet => \A i, j \in 1..Len(servers) : i < j => Stored(i) \cap Stored(j) = {}

\* Every server in strg_servers is running while the manager runs.
ListedUp ==
  (ManagerRunning /\ runFlag) => \A s \in 1..Len(servers) : proc[servers[s]] = "up"

\* Once the manager is quiet, every login sits on the server get_id_for_key
\* sends it to.
RoutedWhenQuiet ==
  Quiet => \A s \in 1..Len(servers) : \A k \in Stored(s) : GetIdForKey(k) + 1 = s

\* Weak fairness of every process: the manager's thread, each storage
\* server, the terminal thread and the client each keep taking their steps
\* while one is possible (each is a process or thread the OS schedules).
Fairness ==
  /\ WF_vars(MgrPeriodic \/ MgrWait \/ MgrStop \/ MgrReceive \/ SetupStep
             \/ HandlerStep \/ StructStep \/ TerminateStep)
  /\ \A p \in Pids : WF_vars(StorageStep(p) \/ StorageLost(p))
  /\ WF_vars(TermLine("run", "ADD_STORAGE_SERVER")
             \/ TermLine("terminate", "TERMINATE_STORAGE_SERVER")
             \/ TermShutdown \/ TermReap)
  /\ WF_vars(ClientSend \/ ClientReceive \/ ClientTimeout)

FairSpec == Spec /\ Fairness

\* Every handler the manager enters returns to the main loop (or the
\* process ends): handle_add_struct_command's undo loop is meant to undo
\* the servers before the failed one and return.
HandlerReturns ==
  mgr.pc \notin {"loop", "recv", "down", "crashed"} ~> mgr.pc \in {"loop", "down", "crashed"}

=============================================================================

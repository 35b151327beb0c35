------------------------- MODULE MCManagerProtocol -------------------------
(***************************************************************************)
(* ManagerProtocol for TLC: two logins, two storage server forks, pids as   *)
(* numbers above the message types, as getpid() gives them.  The client     *)
(* creates the collection and adds both logins; the manager's operator      *)
(* starts a second storage server, stops it again and shuts down.  Every    *)
(* interleaving of the four processes is explored, and every wait of the    *)
(* manager and the client may give up.                                      *)
(***************************************************************************)
EXTENDS ManagerProtocol

MCStoragePids == <<101, 102>>

MCClientScript == <<<<"ADD_COLLECTION", 0>>, <<"ADD", 1>>, <<"ADD", 2>>>>

MCTerminalScript == <<"run", "terminate", "shutdown">>

\* The client creates the collection once the operator has started the
\* second server.
MCClientScriptCollection == <<<<"ADD_COLLECTION", 0>>>>

MCTerminalScriptRun == <<"run">>
=============================================================================

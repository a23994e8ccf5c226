---------------------------------- MODULE Server ----------------------------------
(* The end of a process (cmd/simpleconf/main.go): after a signal main runs its       *)
(* deferred calls in reverse order, while connections to the TCP API, to the Raft    *)
(* port and forwarded writes are being served.  Each call is what the modules of the *)
(* parts make of it; the HTTP server's Shutdown and Raft's are a step, or a wait.    *)
(*                                                                                   *)
(* Without Raft the cluster manager has nothing to stop, and the Mux here is the     *)
(* peers port's, which nobody closes.                                                *)
EXTENDS Mux, TcpServer

CONSTANT RaftEnabled

ASSUME ServerConstantsOK ==
    {RaftEnabled, AcceptMayFail, TcpAcceptMayFail} \subseteq BOOLEAN /\ MaxCommands \in Nat

VARIABLES main, store, db   \* the call main is at; whether the store and data.aof are open

serverVars == <<muxVars, tcpVars, main, store, db>>

ServerInit == MuxInit /\ TcpInit /\ main = "starting" /\ store = RaftEnabled /\ db = TRUE

\* A panic in the goroutine of Listen ends the process.
Up == main # "exited" /\ listen # "panic"

MainAt(from, to) == Up /\ main = from /\ main' = to

\* cluster.Start sets the handler of the port it has opened; then main listens.
Start == MainAt("starting", "serving") /\ SetHandler /\ UNCHANGED <<tcpVars, store, db>>

\* tcpApp.Shutdown
Signal == MainAt("serving", "tcp") /\ StoreExit /\ UNCHANGED <<muxVars, store, db>>
TcpShutdown == MainAt("tcp", "http") /\ CloseTCP /\ UNCHANGED <<muxVars, store, db>>

\* app.Shutdown returns once no request is being served.
HttpShutdown ==
    /\ MainAt("http", IF RaftEnabled THEN "raft" ELSE "db")
    /\ UNCHANGED <<muxVars, tcpVars, store, db>>

\* raft.Shutdown closes the transport, and with it the Mux.
RaftShutdown ==
    /\ UNCHANGED <<tcpVars, store, db>>
    /\ \/ MainAt("raft", "mux") /\ MuxClose
       \/ MainAt("mux", "mux") /\ CloseHandled
       \/ MainAt("mux", "store") /\ CloseListener

StoreClose == MainAt("store", "db") /\ store' = FALSE /\ UNCHANGED <<muxVars, tcpVars, db>>

\* db.Close, and main returns.
DbClose == MainAt("db", "closed") /\ db' = FALSE /\ UNCHANGED <<muxVars, tcpVars, store>>
Exit == MainAt("closed", "exited") /\ UNCHANGED <<muxVars, tcpVars, store, db>>

\* The goroutines.
Goroutines ==
    /\ Up
    /\ \/ MuxRuns /\ UNCHANGED <<tcpVars, main, store, db>>
       \/ main # "starting" /\ TcpRuns /\ UNCHANGED <<muxVars, main, store, db>>

Stopping == Signal \/ TcpShutdown \/ HttpShutdown \/ RaftShutdown \/ StoreClose \/ DbClose \/ Exit
ServerNext == Start \/ Goroutines \/ Stopping

ServerSpec == ServerInit /\ [][ServerNext]_serverVars

--------------------------------------------------------------------------------
\* What was opened is closed by the time the process ends, unless it panics.
ClosedAtExit == main = "exited" => ~store /\ ~db /\ (RaftEnabled => port = "closed")

\* tcpApp.Shutdown does not wait for handlers, so one may still apply a command when
\* the document's file has been closed: without Raft it is answered and nowhere.
NoWriteAfterClose == ~RaftEnabled /\ ~db => \A c \in TcpConns : tcp[c] # "apply"
================================================================================

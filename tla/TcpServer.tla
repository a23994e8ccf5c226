-------------------------------- MODULE TcpServer --------------------------------
(* The TCP API's server (internal/tcpapi/server.go): Listen accepts in one          *)
(* goroutine, handle serves each connection in its own, and Shutdown tells them to  *)
(* stop from main's.  What a command answers is left out; whether it is applied is   *)
(* not.                                                                             *)
EXTENDS Naturals

CONSTANTS
    TcpConns, MaxCommands,  \* connections, and commands on each: bounds
    TcpAcceptMayFail        \* whether Accept may fail for a reason other than Shutdown

VARIABLES
    exit,       \* p.exit
    listener,   \* p.listener: "nil", "open" or "closed"
    sock,       \* the socket: "none", "open" or "closed"
    listen,     \* the step Listen is at
    tcp,        \* by connection: the step handle is at
    sent,       \* commands the client has still to send
    after,      \* commands applied since exit was set
    stop,       \* the step Shutdown is at
    unasked     \* ghost: Accept failed without Shutdown

tcpVars == <<exit, listener, sock, listen, tcp, sent, after, stop, unasked>>

TcpInit ==
    /\ exit = FALSE /\ listener = "nil" /\ sock = "none" /\ listen = "start"
    /\ tcp = [c \in TcpConns |-> "none"] /\ sent = [c \in TcpConns |-> MaxCommands]
    /\ after = [c \in TcpConns |-> 0] /\ stop = "no" /\ unasked = FALSE

ListenAt(from, to) == listen = from /\ listen' = to
HandleAt(c, from, to) == tcp[c] = from /\ tcp' = [tcp EXCEPT ![c] = to]

Bind ==
    /\ ListenAt("start", "bound") /\ sock' = "open"
    /\ UNCHANGED <<exit, listener, tcp, sent, after, stop, unasked>>

SetListener ==
    /\ ListenAt("bound", "loop") /\ listener' = "open"
    /\ UNCHANGED <<exit, sock, tcp, sent, after, stop, unasked>>

\* for !p.exit.Load()
Loop ==
    /\ ListenAt("loop", IF exit THEN "wait" ELSE "accept")
    /\ UNCHANGED <<exit, listener, sock, tcp, sent, after, stop, unasked>>

\* AcceptTCP, wg.Add and the goroutine.
AcceptTCP(c) ==
    /\ ListenAt("accept", "loop") /\ sock = "open" /\ HandleAt(c, "none", "loop")
    /\ UNCHANGED <<exit, listener, sock, sent, after, stop, unasked>>

AcceptTCPFails ==
    /\ ListenAt("accept", "failed")
    /\ \/ sock = "closed" /\ UNCHANGED unasked
       \/ sock = "open" /\ TcpAcceptMayFail /\ unasked' = TRUE
    /\ UNCHANGED <<exit, listener, sock, tcp, sent, after, stop>>

\* An error that Shutdown did not ask for is returned, and main panics at once.
Failed ==
    /\ ListenAt("failed", IF exit THEN "wait" ELSE "panic")
    /\ UNCHANGED <<exit, listener, sock, tcp, sent, after, stop, unasked>>

\* wg.Wait, and the deferred function.
Wait ==
    /\ ListenAt("wait", "returned")
    /\ \A c \in TcpConns : tcp[c] \in {"none", "done"}
    /\ listener' = "nil" /\ sock' = "closed"
    /\ UNCHANGED <<exit, tcp, sent, after, stop, unasked>>

\* handle: for !p.exit.Load()
HandleLoop(c) ==
    /\ HandleAt(c, "loop", IF exit THEN "done" ELSE "read")
    /\ UNCHANGED <<exit, listener, sock, listen, sent, after, stop, unasked>>

\* readlineFlush: a line, or an error once the client has gone or flushing fails.  A
\* client that says nothing keeps it waiting, and nothing else ends that.
ReadLine(c) ==
    /\ \/ sent[c] > 0 /\ sent' = [sent EXCEPT ![c] = @ - 1] /\ HandleAt(c, "read", "apply")
       \/ HandleAt(c, "read", "done") /\ UNCHANGED sent
    /\ UNCHANGED <<exit, listener, sock, listen, after, stop, unasked>>

\* The switch: the command is applied, or refused, and the reply is buffered.
Command(c) ==
    /\ HandleAt(c, "apply", "loop")
    /\ after' = [after EXCEPT ![c] = IF exit THEN @ + 1 ELSE @]
    /\ UNCHANGED <<exit, listener, sock, listen, sent, stop, unasked>>

\* Shutdown.
StoreExitNot ==  \* mutant: the listener is closed and nobody is told why
    /\ stop = "no" /\ stop' = "exit"
    /\ UNCHANGED <<exit, listener, sock, listen, tcp, sent, after, unasked>>
StoreExit ==
    /\ stop = "no" /\ stop' = "exit" /\ exit' = TRUE
    /\ UNCHANGED <<listener, sock, listen, tcp, sent, after, unasked>>

CloseTCP ==
    /\ stop = "exit" /\ stop' = "yes"
    /\ listener' = IF listener = "open" THEN "closed" ELSE listener
    /\ sock' = IF listener = "open" THEN "closed" ELSE sock
    /\ UNCHANGED <<exit, listen, tcp, sent, after, unasked>>

Handle(c) == HandleLoop(c) \/ ReadLine(c) \/ Command(c)
TcpRuns ==
    \/ Bind \/ SetListener \/ Loop \/ AcceptTCPFails \/ Failed \/ Wait
    \/ \E c \in TcpConns : AcceptTCP(c) \/ Handle(c)

--------------------------------------------------------------------------------
TcpTypeOK ==
    /\ exit \in BOOLEAN /\ listener \in {"nil", "open", "closed"}
    /\ sock \in {"none", "open", "closed"}
    /\ listen \in {"start", "bound", "loop", "accept", "failed", "wait", "returned", "panic"}
    /\ tcp \in [TcpConns -> {"none", "loop", "read", "apply", "done"}]
    /\ stop \in {"no", "exit", "yes"} /\ exit = (stop # "no")

\* main panics with what Listen returns, and then no deferred call runs: neither the
\* Raft store nor the document would be closed.  Whatever step Listen is at, also before
\* it has a listener to close, Shutdown never makes it return an error.
StopNeverPanics == listen = "panic" => unasked

\* A handler that Shutdown finds between two commands applies one more at the most.
AtMostOneMore == \A c \in TcpConns : after[c] <= 1
================================================================================

----------------------------------- MODULE Mux -----------------------------------
(* The listener that the Raft port and the peers port are split with                *)
(* (internal/wire/wire.go): each connection's first byte decides whether it goes to *)
(* the handler or to whoever calls Accept.  One goroutine accepts, each connection  *)
(* has one of its own, and Close runs in another.  What a handler does with its     *)
(* connection is left out: it ends when the connection is closed, or before.        *)
EXTENDS FiniteSets

CONSTANTS
    MuxConns,       \* connections clients make: a bound
    AcceptMayFail   \* whether Accept may fail for a reason other than Close

VARIABLES
    port,       \* m.ln: "open" or "closed"
    acceptor,   \* the goroutine of serve: "accepting", "failed" or "gone"
    mc,         \* by connection: where its goroutine is
    open,       \* connections this end has not closed
    kind,       \* what the client's first byte says, or "silent" while it says nothing
    handler,    \* m.handler # nil
    handled,    \* m.handled
    closed,     \* m.closed, and m.done closed with it
    closing     \* the step Close is at

muxVars == <<port, acceptor, mc, open, kind, handler, handled, closed, closing>>

MuxInit ==
    /\ port = "open" /\ acceptor = "accepting"
    /\ mc = [c \in MuxConns |-> "none"] /\ open = {}
    /\ kind \in [MuxConns -> {"match", "rest", "silent"}]
    /\ handler = FALSE /\ handled = {} /\ closed = FALSE /\ closing = "no"

At(c, from, to) == mc[c] = from /\ mc' = [mc EXCEPT ![c] = to]
CloseConn(c) == open' = open \ {c}

\* Start calls SetHandler after the Raft transport, which accepts, has been made.
SetHandler ==
    /\ ~handler /\ handler' = TRUE
    /\ UNCHANGED <<port, acceptor, mc, open, kind, handled, closed, closing>>

\* A client connects and is in the listener's queue.
Connect(c) ==
    /\ port = "open" /\ At(c, "none", "queued")
    /\ UNCHANGED <<port, acceptor, open, kind, handler, handled, closed, closing>>

\* serve: a connection, whose goroutine is in route now; or an error.
AcceptConn(c) ==
    /\ acceptor = "accepting" /\ port = "open" /\ At(c, "queued", "route")
    /\ open' = open \cup {c}
    /\ UNCHANGED <<port, acceptor, kind, handler, handled, closed, closing>>

AcceptError ==
    /\ acceptor = "accepting" /\ (port = "closed" \/ AcceptMayFail)
    /\ acceptor' = "failed"
    /\ UNCHANGED <<port, mc, open, kind, handler, handled, closed, closing>>

\* After Close, and after an error that is not a timeout, serve is over; a timeout is
\* slept on.
ServeEnds ==
    /\ acceptor = "failed"
    /\ \/ acceptor' = "gone"
       \/ ~closed /\ acceptor' = "accepting"
    /\ UNCHANGED <<port, mc, open, kind, handler, handled, closed, closing>>

\* route: the first byte, or ten seconds without one, or the client has gone.
FirstByte(c) ==
    /\ \/ kind[c] = "match" /\ At(c, "route", "match") /\ UNCHANGED open
       \/ kind[c] = "rest" /\ At(c, "route", "offer") /\ UNCHANGED open
       \/ At(c, "route", "done") /\ CloseConn(c)
    /\ UNCHANGED <<port, acceptor, kind, handler, handled, closed, closing>>

\* m.rest <- conn, or m.done; Accept may take a connection after Close, too, since a
\* select with both ready takes either.
OfferRest(c) ==
    /\ \/ At(c, "offer", "accepted") /\ UNCHANGED open
       \/ closed /\ At(c, "offer", "done") /\ CloseConn(c)
    /\ UNCHANGED <<port, acceptor, kind, handler, handled, closed, closing>>

\* The critical section of route.
ToHandlerUnchecked(c) ==  \* mutant: m.closed is not looked at
    /\ IF ~handler
       THEN At(c, "match", "done") /\ CloseConn(c) /\ UNCHANGED handled
       ELSE At(c, "match", "handling") /\ handled' = handled \cup {c} /\ UNCHANGED open
    /\ UNCHANGED <<port, acceptor, kind, handler, closed, closing>>
ToHandler(c) ==
    /\ IF ~handler \/ closed
       THEN At(c, "match", "done") /\ CloseConn(c) /\ UNCHANGED handled
       ELSE At(c, "match", "handling") /\ handled' = handled \cup {c} /\ UNCHANGED open
    /\ UNCHANGED <<port, acceptor, kind, handler, closed, closing>>

\* The handler returns and the deferred function runs: under the mutex, then Close.
HandlerReturns(c) ==
    /\ At(c, "handling", "returned") /\ handled' = handled \ {c}
    /\ UNCHANGED <<port, acceptor, open, kind, handler, closed, closing>>

CloseReturned(c) ==
    /\ At(c, "returned", "done") /\ CloseConn(c)
    /\ UNCHANGED <<port, acceptor, kind, handler, handled, closed, closing>>

\* Close: closed and done under the mutex, then CloseHandled, then the listener, whose
\* queue is reset with it.
MuxClose ==
    /\ closing = "no" /\ closing' = "handled" /\ closed' = TRUE
    /\ UNCHANGED <<port, acceptor, mc, open, kind, handler, handled>>

CloseHandled ==
    /\ closing = "handled" /\ closing' = "listener"
    /\ open' = open \ handled
    /\ UNCHANGED <<port, acceptor, mc, kind, handler, handled, closed>>

CloseListener ==
    /\ closing = "listener" /\ closing' = "yes" /\ port' = "closed"
    /\ mc' = [c \in MuxConns |-> IF mc[c] = "queued" THEN "done" ELSE mc[c]]
    /\ UNCHANGED <<acceptor, open, kind, handler, handled, closed>>

MuxStep(c) == FirstByte(c) \/ OfferRest(c) \/ ToHandler(c) \/ HandlerReturns(c) \/ CloseReturned(c)
MuxRuns ==
    \/ AcceptError \/ ServeEnds
    \/ \E c \in MuxConns : Connect(c) \/ AcceptConn(c) \/ MuxStep(c)
MuxCloses == CloseHandled \/ CloseListener

--------------------------------------------------------------------------------
MuxTypeOK ==
    /\ port \in {"open", "closed"} /\ acceptor \in {"accepting", "failed", "gone"}
    /\ mc \in [MuxConns -> {"none", "queued", "route", "offer", "accepted", "match",
                            "handling", "returned", "done"}]
    /\ closing \in {"no", "handled", "listener", "yes"} /\ closed = (closing # "no")
    /\ handled = {c \in MuxConns : mc[c] = "handling"}
    /\ open \subseteq {c \in MuxConns : mc[c] \notin {"none", "queued", "done"}}

\* Close "closes the connections being handled" (wire.go:156), whatever connections were
\* between Accept, the first byte and the handler while it ran: when it has returned no
\* handler serves an open one, and none will.
ClosedMeansClosed == closing \in {"listener", "yes"} => open \cap handled = {}

\* A port that is open is accepted from.  An accept error such as too many open files
\* ends serve for good (wire.go:100), and the node is deaf.
KeepsAccepting == acceptor = "gone" => port = "closed" \/ closed
================================================================================

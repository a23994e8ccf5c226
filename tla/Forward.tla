--------------------------------- MODULE Forward ---------------------------------
(* A write on its way to the leader (internal/cluster/forward.go, cluster.go): a    *)
(* node that is not the leader sends it over a pooled connection to the leader's    *)
(* Raft port, over a fresh one when that fails, and over HTTP when the leader       *)
(* closes a fresh connection without a reply, as v0.6 does.                         *)
(*                                                                                  *)
(* Raft is a library, known here by what the code asks of it: whether this node is  *)
(* the leader, who it thinks is, and the result of a proposal.  A call is one run   *)
(* of Manager.apply: hop 1 is the client's request, and the request that forwardHTTP *)
(* makes of a node is a call of the next hop.  The text of answers is left out.     *)
EXTENDS Naturals, Sequences, FiniteSets, Functions

CONSTANTS
    Nodes,
    Writes,         \* the clients' writes
    At,             \* the node each is sent to
    First,          \* the first leader
    Conns,          \* connections to a Raft port that may be made: a bound
    MaxIdle,        \* maxIdleForward (4 in the code)
    OldNodes,       \* sets of nodes that may run v0.6
    None,
    MaxHops, MaxElections, MaxTimeouts, MaxDrops    \* bounds (MaxDrops counts stops, too)

Answers == {"ok", "notleader", "error"}

ASSUME ForwardConstantsOK ==
    /\ At \in [Writes -> Nodes] /\ First \in Nodes /\ None \notin Nodes \cup Conns \cup Writes \cup Answers
    /\ \A o \in OldNodes : o \subseteq Nodes
    /\ MaxHops \in Nat \ {0} /\ {MaxIdle, MaxElections, MaxTimeouts, MaxDrops} \subseteq Nat

VARIABLES
    (* Raft. *)
    lead,           \* the leader of the newest term, or None
    leaders,        \* the nodes whose State() is Leader; an old one may still be
    knows,          \* LeaderWithID at each node
    proposed,       \* writes proposed to lead and not decided
    log,            \* writes that are committed
    (* Calls and connections. *)
    call,           \* by write and hop: where it is, at which node, its connection,
                    \* the address it was given and its answer
    conn,           \* from and to, the client's end, the server's end, requests and
                    \* replies under way, and whether the network has lost it
    idle,           \* fwd.idle of each node: a stack of connections
    unsupported,    \* fwd.unsupported: <<node, address>>
    old,            \* the nodes that run v0.6
    stopped,        \* the nodes that have been shut down: fwd.closed
    nelect, ntime, ndrop

raftVars == <<lead, leaders, knows, proposed, log>>
vars == <<raftVars, call, conn, idle, unsupported, old, stopped, nelect, ntime, ndrop>>

Call == Writes \X (1..MaxHops)
NoCall == [pc |-> "none", at |-> None, to |-> None, conn |-> None, answer |-> None]
Unused == [from |-> None, to |-> None, client |-> "unused", server |-> "unused",
           req |-> <<>>, serving |-> None, rep |-> <<>>, lost |-> FALSE]

Init ==
    /\ lead = First /\ leaders = {First} /\ knows = [m \in Nodes |-> First]
    /\ proposed = <<>> /\ log = <<>>
    /\ call = [k \in Call |-> IF k[2] = 1 THEN [NoCall EXCEPT !.pc = "start", !.at = At[k[1]]]
                              ELSE NoCall]
    /\ conn = [c \in Conns |-> Unused] /\ idle = [n \in Nodes |-> <<>>]
    /\ unsupported = {} /\ old \in OldNodes /\ stopped = {}
    /\ nelect = 0 /\ ntime = 0 /\ ndrop = 0

boundVars == <<nelect, ntime, ndrop>>
Unmoved == UNCHANGED <<old, stopped, nelect, ndrop>>

--------------------------------------------------------------------------------
(* Raft.                                                                           *)

CallsUnchanged == UNCHANGED <<call, conn, idle, unsupported, old, stopped>>

Commit ==
    /\ lead # None /\ proposed # <<>>
    /\ log' = Append(log, Head(proposed)) /\ proposed' = Tail(proposed)
    /\ UNCHANGED <<lead, leaders, knows, boundVars>> /\ CallsUnchanged

\* A new leader has some of what the last one was still replicating, which is
\* committed with its term, and drops the rest.  The last one may not know yet.  One
\* that lost its leadership has failed what was waiting there (a future's result).
Waiting(n) == \/ \E k \in Call : call[k].pc = "wait" /\ call[k].at = n
              \/ \E c \in Conns : conn[c].server = "wait" /\ conn[c].to = n

Elect(n) ==
    /\ n \notin leaders \cup stopped /\ ~Waiting(n)
    /\ nelect < MaxElections /\ nelect' = nelect + 1
    /\ lead' = n /\ leaders' = leaders \cup {n} /\ knows' = [knows EXCEPT ![n] = n]
    /\ \E i \in 0..Len(proposed) : log' = log \o SubSeq(proposed, 1, i)
    /\ proposed' = <<>>
    /\ UNCHANGED <<ntime, ndrop>> /\ CallsUnchanged

\* A leader that another has replaced, or that reaches no majority, steps down.
StepDown(n) ==
    /\ n \in leaders
    /\ n = lead => nelect < MaxElections
    /\ leaders' = leaders \ {n} /\ knows' = [knows EXCEPT ![n] = None]
    /\ lead' = IF n = lead THEN None ELSE lead
    /\ UNCHANGED <<proposed, log, boundVars>> /\ CallsUnchanged

Learn(n) ==
    /\ n \notin leaders \cup stopped /\ knows[n] # lead
    /\ knows' = [knows EXCEPT ![n] = lead]
    /\ UNCHANGED <<lead, leaders, proposed, log, boundVars>> /\ CallsUnchanged

\* raft.Apply at a node.  What an old leader takes is never committed.
Propose(n, w) == /\ n \in leaders
                 /\ proposed' = IF n = lead THEN Append(proposed, w) ELSE proposed
                 /\ UNCHANGED <<lead, leaders, knows, log>>

\* The result of a proposal: the write has been applied, or the node has lost its
\* leadership before it knew of that.
CommittedHere(n, w) == w \in Range(log)
Result(n, w) == {a \in {"ok", "error"} : IF a = "ok" THEN CommittedHere(n, w) ELSE n \notin leaders}

--------------------------------------------------------------------------------
(* Manager.apply.                                                                  *)

W(k) == k[1]
Becomes(k, pc) == call' = [call EXCEPT ![k].pc = pc, ![k].conn = None]

\* An answer ends the call; a connection fit for reuse was put back before.
Answered(k, a) == call' = [call EXCEPT ![k].pc = "done", ![k].answer = a, ![k].conn = None]

Same == UNCHANGED <<raftVars, conn, idle, unsupported, ntime>> /\ Unmoved

\* apply, up to raft.Apply or LeaderWithID.  A v0.6 node forwards over HTTP alone.
Start(k) ==
    /\ call[k].pc = "start"
    /\ LET n == call[k].at
       IN \/ n \in leaders /\ Becomes(k, "propose")
          \/ n \notin leaders /\ knows[n] = None /\ Answered(k, "notleader")
          \/ /\ n \notin leaders /\ knows[n] # None
             /\ call' = [call EXCEPT ![k].pc = IF n \in old THEN "http" ELSE "pick",
                                     ![k].to = knows[n]]
    /\ Same

\* raft.Apply of a node that is not the leader any more fails at once.
ApplyHere(k) ==
    /\ call[k].pc = "propose"
    /\ \/ Propose(call[k].at, W(k)) /\ Becomes(k, "wait")
       \/ call[k].at \notin leaders /\ Answered(k, "error") /\ UNCHANGED raftVars
    /\ UNCHANGED <<conn, idle, unsupported, ntime>> /\ Unmoved

ApplyDone(k) ==
    /\ call[k].pc = "wait"
    /\ \E a \in Result(call[k].at, W(k)) : Answered(k, a)
    /\ Same

--------------------------------------------------------------------------------
(* forwardTCP and roundTrip.                                                       *)

Sent(c, w) == [conn[c] EXCEPT !.client = "busy", !.req = IF conn[c].lost THEN @ ELSE Append(@, w)]

\* forwardPool.get: the connection that was put there last, from this node to the
\* leader's address.  The request is written even if the other end has closed.
ToAddr(n, a) == {i \in DOMAIN idle[n] : conn[idle[n][i]].to = a}
Without(s, i) == SubSeq(s, 1, i - 1) \o SubSeq(s, i + 1, Len(s))

Pick(k) ==
    /\ call[k].pc = "pick"
    /\ LET n == call[k].at
           is == ToAddr(n, call[k].to)
       IN \/ /\ <<n, call[k].to>> \in unsupported
             /\ Becomes(k, "http") /\ UNCHANGED <<conn, idle>>
          \/ /\ <<n, call[k].to>> \notin unsupported /\ is = {}
             /\ Becomes(k, "dial") /\ UNCHANGED <<conn, idle>>
          \/ /\ <<n, call[k].to>> \notin unsupported /\ is # {}
             /\ LET i == CHOOSE j \in is : \A l \in is : l <= j
                    c == idle[n][i]
                IN /\ idle' = [idle EXCEPT ![n] = Without(@, i)]
                   /\ conn' = [conn EXCEPT ![c] = Sent(c, W(k))]
                   /\ call' = [call EXCEPT ![k].pc = "pooled", ![k].conn = c]
    /\ UNCHANGED <<raftVars, unsupported, ntime>> /\ Unmoved

\* dialForward, and the request.  A dial may fail.  A v0.6 node takes the first byte for
\* a Raft RPC of unknown type and closes.
NewConn == CHOOSE c \in Conns : conn[c] = Unused
Connected(k) == [Unused EXCEPT !.from = call[k].at, !.to = call[k].to, !.client = "busy",
                               !.server = IF call[k].to \in old THEN "gone" ELSE "read",
                               !.req = IF call[k].to \in old THEN <<>> ELSE <<W(k)>>]

Dial(k) ==
    /\ call[k].pc = "dial"
    /\ \/ /\ call[k].to \notin stopped /\ \E c \in Conns : conn[c] = Unused
          /\ conn' = [conn EXCEPT ![NewConn] = Connected(k)]
          /\ call' = [call EXCEPT ![k].pc = "fresh", ![k].conn = NewConn]
       \/ Answered(k, "error") /\ UNCHANGED conn
    /\ UNCHANGED <<raftVars, idle, unsupported, ntime>> /\ Unmoved

\* A whole reply came back: forwardPool.put, and the leader's answer.
PutBackAlways(k, c) ==  \* mutant: put looks neither at p.closed nor at maxIdleForward
    /\ idle' = [idle EXCEPT ![call[k].at] = Append(@, c)]
    /\ conn' = [conn EXCEPT ![c].client = "idle",
                            ![c].rep = IF @ = <<>> THEN @ ELSE Tail(@)]
PutBack(k, c) ==
    LET n == call[k].at
        fits == n \notin stopped /\ Cardinality(ToAddr(n, conn[c].to)) < MaxIdle
    IN /\ idle' = [idle EXCEPT ![n] = IF fits THEN Append(@, c) ELSE @]
       /\ conn' = [conn EXCEPT ![c].client = IF fits THEN "idle" ELSE "closed",
                               ![c].rep = IF @ = <<>> THEN @ ELSE Tail(@)]

TakeReply(k) ==
    /\ call[k].pc \in {"pooled", "fresh"}
    /\ LET c == call[k].conn
       IN /\ ~conn[c].lost /\ conn[c].rep # <<>>
          /\ PutBack(k, c) /\ Answered(k, Head(conn[c].rep)[2])
    /\ UNCHANGED <<raftVars, unsupported, ntime>> /\ Unmoved

\* Not sent: the connection is closed.  A pooled one is replaced once; a fresh one
\* that was closed without a reply means a node that takes no forwarded writes.
HungUp(c) == ~conn[c].lost /\ conn[c].server = "gone" /\ conn[c].rep = <<>>

CloseConn(k) == conn' = [conn EXCEPT ![call[k].conn].client = "closed"] /\ UNCHANGED idle

CutOff(k) ==
    /\ call[k].pc \in {"pooled", "fresh"} /\ HungUp(call[k].conn)
    /\ CloseConn(k)
    /\ IF call[k].pc = "pooled" THEN Becomes(k, "dial") /\ UNCHANGED unsupported
       ELSE /\ unsupported' = unsupported \cup {<<call[k].at, call[k].to>>}
            /\ Becomes(k, "http")
    /\ UNCHANGED <<raftVars, ntime>> /\ Unmoved

\* The deadline passes, sooner or later on a connection that is lost; MaxTimeouts
\* bounds the times that an answer would still have come.
Late(inTime) == IF inTime THEN ntime < MaxTimeouts /\ ntime' = ntime + 1 ELSE UNCHANGED ntime

TimeoutReusing(k) ==  \* mutant: a connection whose answer is late goes back to the pool
    /\ call[k].pc \in {"pooled", "fresh"} /\ ~HungUp(call[k].conn)
    /\ Late(~conn[call[k].conn].lost)
    /\ PutBack(k, call[k].conn)
    /\ IF call[k].pc = "pooled" THEN Becomes(k, "dial") ELSE Answered(k, "error")
    /\ UNCHANGED <<raftVars, unsupported>> /\ Unmoved
TimeoutNever(k) == FALSE  \* mutant: a round trip has no deadline
Timeout(k) ==
    /\ call[k].pc \in {"pooled", "fresh"} /\ ~HungUp(call[k].conn)
    /\ Late(~conn[call[k].conn].lost)
    /\ CloseConn(k)
    /\ IF call[k].pc = "pooled" THEN Becomes(k, "dial") ELSE Answered(k, "error")
    /\ UNCHANGED <<raftVars, unsupported>> /\ Unmoved

\* retryUnsupported has passed.
Expire ==
    /\ \E e \in unsupported : unsupported' = unsupported \ {e}
    /\ UNCHANGED <<raftVars, call, conn, idle, ntime>> /\ Unmoved

--------------------------------------------------------------------------------
(* forwardHTTP, to the address of whoever is known as the leader by then; every   *)
(* node is configured with all addresses.  The handler there makes a call.        *)

Child(k) == <<k[1], k[2] + 1>>

AskHTTP(k) ==
    /\ call[k].pc = "http"
    /\ LET h == IF call[k].at \in leaders THEN call[k].at ELSE knows[call[k].at]
       IN \/ h \in {None} \cup stopped /\ Answered(k, "error")
          \/ h # None /\ k[2] = MaxHops /\ Answered(k, "error")
          \/ /\ h \notin {None} \cup stopped /\ k[2] < MaxHops
             /\ call' = [call EXCEPT ![k].pc = "asked",
                                     ![Child(k)] = [NoCall EXCEPT !.pc = "start", !.at = h]]
    /\ Same

HTTPReply(k) ==
    /\ call[k].pc = "asked" /\ call[Child(k)].pc = "done"
    /\ Answered(k, call[Child(k)].answer)
    /\ Same

HTTPTimeout(k) ==
    /\ call[k].pc = "asked" /\ call[Child(k)].pc # "done" /\ Late(TRUE)
    /\ Answered(k, "error")
    /\ UNCHANGED <<raftVars, conn, idle, unsupported>> /\ Unmoved

--------------------------------------------------------------------------------
(* The other end: Mux.route, serveForward and applyForwarded.                      *)

ServerIs(c, s) == conn' = [conn EXCEPT ![c].server = s]
ServerSame == UNCHANGED <<raftVars, call, idle, unsupported, ntime>> /\ Unmoved

\* The reply is written to a connection that the client may have closed.
Reply(c, w, a) == conn' = [conn EXCEPT ![c].server = "read", ![c].serving = None,
                               ![c].req = IF conn[c].serving = None THEN Tail(@) ELSE @,
                               ![c].rep = Append(@, <<w, a>>)]

\* The next request, which waits to be read until the node's state is looked at, or the
\* end of the stream once the client has closed.
ReadRequest(c) ==
    /\ conn[c].server = "read" /\ ~conn[c].lost
    /\ \/ /\ conn[c].req # <<>> /\ conn[c].to \in leaders
          /\ conn' = [conn EXCEPT ![c].server = "propose", ![c].serving = Head(conn[c].req),
                                  ![c].req = Tail(@)]
       \/ /\ conn[c].req # <<>> /\ conn[c].to \notin leaders
          /\ Reply(c, Head(conn[c].req), "notleader")
       \/ conn[c].req = <<>> /\ conn[c].client = "closed" /\ ServerIs(c, "gone")
    /\ ServerSame

ApplyForwarded(c) ==
    /\ conn[c].server = "propose"
    /\ \/ Propose(conn[c].to, conn[c].serving) /\ ServerIs(c, "wait")
       \/ conn[c].to \notin leaders /\ Reply(c, conn[c].serving, "error") /\ UNCHANGED raftVars
    /\ UNCHANGED <<call, idle, unsupported, ntime>> /\ Unmoved

ForwardedDoneEarly(c) ==  \* mutant: the future is not waited for
    /\ conn[c].server = "wait" /\ Reply(c, conn[c].serving, "ok") /\ ServerSame
ForwardedDone(c) ==
    /\ conn[c].server = "wait"
    /\ \E a \in Result(conn[c].to, conn[c].serving) : Reply(c, conn[c].serving, a)
    /\ ServerSame

\* The network loses a connection, or it is reset at any time: the other end stops
\* (Mux.Close, a crash), also after it proposed the write it was sent.
Drop(c) ==
    /\ conn[c].client \in {"busy", "idle"} /\ ~conn[c].lost
    /\ ndrop < MaxDrops /\ ndrop' = ndrop + 1
    /\ \/ conn' = [conn EXCEPT ![c].lost = TRUE]
       \/ conn[c].server # "gone" /\ conn' = [conn EXCEPT ![c].server = "gone", ![c].rep = <<>>]
    /\ UNCHANGED <<raftVars, call, idle, unsupported, old, stopped, nelect, ntime>>

\* Manager.Shutdown: Raft fails what waits for it, the Mux closes the connections to
\* this node, and forwardPool.close those in the pool.  Calls go on.
StopNode(n) ==
    /\ n \notin stopped /\ ndrop < MaxDrops /\ ndrop' = ndrop + 1
    /\ stopped' = stopped \cup {n}
    /\ leaders' = leaders \ {n} /\ lead' = IF n = lead THEN None ELSE lead
    /\ knows' = [knows EXCEPT ![n] = None]
    /\ conn' = [c \in Conns |->
          [conn[c] EXCEPT !.server = IF @ # "unused" /\ conn[c].to = n THEN "gone" ELSE @,
                          !.client = IF c \in Range(idle[n]) THEN "closed" ELSE @]]
    /\ idle' = [idle EXCEPT ![n] = <<>>]
    /\ UNCHANGED <<proposed, log, call, unsupported, old, nelect, ntime>>

--------------------------------------------------------------------------------
Raft    == Commit \/ \E n \in Nodes : Elect(n) \/ StepDown(n) \/ Learn(n)
Step(k) == \/ Start(k) \/ ApplyHere(k) \/ ApplyDone(k) \/ Pick(k) \/ Dial(k) \/ TakeReply(k)
           \/ CutOff(k) \/ Timeout(k) \/ AskHTTP(k) \/ HTTPReply(k) \/ HTTPTimeout(k)
Serve(c) == ReadRequest(c) \/ ApplyForwarded(c) \/ ForwardedDone(c)

Next ==
    \/ Raft \/ Expire \/ \E n \in Nodes : StopNode(n)
    \/ \E k \in Call : Step(k)
    \/ \E c \in Conns : Serve(c) \/ Drop(c)

Spec == Init /\ [][Next]_vars

\* Goroutines run, what the leader has is committed, and a leader that was replaced
\* finds out; nobody else need be elected.
FairSpec ==
    /\ Spec /\ WF_vars(Commit)
    /\ \A n \in Nodes : WF_vars(n # lead /\ StepDown(n))
    /\ \A k \in Call : WF_vars(Step(k))
    /\ \A c \in Conns : WF_vars(Serve(c))

--------------------------------------------------------------------------------
Here(c) == Range(conn[c].req) \cup {r[1] : r \in Range(conn[c].rep)}
           \cup (IF conn[c].serving = None THEN {} ELSE {conn[c].serving})

Node == Nodes \cup {None}
CallRecord ==
    [pc : {"none", "start", "propose", "wait", "pick", "dial", "pooled", "fresh", "http",
           "asked", "done"},
     at : Node, to : Node, conn : Conns \cup {None}, answer : Answers \cup {None}]
ConnRecord ==
    [from : Node, to : Node, client : {"unused", "busy", "idle", "closed"},
     server : {"unused", "read", "propose", "wait", "gone"}, req : Seq(Writes),
     serving : Writes \cup {None}, rep : Seq(Writes \X Answers), lost : BOOLEAN]

RaftTypes ==
    /\ lead \in Node /\ leaders \subseteq Nodes
    /\ lead # None => lead \in leaders
    /\ knows \in [Nodes -> Node]
    /\ proposed \in Seq(Writes) /\ log \in Seq(Writes)
Fields ==
    /\ call \in [Call -> CallRecord] /\ conn \in [Conns -> ConnRecord]
    /\ idle \in [Nodes -> Seq(Conns)] /\ unsupported \subseteq Nodes \X Nodes
    /\ stopped \subseteq Nodes
CallFits(x) ==
    /\ x.answer # None <=> x.pc = "done"
    /\ x.conn # None <=> x.pc \in {"pooled", "fresh"}
    /\ x.conn # None => conn[x.conn].client = "busy"
PoolFits(n) ==
    /\ \A c \in Range(idle[n]) : conn[c].client = "idle" /\ conn[c].from = n
    /\ IsInjective(idle[n])
    /\ n \in stopped => idle[n] = <<>>
    /\ \A a \in Nodes : Cardinality(ToAddr(n, a)) <= MaxIdle
TypeOK ==
    /\ RaftTypes /\ Fields
    /\ \A k \in Call : CallFits(call[k])
    /\ \A n \in Nodes : PoolFits(n)

\* The answer that a call reads is the answer to its own write: a connection that may
\* still carry another's is never reused (roundTrip's sent, forwardTCP).
AnswerIsOwn ==
    \A k \in Call : call[k].conn # None =>
        /\ Here(call[k].conn) \subseteq {W(k)}
        /\ \A l \in Call \ {k} : call[l].conn # call[k].conn

\* A write that was answered with success is committed, wherever it went: through a
\* connection, a second one, or HTTP and another node (apply, applyForwarded,
\* forwardHTTP), whoever has become the leader since.
OKIsCommitted == \A k \in Call : call[k].answer = "ok" => W(k) \in Range(log)

\* A client gets an answer, also when a connection is lost, an answer is late or
\* leaders change; that is what the deadlines are for.
EveryWriteAnswered == \A w \in Writes : <>(call[<<w, 1>>].pc = "done")

\* forward.go:206, "A pooled connection the leader has since closed is replaced once".
\* So is one whose answer is late, or whose leader closed it after it had proposed the
\* write, and then the write is committed twice.
CommittedOnce == IsInjective(log)

\* forward.go:69, "so a write is forwarded at most once".  Over HTTP the node that is
\* asked forwards it again when it is not the leader.
ForwardedOnce == \A k \in Call : k[2] > 2 => call[k].pc = "none"
================================================================================

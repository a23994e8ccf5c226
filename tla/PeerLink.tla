-------------------------------- MODULE PeerLink --------------------------------
(* How one node's writes reach a peer (internal/cluster/cluster.go, the write hook; *)
(* internal/peers/sync.go, send; internal/peers/proto.go, serveTCP): writers change *)
(* the local document and then queue the write, one worker sends batches over a     *)
(* connection, and the peer runs one goroutine for each connection, which applies   *)
(* a batch and answers how much of it is done.  The queue itself is PeerQueue's.    *)
(* A peer that is sent HTTP takes batches of one.                                   *)
EXTENDS Integers, Sequences, FiniteSets

CONSTANTS
    Writers,        \* request handlers of the sending node
    Keys, Values, None,
    OpKinds,        \* the kinds of write the writers make: "set", "del", "clone"
    MaxOps,         \* bound: writes
    MaxBatch,       \* maxBatchOps
    MaxConns,       \* bound: connections the sender opens
    MaxRefusals,    \* bound: batches the peer stops because it refuses writes
    SlowPeer,       \* whether a sender may give up while the peer still applies
    Kills,          \* whether the sender may die between a write and its hook
    MaxRestarts     \* bound: restarts of the sender or of the peer

ASSUME LinkConstantsOK ==
    /\ OpKinds \subseteq {"set", "del", "clone"} /\ None \notin Values
    /\ MaxOps \in Nat /\ MaxBatch \in Nat \ {0} /\ MaxConns \in Nat
    /\ MaxRefusals \in Nat /\ MaxRestarts \in Nat /\ {SlowPeer, Kills} \subseteq BOOLEAN

VARIABLES
    (* The sending node. *)
    local,      \* its document
    writing,    \* the write each handler has made and not yet queued, or None
    log,        \* the writes queued so far, in order
    starting,   \* whether main has still to call Restore and then to open its ports
    revived,    \* the keys that Restore brought back, though their deletion is queued
    acked,      \* how many of them the worker has dropped from the queue
    conn,       \* w.conn, 0 when nil
    waiting,    \* sendBatch waits for the answer
    (* The peer. *)
    doc,        \* its document
    srv,        \* the goroutine of each connection: the batch it applies
    (* Bounds. *)
    nconn, nrefused, nrestart

sendVars  == <<acked, conn, waiting, nconn>>
localVars == <<local, writing, log, starting, revived>>
vars == <<localVars, sendVars, doc, srv, nrefused, nrestart>>

Document == [Keys -> Values \cup {None}]
Set   == [kind : {"set"}, key : Keys, value : Values]
Del   == [kind : {"del"}, key : Keys]
Clone == [kind : {"clone"}, from : Keys, key : Keys]
Op    == {o \in Set \cup Del \cup Clone : o.kind \in OpKinds}
ASSUME NoneIsNoOp == None \notin Op
Conn  == 1..MaxConns

\* db.SetRaw, db.Del and db.Clone; a clone of a key that is not there does nothing.
Apply(o, d) ==
    CASE o.kind = "set"   -> [d EXCEPT ![o.key] = o.value]
      [] o.kind = "del"   -> [d EXCEPT ![o.key] = None]
      [] o.kind = "clone" -> IF d[o.from] = None THEN d ELSE [d EXCEPT ![o.key] = d[o.from]]

\* The keys that have what a write says, whatever they had.
Overwritten(o) == IF o.kind = "clone" THEN {} ELSE {o.key}

\* The document that writes make one after the other.
Blank == [k \in Keys |-> None]
Spell(l) ==
    LET d[i \in 0..Len(l)] == IF i = 0 THEN Blank ELSE Apply(l[i], d[i - 1]) IN d[Len(l)]

Gone == [phase |-> "gone", first |-> 0, len |-> 0, done |-> 0]

Init ==
    /\ local = Blank /\ writing = [w \in Writers |-> None] /\ log = <<>>
    /\ starting = FALSE /\ revived = {}
    /\ acked = 0 /\ conn = 0 /\ waiting = FALSE
    /\ doc = local /\ srv = [c \in Conn |-> Gone]
    /\ nconn = 0 /\ nrefused = 0 /\ nrestart = 0

--------------------------------------------------------------------------------
(* The sending node.                                                              *)

\* The write, and then the hook: other writers may come between the two.
WriteLocally(w) ==
    /\ writing[w] = None /\ ~starting
    /\ Len(log) + Cardinality({v \in Writers : writing[v] # None}) < MaxOps
    /\ \E o \in Op :
           /\ writing' = [writing EXCEPT ![w] = o] /\ local' = Apply(o, local)
           /\ revived' = revived \ Overwritten(o)
    /\ UNCHANGED <<log, starting, sendVars, doc, srv, nrefused, nrestart>>

QueueWrite(w) ==
    /\ writing[w] # None
    /\ log' = Append(log, writing[w])
    /\ writing' = [writing EXCEPT ![w] = None]
    /\ UNCHANGED <<local, starting, revived, sendVars, doc, srv, nrefused, nrestart>>

\* peekBatch and sendBatch, on the connection there is or on a new one.
SendOn(c) ==
    \E n \in 1..MaxBatch :
        /\ acked + n <= Len(log)
        /\ n = MaxBatch \/ acked + n = Len(log)
        /\ srv' = [srv EXCEPT ![c] =
                       [phase |-> "applying", first |-> acked, len |-> n, done |-> 0]]
        /\ conn' = c /\ waiting' = TRUE

Send ==
    /\ ~waiting
    /\ IF conn # 0 THEN SendOn(conn) /\ UNCHANGED nconn
       ELSE nconn < MaxConns /\ nconn' = nconn + 1 /\ SendOn(nconn')
    /\ UNCHANGED <<localVars, acked, doc, nrefused, nrestart>>

\* The answer: run drops what is done; a batch of which nothing is done is sent again.
WholeBatch(c) == srv[c].len  \* mutant: an answer acknowledges all that was sent
TakenBy(c) == srv[c].done

Receive ==
    /\ waiting /\ srv[conn].phase = "answering"
    /\ acked' = acked + TakenBy(conn)
    /\ waiting' = FALSE
    /\ srv' = [srv EXCEPT ![conn].phase = "idle"]
    /\ UNCHANGED <<localVars, conn, nconn, doc, nrefused, nrestart>>

\* No answer within batchTimeout, or a broken connection: the sender closes its end.
\* The peer's goroutine notices when it next reads or writes.
GiveUpAndWait == UNCHANGED waiting  \* mutant: the lost batch is still waited for
GiveUp == waiting' = FALSE

SenderGone(c) == [srv EXCEPT ![c] = IF @.phase = "applying" THEN @ ELSE Gone]

LoseAnswer ==
    /\ waiting
    /\ SlowPeer \/ srv[conn].phase # "applying"
    /\ srv' = SenderGone(conn) /\ conn' = 0
    /\ GiveUp
    /\ UNCHANGED <<localVars, acked, nconn, doc, nrefused, nrestart>>

\* The peer's end breaks first: the batch did not arrive whole, or applying it
\* panicked, and serveTCP returns without an answer.
PeerDrops ==
    /\ waiting /\ srv[conn].phase = "applying"
    /\ srv' = [srv EXCEPT ![conn] = Gone] /\ conn' = 0
    /\ GiveUp
    /\ UNCHANGED <<localVars, acked, nconn, doc, nrefused, nrestart>>

\* Acks are not fsynced on their own, so a restart may send again what was acked.  A
\* write whose hook has not run is on disk (db.fsync always) and never queued.  main
\* loads the queue and starts the worker (Configure) before it calls Restore.
SenderRestarts ==
    /\ nrestart < MaxRestarts /\ nrestart' = nrestart + 1
    /\ Kills \/ \A w \in Writers : writing[w] = None
    /\ conn # 0 => SlowPeer \/ srv[conn].phase # "applying"
    /\ writing' = [w \in Writers |-> None]
    /\ acked' \in 0..acked
    /\ srv' = IF conn = 0 THEN srv ELSE SenderGone(conn)
    /\ conn' = 0 /\ waiting' = FALSE /\ starting' = TRUE
    /\ UNCHANGED <<local, log, revived, nconn, doc, nrefused>>

\* main calls Restore and opens the ports.  A document without keys is replaced with the
\* peer's, if the peer answers; db.Empty does not tell a new node from one whose writes
\* left nothing, and their deletions may still be queued.
Restore ==
    /\ starting /\ starting' = FALSE
    /\ \/ UNCHANGED <<local, revived>>
       \/ /\ local = Blank /\ local' = doc
          /\ revived' = revived \cup {k \in Keys : doc[k] # None}
    /\ UNCHANGED <<writing, log, sendVars, doc, srv, nrefused, nrestart>>

--------------------------------------------------------------------------------
(* The peer: serveTCP, serveBatch, applyBatch.                                    *)

\* What serveTCP does with a connection whose batch is done: the answer cannot be
\* sent when the sender has gone.
Answering(c) == IF c = conn THEN "answering" ELSE "gone"

ApplyNext(c) ==
    LET s == srv[c] IN
    /\ s.phase = "applying" /\ s.done < s.len
    /\ doc' = Apply(log[s.first + s.done + 1], doc)
    /\ srv' = [srv EXCEPT ![c].done = @ + 1,
                          ![c].phase = IF s.done + 1 = s.len THEN Answering(c) ELSE @]
    /\ UNCHANGED <<localVars, sendVars, nrefused, nrestart>>

\* applyBudget is spent; the first write is applied whatever it takes.
NoneIsApplied(i) == FALSE  \* mutant: the budget is checked before the first write, too
FirstIsApplied(i) == i = 0

BudgetSpent(c) ==
    /\ srv[c].phase = "applying" /\ ~FirstIsApplied(srv[c].done)
    /\ srv' = [srv EXCEPT ![c].phase = Answering(c)]
    /\ UNCHANGED <<localVars, sendVars, doc, nrefused, nrestart>>

\* The peer refuses writes (db.ErrWritesRefused): the batch stops before this one.
StopsAfterIt(d) == d + 1  \* mutant: the refused write counts as done
StopsAt(d) == d

Refused(c) ==
    /\ srv[c].phase = "applying" /\ srv[c].done < srv[c].len
    /\ nrefused < MaxRefusals /\ nrefused' = nrefused + 1
    /\ srv' = [srv EXCEPT ![c].done = StopsAt(@), ![c].phase = Answering(c)]
    /\ UNCHANGED <<localVars, sendVars, doc, nrestart>>

\* The peer restarts with what it has applied, or empty or replaced and with the document
\* of the sending node (Restore, before its own peers port is open), whose ports are
\* closed while it starts itself.
PeerRestarts ==
    /\ nrestart < MaxRestarts /\ nrestart' = nrestart + 1
    /\ doc' = doc \/ (~starting /\ doc' = local)
    /\ srv' = [c \in Conn |-> Gone]
    /\ conn' = 0 /\ waiting' = FALSE
    /\ UNCHANGED <<localVars, acked, nconn, nrefused>>

--------------------------------------------------------------------------------
Peer(c) == ApplyNext(c) \/ BudgetSpent(c) \/ Refused(c)

Next ==
    \/ \E w \in Writers : WriteLocally(w) \/ QueueWrite(w)
    \/ Send \/ Receive \/ LoseAnswer \/ PeerDrops \/ SenderRestarts \/ Restore
    \/ \E c \in Conn : Peer(c)
    \/ PeerRestarts

Spec == Init /\ [][Next]_vars

--------------------------------------------------------------------------------
(* Properties.                                                                    *)

TypeOK ==
    /\ local \in Document /\ doc \in Document
    /\ writing \in [Writers -> Op \cup {None}]
    /\ log \in Seq(Op) /\ acked \in 0..Len(log)
    /\ starting \in BOOLEAN /\ revived \subseteq Keys
    /\ conn \in 0..nconn /\ waiting \in BOOLEAN /\ (waiting => conn # 0)
    /\ srv \in [Conn -> [phase : {"gone", "idle", "applying", "answering"},
                         first : 0..MaxOps, len : 0..MaxBatch, done : 0..MaxBatch]]
    /\ \A c \in Conn : srv[c].done <= srv[c].len /\ srv[c].first + srv[c].len <= Len(log)
    /\ nconn \in 0..MaxConns /\ nrefused \in 0..MaxRefusals /\ nrestart \in 0..MaxRestarts

Applying == \E c \in Conn : srv[c].phase = "applying"
Quiet == acked = Len(log) /\ ~Applying /\ \A w \in Writers : writing[w] = None

\* sync.go:481, "Sending the whole batch again replays them in order, so the peer ends
\* the same": once the queue is empty the peer has the document the queue spells,
\* however often answers, acks, connections and processes were lost, but for what a
\* start of the sender brought back from the peer (NothingRevived).
Queued == Spell(log)
EndsTheSame == Quiet => \A k \in Keys \ revived : doc[k] = Queued[k]

\* README.md:375, "sent to every peer in the background, in order": at those keys that
\* document is the sending node's own.
SameAsLocal == Quiet => \A k \in Keys \ revived : doc[k] = local[k]

\* sync.go:136, "lack writes still queued here": a node with such writes keeps its
\* document.  Not so when they leave it without a key: Restore copies what a queued
\* deletion then takes from the peer alone.
NothingRevived == Quiet => doc = local

--------------------------------------------------------------------------------
(* Liveness.  The worker and the peer's goroutines go on; an answer is lost only so *)
(* often (nconn).                                                                   *)

FairSpec ==
    /\ Spec /\ WF_vars(Send) /\ WF_vars(Receive)
    /\ \A c \in Conn : WF_vars(ApplyNext(c) \/ BudgetSpent(c))

\* proto.go:52, "which would then send the whole batch again, forever": a peer that is
\* slow, or refuses writes for a while, still drains the queue (applyBudget), as long
\* as the sender can connect.
QueueDrains == (acked < Len(log)) ~> (acked = Len(log) \/ (conn = 0 /\ nconn = MaxConns))
================================================================================

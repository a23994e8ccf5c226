----------------------------- MODULE ForwardProofs -----------------------------
(* That a call reads the answer to its own write, and that what was answered with  *)
(* success is committed, for every number of nodes, writes and connections.        *)
(*                                                                                *)
(* The code never says whose answer a connection may carry; it follows from one   *)
(* write at most being on a connection at a time, from a connection going back to  *)
(* the pool only when none is, and from nobody but its call having it in between.  *)
EXTENDS Forward, Induction, FiniteSetTheorems, SequenceTheorems

--------------------------------------------------------------------------------
(* The invariant.                                                                 *)

\* One write is on a connection at most: sent, served, or answered.
Quiet(x) == x.req = <<>> /\ x.serving = None /\ x.rep = <<>>
Bears(x, w) ==
    \/ x.req = <<w>> /\ x.serving = None /\ x.rep = <<>>
    \/ x.req = <<>> /\ x.serving = w /\ x.rep = <<>>
    \/ x.req = <<>> /\ x.serving = None /\ \E a \in Answers : x.rep = <<<<w, a>>>>

ConnFits(x) ==
    /\ Quiet(x) \/ \E w \in Writes : Bears(x, w)
    /\ x.client = "idle" => Quiet(x)
    /\ x.server \in {"propose", "wait"} => x.serving # None
    /\ x.server = "read" => x.serving = None
    /\ x.client # "unused" => x.to \in Nodes /\ x.from \in Nodes

\* Where a call is.
Placed(k, x) ==
    /\ x.pc # "none" => x.at \in Nodes
    /\ x.pc \in {"pick", "dial", "pooled", "fresh"} => x.to \in Nodes
    /\ x.pc = "asked" => k[2] < MaxHops

\* What a call has of its connection.
Holds(k, x) == x.conn # None =>
    /\ conn[x.conn].from = x.at
    /\ Quiet(conn[x.conn]) \/ Bears(conn[x.conn], W(k))
Apart == \A k \in Call : \A l \in Call :
    k # l /\ call[k].conn # None => call[l].conn # call[k].conn

\* An answer of success is true.
Committed(w) == w \in Range(log)
TrueReplies == \A c \in Conns : \A w \in Writes : conn[c].rep = <<<<w, "ok">>>> => Committed(w)
TrueAnswers == \A k \in Call : call[k].answer = "ok" => Committed(W(k))

IInv ==
    /\ TypeOK
    /\ \A c \in Conns : ConnFits(conn[c])
    /\ \A k \in Call : Placed(k, call[k]) /\ Holds(k, call[k])
    /\ Apart /\ TrueReplies /\ TrueAnswers

--------------------------------------------------------------------------------
(* Steps that change the calls in K, and give none of them a connection.           *)

CallsMove(K) ==
    /\ call' \in [Call -> CallRecord]
    /\ \A l \in Call \ K : call'[l] = call[l]

LEMMA CallsOnly ==
    ASSUME IInv, NEW K \in SUBSET Call, CallsMove(K),
           UNCHANGED <<conn, idle, stopped>>, unsupported' \subseteq Nodes \X Nodes,
           RaftTypes', \A w \in Writes : Committed(w) => Committed(w)',
           \A k \in K : /\ call'[k].answer # None <=> call'[k].pc = "done"
                        /\ call'[k].conn = None /\ call'[k].pc \notin {"pooled", "fresh"}
                        /\ Placed(k, call'[k])
                        /\ call'[k].answer = "ok" => Committed(W(k))'
    PROVE  IInv'
<1> USE DEF CallsMove
<1>1. TypeOK'
  <2>1. \A l \in Call : CallFits(call[l])'
    BY DEF IInv, TypeOK, CallFits
  <2>2. \A n \in Nodes : PoolFits(n)'
    BY DEF IInv, TypeOK, PoolFits, ToAddr
  <2>3. Fields'
    BY DEF IInv, TypeOK, Fields
  <2>. QED  BY <2>1, <2>2, <2>3 DEF TypeOK
<1>2. \A c \in Conns : ConnFits(conn[c])'
  BY DEF IInv, ConnFits, Quiet, Bears
<1>3. \A l \in Call : Placed(l, call[l])'
  BY DEF IInv, Placed
<1>4. \A l \in Call : Holds(l, call[l])'
  <2> SUFFICES ASSUME NEW l \in Call PROVE Holds(l, call[l])'
    OBVIOUS
  <2>1. CASE l \in K
    BY <2>1 DEF Holds
  <2>2. CASE l \notin K
    <3>1. call'[l] = call[l] /\ Holds(l, call[l])
      BY <2>2 DEF IInv
    <3>. QED  BY <3>1 DEF Holds, Quiet, Bears
  <2>. QED  BY <2>1, <2>2
<1>5. Apart'
  BY DEF IInv, Apart
<1>6. TrueReplies'
  BY DEF IInv, TrueReplies
<1>7. TrueAnswers'
  <2> SUFFICES ASSUME NEW k \in Call, call'[k].answer = "ok" PROVE Committed(W(k))'
    BY DEF TrueAnswers
  <2>1. W(k) \in Writes
    BY DEF W, Call
  <2>. QED  BY <2>1 DEF IInv, TrueAnswers
<1>. QED  BY <1>1, <1>2, <1>3, <1>4, <1>5, <1>6, <1>7 DEF IInv

--------------------------------------------------------------------------------
(* Steps of one connection.                                                       *)

ConnMoves(c) ==
    /\ conn' \in [Conns -> ConnRecord]
    /\ \A d \in Conns \ {c} : conn'[d] = conn[d]

LEMMA ConnSet ==
    ASSUME IInv, NEW c \in Conns, NEW x \in ConnRecord, conn' = [conn EXCEPT ![c] = x]
    PROVE  ConnMoves(c) /\ conn'[c] = x
BY DEF IInv, TypeOK, Fields, ConnMoves

\* A connection that is in no pool, or stays where it is, changes no pool.
LEMMA PoolsSame ==
    ASSUME IInv, NEW c \in Conns, ConnMoves(c), UNCHANGED <<idle, stopped>>,
           \/ conn[c].client # "idle"
           \/ conn'[c].client = "idle" /\ conn'[c].from = conn[c].from /\ conn'[c].to = conn[c].to
    PROVE  \A n \in Nodes : PoolFits(n)'
<1> USE DEF ConnMoves
<1> SUFFICES ASSUME NEW n \in Nodes PROVE PoolFits(n)'
  OBVIOUS
<1>1. PoolFits(n) /\ idle[n] \in Seq(Conns)
  BY DEF IInv, TypeOK, Fields
<1>2. \A i \in DOMAIN idle[n] : idle[n][i] \in Conns /\ conn[idle[n][i]].client = "idle"
  BY <1>1 DEF PoolFits, Range
<1>3. \A i \in DOMAIN idle[n] :
          /\ conn'[idle[n][i]].client = "idle" /\ conn'[idle[n][i]].from = n
          /\ conn'[idle[n][i]].to = conn[idle[n][i]].to
  BY <1>1, <1>2 DEF PoolFits, Range
<1>4. \A a \in Nodes : ToAddr(n, a)' = ToAddr(n, a)
  BY <1>3 DEF ToAddr
<1>5. \A d \in Range(idle'[n]) : conn'[d].client = "idle" /\ conn'[d].from = n
  BY <1>3 DEF Range
<1>. QED  BY <1>1, <1>4, <1>5 DEF PoolFits

\* A step of the server's end, or of the network.
LEMMA ServerSide ==
    ASSUME IInv, NEW c \in Conns, ConnMoves(c), UNCHANGED <<call, idle, unsupported, stopped>>,
           RaftTypes', \A w \in Writes : Committed(w) => Committed(w)',
           UNCHANGED <<conn[c].client, conn[c].from, conn[c].to>>,
           ConnFits(conn'[c]),
           \A w \in Writes : Quiet(conn[c]) \/ Bears(conn[c], w) => Quiet(conn'[c]) \/ Bears(conn'[c], w),
           \A w \in Writes : conn'[c].rep = <<<<w, "ok">>>> => Committed(w)'
    PROVE  IInv'
<1> USE DEF ConnMoves
<1>0. \A k \in Call : W(k) \in Writes /\ call[k].conn \in Conns \cup {None}
  BY DEF W, Call, IInv, TypeOK, Fields, CallRecord
<1>1. TypeOK'
  <2>1. \A l \in Call : CallFits(call[l])'
    BY <1>0 DEF IInv, TypeOK, CallFits
  <2>2. \A n \in Nodes : PoolFits(n)'
    BY PoolsSame
  <2>3. Fields'
    BY DEF IInv, TypeOK, Fields
  <2>. QED  BY <2>1, <2>2, <2>3 DEF TypeOK
<1>2. \A d \in Conns : ConnFits(conn[d])'
  BY DEF IInv
<1>3. \A l \in Call : Placed(l, call[l])'
  BY DEF IInv, Placed
<1>4. \A l \in Call : Holds(l, call[l])'
  <2> SUFFICES ASSUME NEW l \in Call, call[l].conn # None
               PROVE  /\ conn'[call[l].conn].from = call[l].at
                      /\ Quiet(conn'[call[l].conn]) \/ Bears(conn'[call[l].conn], W(l))
    BY DEF Holds, Quiet, Bears
  <2>1. Holds(l, call[l]) /\ call[l].conn \in Conns
    BY <1>0 DEF IInv
  <2>. QED  BY <1>0, <2>1 DEF Holds
<1>5. Apart'
  BY DEF IInv, Apart
<1>6. TrueReplies'
  BY DEF IInv, TrueReplies
<1>7. TrueAnswers'
  BY <1>0 DEF IInv, TrueAnswers
<1>. QED  BY <1>1, <1>2, <1>3, <1>4, <1>5, <1>6, <1>7 DEF IInv

\* A step of the call that has a connection, or takes one that no call has.
LEMMA ClientSide ==
    ASSUME IInv, NEW k \in Call, NEW c \in Conns, CallsMove({k}), ConnMoves(c),
           UNCHANGED <<raftVars, stopped>>, unsupported' \subseteq Nodes \X Nodes,
           idle' \in [Nodes -> Seq(Conns)], \A n \in Nodes : PoolFits(n)',
           \A l \in Call \ {k} : call[l].conn # c,
           call'[k].answer # None <=> call'[k].pc = "done",
           call'[k].conn # None <=> call'[k].pc \in {"pooled", "fresh"},
           Placed(k, call'[k]), call'[k].answer = "ok" => Committed(W(k)),
           call'[k].conn # None => /\ call'[k].conn = c
                                   /\ conn'[c].client = "busy" /\ conn'[c].from = call'[k].at
                                   /\ Quiet(conn'[c]) \/ Bears(conn'[c], W(k)),
           ConnFits(conn'[c]), conn'[c].rep = conn[c].rep \/ conn'[c].rep = <<>>
    PROVE  IInv'
<1> USE DEF ConnMoves, CallsMove
<1>0. \A l \in Call : call[l].conn \in Conns \cup {None} /\ W(l) \in Writes
  BY DEF W, Call, IInv, TypeOK, Fields, CallRecord
<1>1. TypeOK'
  <2>1. \A l \in Call : CallFits(call[l])'
    <3> TAKE l \in Call
    <3>1. CASE l = k
      BY <3>1 DEF CallFits
    <3>2. CASE l # k
      BY <1>0, <3>2 DEF IInv, TypeOK, CallFits
    <3>. QED  BY <3>1, <3>2
  <2>2. Fields'
    BY DEF IInv, TypeOK, Fields
  <2>3. RaftTypes'
    BY DEF IInv, TypeOK, RaftTypes, raftVars
  <2>. QED  BY <2>1, <2>2, <2>3 DEF TypeOK
<1>2. \A d \in Conns : ConnFits(conn[d])'
  BY DEF IInv
<1>3. \A l \in Call : Placed(l, call[l])'
  BY DEF IInv, Placed
<1>4. \A l \in Call : Holds(l, call[l])'
  <2> SUFFICES ASSUME NEW l \in Call, call'[l].conn # None
               PROVE  /\ conn'[call'[l].conn].from = call'[l].at
                      /\ Quiet(conn'[call'[l].conn]) \/ Bears(conn'[call'[l].conn], W(l))
    BY DEF Holds, Quiet, Bears
  <2>1. CASE l = k
    BY <2>1
  <2>2. CASE l # k
    <3>1. Holds(l, call[l]) /\ call[l].conn \in Conns \ {c} /\ call'[l] = call[l]
      BY <1>0, <2>2 DEF IInv
    <3>. QED  BY <3>1 DEF Holds
  <2>. QED  BY <2>1, <2>2
<1>5. Apart'
  BY <1>0 DEF IInv, Apart
<1>6. TrueReplies'
  <2>1. \A w : Committed(w)' <=> Committed(w)
    BY DEF Committed, raftVars
  <2>2. \A w \in Writes : <<<<w, "ok">>>> # <<>>
    OBVIOUS
  <2>3. \A w \in Writes : conn'[c].rep = <<<<w, "ok">>>> => Committed(w)
    BY <2>2 DEF IInv, TrueReplies
  <2>. QED  BY <2>1, <2>3 DEF IInv, TrueReplies
<1>7. TrueAnswers'
  BY DEF IInv, TrueAnswers, Committed, raftVars
<1>. QED  BY <1>1, <1>2, <1>3, <1>4, <1>5, <1>6, <1>7 DEF IInv

--------------------------------------------------------------------------------
(* Raft, and the steps of a call that touch no connection.                         *)

LEMMA RangeGrows ==
    ASSUME NEW s \in Seq(Writes), NEW t \in Seq(Writes), NEW w \in Writes
    PROVE  /\ Range(s) \subseteq Range(s \o t)
           /\ Range(s) \subseteq Range(Append(s, w))
<1>1. \A i \in DOMAIN s : i \in DOMAIN (s \o t) /\ (s \o t)[i] = s[i]
  OBVIOUS
<1>2. \A i \in DOMAIN s : i \in DOMAIN Append(s, w) /\ Append(s, w)[i] = s[i]
  OBVIOUS
<1>3. Range(s) \subseteq Range(s \o t)
  BY <1>1 DEF Range
<1>4. Range(s) \subseteq Range(Append(s, w))
  BY <1>2 DEF Range
<1>. QED  BY <1>3, <1>4

LEMMA RaftMoves ==
    ASSUME IInv, CallsUnchanged, RaftTypes', \A w \in Writes : Committed(w) => Committed(w)'
    PROVE  IInv'
<1>1. CallsMove({})
  BY DEF CallsMove, CallsUnchanged, IInv, TypeOK, Fields
<1>2. unsupported' \subseteq Nodes \X Nodes
  BY DEF CallsUnchanged, IInv, TypeOK, Fields
<1>. QED  BY <1>1, <1>2, CallsOnly DEF CallsUnchanged

LEMMA RaftKeeps == ASSUME IInv, Raft PROVE IInv'
<1>1. RaftTypes /\ None \notin Nodes
  BY ForwardConstantsOK DEF IInv, TypeOK
<1>2. CASE Commit
  <2>1. Head(proposed) \in Writes /\ Tail(proposed) \in Seq(Writes)
    BY <1>1, <1>2 DEF Commit, RaftTypes
  <2>2. \A w \in Writes : Committed(w) => Committed(w)'
    BY <1>1, <1>2, <2>1, RangeGrows DEF Commit, RaftTypes, Committed
  <2>3. RaftTypes'
    BY <1>1, <1>2, <2>1 DEF Commit, RaftTypes
  <2>. QED  BY <1>2, <2>2, <2>3, RaftMoves DEF Commit
<1>3. ASSUME NEW n \in Nodes, Elect(n) PROVE IInv'
  <2>1. PICK i \in 0..Len(proposed) : log' = log \o SubSeq(proposed, 1, i)
    BY <1>3 DEF Elect
  <2>2. SubSeq(proposed, 1, i) \in Seq(Writes)
    BY <1>1 DEF RaftTypes
  <2>3. \A w \in Writes : Committed(w) => Committed(w)'
    BY <1>1, <2>1, <2>2, RangeGrows DEF RaftTypes, Committed
  <2>4. RaftTypes'
    BY <1>1, <1>3, <2>1, <2>2 DEF Elect, RaftTypes, Node
  <2>. QED  BY <1>3, <2>3, <2>4, RaftMoves DEF Elect
<1>4. ASSUME NEW n \in Nodes, StepDown(n) \/ Learn(n) PROVE IInv'
  <2>1. \A w \in Writes : Committed(w) => Committed(w)'
    BY <1>4 DEF StepDown, Learn, Committed
  <2>2. RaftTypes'
    <3>1. CASE StepDown(n)
      BY <1>1, <3>1 DEF StepDown, RaftTypes, Node
    <3>2. CASE Learn(n)
      BY <1>1, <3>2 DEF Learn, RaftTypes
    <3>. QED  BY <1>4, <3>1, <3>2
  <2>. QED  BY <1>4, <2>1, <2>2, RaftMoves DEF StepDown, Learn
<1>. QED  BY <1>2, <1>3, <1>4 DEF Raft

LEMMA ProposeTypes ==
    ASSUME IInv, NEW n, NEW w \in Writes, Propose(n, w)
    PROVE  RaftTypes' /\ \A x \in Writes : Committed(x) => Committed(x)'
BY DEF IInv, TypeOK, RaftTypes, Propose, Committed

LEMMA RaftSame ==
    ASSUME IInv, UNCHANGED raftVars
    PROVE  RaftTypes' /\ \A x \in Writes : Committed(x) => Committed(x)'
BY DEF IInv, TypeOK, RaftTypes, raftVars, Committed

LEMMA BecomesIs ==
    ASSUME IInv, NEW k \in Call, NEW p, Becomes(k, p),
           p \in {"propose", "wait", "pick", "dial", "http"}
    PROVE  /\ CallsMove({k}) /\ call'[k].pc = p /\ call'[k].conn = None
           /\ UNCHANGED <<call[k].at, call[k].to, call[k].answer>>
<1>1. call \in [Call -> CallRecord]
  BY DEF IInv, TypeOK, Fields
<1>. QED  BY <1>1 DEF Becomes, CallsMove, CallRecord

LEMMA AnsweredIs ==
    ASSUME IInv, NEW k \in Call, NEW a \in Answers, Answered(k, a)
    PROVE  /\ CallsMove({k}) /\ call'[k].pc = "done" /\ call'[k].conn = None
           /\ call'[k].answer = a /\ UNCHANGED call[k].at
<1>1. call \in [Call -> CallRecord]
  BY DEF IInv, TypeOK, Fields
<1>. QED  BY <1>1, ZenonT(30) DEF Answered, CallsMove, CallRecord

\* A call that only moves, or ends without a success or with a true one.
LEMMA CallBecomes ==
    ASSUME IInv, NEW k \in Call, NEW p \in {"propose", "wait", "dial", "http"}, Becomes(k, p),
           call[k].pc \notin {"none", "done"}, p = "dial" => call[k].pc = "pick",
           UNCHANGED <<conn, idle, stopped>>, unsupported' \subseteq Nodes \X Nodes,
           RaftTypes', \A w \in Writes : Committed(w) => Committed(w)'
    PROVE  IInv'
<1>1. /\ CallsMove({k}) /\ call'[k].pc = p /\ call'[k].conn = None
      /\ UNCHANGED <<call[k].at, call[k].to, call[k].answer>>
  BY BecomesIs
<1>2. Placed(k, call[k]) /\ call[k].answer = None /\ None \notin Answers
  BY ForwardConstantsOK DEF IInv, TypeOK, CallFits
<1>3. Placed(k, call'[k])
  BY <1>1, <1>2 DEF Placed
<1>4. None # "ok"
  BY <1>2 DEF Answers
<1>. QED  BY <1>1, <1>2, <1>3, <1>4, CallsOnly

LEMMA CallAnswered ==
    ASSUME IInv, NEW k \in Call, NEW a \in Answers, Answered(k, a),
           call[k].pc # "none", a = "ok" => Committed(W(k)),
           UNCHANGED <<conn, idle, stopped>>, unsupported' \subseteq Nodes \X Nodes,
           RaftTypes', \A w \in Writes : Committed(w) => Committed(w)'
    PROVE  IInv'
<1>1. /\ CallsMove({k}) /\ call'[k].pc = "done" /\ call'[k].conn = None
      /\ call'[k].answer = a /\ UNCHANGED call[k].at
  BY AnsweredIs
<1>2. Placed(k, call[k]) /\ None \notin Answers /\ W(k) \in Writes
  BY ForwardConstantsOK DEF IInv, W, Call
<1>3. Placed(k, call'[k])
  BY <1>1, <1>2 DEF Placed
<1>. QED  BY <1>1, <1>2, <1>3, CallsOnly

LEMMA Calls ==
    ASSUME IInv, NEW k \in Call
    PROVE  /\ call \in [Call -> CallRecord] /\ call[k] \in CallRecord
           /\ CallFits(call[k]) /\ Placed(k, call[k]) /\ Holds(k, call[k])
           /\ W(k) \in Writes /\ k[2] \in 1..MaxHops /\ None \notin Answers
           /\ unsupported \subseteq Nodes \X Nodes /\ knows \in [Nodes -> Node]
BY ForwardConstantsOK DEF IInv, TypeOK, RaftTypes, Fields, W, Call

LEMMA StartKeeps == ASSUME IInv, NEW k \in Call, Start(k) PROVE IInv'
<1> DEFINE n == call[k].at
<1>0. "notleader" \in Answers /\ n \in Nodes
  BY Calls DEF Answers, Start, Placed
<1>1. UNCHANGED <<raftVars, conn, idle, stopped>> /\ unsupported' \subseteq Nodes \X Nodes
  BY Calls DEF Start, Same, Unmoved
<1>2. CASE Becomes(k, "propose")
  BY <1>1, <1>2, RaftSame, CallBecomes DEF Start
<1>3. CASE Answered(k, "notleader")
  BY <1>0, <1>1, <1>3, RaftSame, CallAnswered DEF Start
<1>4. CASE /\ knows[n] # None
           /\ call' = [call EXCEPT ![k].pc = IF n \in old THEN "http" ELSE "pick", ![k].to = knows[n]]
  <2>1. knows[n] \in Nodes
    BY <1>0, <1>4, Calls DEF Node
  <2>2. call[k].answer = None /\ call[k].conn = None
    BY Calls DEF CallFits, Start
  <2>3. /\ CallsMove({k}) /\ call'[k].pc \in {"http", "pick"} /\ call'[k].to \in Nodes
        /\ UNCHANGED <<call[k].at, call[k].conn, call[k].answer>>
    BY <1>4, <2>1, Calls DEF CallsMove, CallRecord, Node
  <2>4. Placed(k, call'[k])
    BY <1>0, <2>3 DEF Placed
  <2>5. None # "ok"
    BY Calls DEF Answers
  <2>. QED  BY <1>1, <2>2, <2>3, <2>4, <2>5, RaftSame, CallsOnly
<1>. QED  BY <1>2, <1>3, <1>4 DEF Start

LEMMA ApplyKeeps == ASSUME IInv, NEW k \in Call, ApplyHere(k) \/ ApplyDone(k) PROVE IInv'
<1>0. {"ok", "error"} \subseteq Answers
  BY DEF Answers
<1>1. UNCHANGED <<conn, idle, stopped>> /\ unsupported' \subseteq Nodes \X Nodes
  BY Calls DEF ApplyHere, ApplyDone, Same, Unmoved
<1>2. CASE ApplyHere(k)
  <2>1. CASE Propose(call[k].at, W(k)) /\ Becomes(k, "wait")
    <3>1. RaftTypes' /\ \A x \in Writes : Committed(x) => Committed(x)'
      BY <2>1, Calls, ProposeTypes
    <3>. QED  BY <1>1, <1>2, <2>1, <3>1, CallBecomes DEF ApplyHere
  <2>2. CASE Answered(k, "error") /\ UNCHANGED raftVars
    BY <1>0, <1>1, <1>2, <2>2, RaftSame, CallAnswered DEF ApplyHere
  <2>. QED  BY <1>2, <2>1, <2>2 DEF ApplyHere
<1>3. CASE ApplyDone(k)
  <2>1. PICK a \in Result(call[k].at, W(k)) : Answered(k, a)
    BY <1>3 DEF ApplyDone
  <2>2. a \in Answers /\ (a = "ok" => Committed(W(k)))
    BY <1>0, <2>1 DEF Result, CommittedHere, Committed
  <2>3. UNCHANGED raftVars
    BY <1>3 DEF ApplyDone, Same
  <2>. QED  BY <1>1, <1>3, <2>1, <2>2, <2>3, RaftSame, CallAnswered DEF ApplyDone
<1>. QED  BY <1>2, <1>3

\* The answer that comes back over HTTP is the answer to the same write.
LEMMA HTTPKeeps ==
    ASSUME IInv, NEW k \in Call, AskHTTP(k) \/ HTTPReply(k) \/ HTTPTimeout(k)
    PROVE  IInv'
<1>0. "error" \in Answers
  BY DEF Answers
<1>1. UNCHANGED <<raftVars, conn, idle, stopped>> /\ unsupported' \subseteq Nodes \X Nodes
  BY Calls DEF AskHTTP, HTTPReply, HTTPTimeout, Same, Unmoved
<1>2. CASE Answered(k, "error")
  BY <1>0, <1>1, <1>2, RaftSame, CallAnswered DEF AskHTTP, HTTPReply, HTTPTimeout
<1>3. CASE AskHTTP(k) /\ ~Answered(k, "error")
  <2> DEFINE h == IF call[k].at \in leaders THEN call[k].at ELSE knows[call[k].at]
             new == [NoCall EXCEPT !.pc = "start", !.at = h]
  <2>1. /\ h # None /\ k[2] < MaxHops /\ call[k].pc = "http"
        /\ call' = [call EXCEPT ![k].pc = "asked", ![Child(k)] = new]
    BY <1>3 DEF AskHTTP
  <2>2. call[k].at \in Nodes /\ h \in Nodes
    BY <2>1, Calls DEF Placed, Node
  <2>3. Child(k) \in Call /\ Child(k) # k
    BY <2>1, Calls, ForwardConstantsOK DEF Child, Call, W
  <2>4. new \in CallRecord /\ new.pc = "start" /\ new.at \in Nodes /\ new.conn = None /\ new.answer = None
    BY <2>2 DEF NoCall, CallRecord, Node
  <2>5. call[k].answer = None /\ call[k].conn = None
    BY <2>1, Calls DEF CallFits
  <2>6. /\ CallsMove({k, Child(k)}) /\ call'[Child(k)] = new /\ call'[k].pc = "asked"
        /\ UNCHANGED <<call[k].at, call[k].conn, call[k].answer>>
    <3> HIDE DEF new
    <3>. QED  BY <2>1, <2>3, <2>4, Calls DEF CallsMove, CallRecord
  <2> HIDE DEF new, h
  <2>7. Placed(k, call'[k]) /\ Placed(Child(k), call'[Child(k)])
    BY <2>1, <2>2, <2>4, <2>6 DEF Placed
  <2>8. None # "ok"
    BY Calls DEF Answers
  <2>. QED  BY <1>1, <2>3, <2>4, <2>5, <2>6, <2>7, <2>8, RaftSame, CallsOnly
<1>4. CASE HTTPReply(k)
  <2>1. Child(k) \in Call /\ W(Child(k)) = W(k)
    BY <1>4, Calls, ForwardConstantsOK DEF HTTPReply, Placed, Child, Call, W
  <2>2. call[Child(k)].answer \in Answers
    <3>1. call[Child(k)] \in CallRecord /\ CallFits(call[Child(k)])
      BY <2>1, Calls
    <3>. QED  BY <1>4, <3>1 DEF HTTPReply, CallFits, CallRecord
  <2>3. call[Child(k)].answer = "ok" => Committed(W(k))
    BY <2>1 DEF IInv, TrueAnswers
  <2>. QED  BY <1>1, <1>4, <2>2, <2>3, RaftSame, CallAnswered DEF HTTPReply
<1>. QED  BY <1>2, <1>3, <1>4 DEF HTTPTimeout

LEMMA ExpireKeeps == ASSUME IInv, Expire PROVE IInv'
<1>1. CallsMove({}) /\ UNCHANGED <<raftVars, conn, idle, stopped>>
  BY DEF Expire, Unmoved, CallsMove, IInv, TypeOK, Fields
<1>2. unsupported' \subseteq Nodes \X Nodes
  BY DEF Expire, IInv, TypeOK, Fields
<1>. QED  BY <1>1, <1>2, RaftSame, CallsOnly

--------------------------------------------------------------------------------
(* The pool: what taking a connection and putting one back do to it.               *)

LEMMA WithoutIs ==
    ASSUME NEW S, NEW s \in Seq(S), NEW i \in 1..Len(s)
    PROVE  /\ Without(s, i) \in Seq(S) /\ Len(Without(s, i)) = Len(s) - 1
           /\ \A j \in 1..(Len(s) - 1) : Without(s, i)[j] = s[IF j < i THEN j ELSE j + 1]
<1> DEFINE a == SubSeq(s, 1, i - 1)
           b == SubSeq(s, i + 1, Len(s))
<1>1. a \in Seq(S) /\ Len(a) = i - 1 /\ \A j \in 1..(i - 1) : a[j] = s[j]
  OBVIOUS
<1>2. b \in Seq(S) /\ Len(b) = Len(s) - i /\ \A j \in 1..(Len(s) - i) : b[j] = s[i + j]
  OBVIOUS
<1> HIDE DEF a, b
<1>3. a \o b \in Seq(S) /\ Len(a \o b) = Len(s) - 1
  <2>1. a \o b \in Seq(S) /\ Len(a \o b) = Len(a) + Len(b)
    BY <1>1, <1>2, ConcatProperties
  <2>. QED  BY <1>1, <1>2, <2>1
<1>4. \A j \in 1..(Len(s) - 1) : (a \o b)[j] = s[IF j < i THEN j ELSE j + 1]
  <2> TAKE j \in 1..(Len(s) - 1)
  <2>1. CASE j < i
    <3>1. j \in 1..(i - 1) /\ j <= i - 1
      BY <2>1
    <3>2. (a \o b)[j] = a[j]
      BY <1>1, <1>2, <3>1
    <3>. QED  BY <1>1, <2>1, <3>1, <3>2
  <2>2. CASE ~ (j < i)
    <3>1. j - (i - 1) \in 1..(Len(s) - i) /\ i + (j - (i - 1)) = j + 1 /\ ~ (j <= i - 1)
      BY <2>2
    <3>2. (a \o b)[j] = b[j - (i - 1)]
      BY <1>1, <1>2, <2>2, <3>1
    <3>3. b[j - (i - 1)] = s[i + (j - (i - 1))]
      BY <1>2, <3>1
    <3>. QED  BY <2>2, <3>1, <3>2, <3>3
  <2>. QED  BY <2>1, <2>2
<1>5. Without(s, i) = a \o b
  BY DEF Without, a, b
<1>. QED  BY <1>3, <1>4, <1>5

LEMMA Pools ==
    ASSUME IInv, NEW n \in Nodes
    PROVE  /\ PoolFits(n) /\ idle \in [Nodes -> Seq(Conns)] /\ idle[n] \in Seq(Conns)
           /\ DOMAIN idle[n] = 1..Len(idle[n]) /\ Len(idle[n]) \in Nat
           /\ \A i \in DOMAIN idle[n] : /\ idle[n][i] \in Conns
                                        /\ conn[idle[n][i]].client = "idle"
                                        /\ conn[idle[n][i]].from = n
           /\ \A a : IsFiniteSet(ToAddr(n, a)) /\ ToAddr(n, a) \subseteq 1..Len(idle[n])
<1>1. PoolFits(n) /\ idle \in [Nodes -> Seq(Conns)] /\ idle[n] \in Seq(Conns)
  BY DEF IInv, TypeOK, Fields
<1>2. DOMAIN idle[n] = 1..Len(idle[n]) /\ Len(idle[n]) \in Nat
  BY <1>1
<1>3. IsFiniteSet(1..Len(idle[n]))
  BY <1>2, FS_Interval
<1>4. \A a : IsFiniteSet(ToAddr(n, a)) /\ ToAddr(n, a) \subseteq 1..Len(idle[n])
  BY <1>2, <1>3, FS_Subset DEF ToAddr
<1>. QED  BY <1>1, <1>2, <1>4 DEF PoolFits, Range

\* The pools of the nodes that a connection is not from.
LEMMA OtherPools ==
    ASSUME IInv, NEW c \in Conns, ConnMoves(c), UNCHANGED stopped,
           NEW m \in Nodes, conn[c].from # m, idle'[m] = idle[m]
    PROVE  PoolFits(m)'
<1>1. \A i \in DOMAIN idle[m] : conn'[idle[m][i]] = conn[idle[m][i]]
  BY Pools DEF ConnMoves
<1>2. \A a \in Nodes : ToAddr(m, a)' = ToAddr(m, a)
  BY <1>1 DEF ToAddr
<1>3. \A d \in Range(idle'[m]) : conn'[d].client = "idle" /\ conn'[d].from = m
  BY <1>1, Pools DEF Range
<1>. QED  BY <1>2, <1>3, Pools DEF PoolFits

LEMMA PoolTake ==
    ASSUME IInv, NEW n \in Nodes, NEW i \in DOMAIN idle[n], ConnMoves(idle[n][i]),
           idle' = [idle EXCEPT ![n] = Without(@, i)], UNCHANGED stopped
    PROVE  idle' \in [Nodes -> Seq(Conns)] /\ \A m \in Nodes : PoolFits(m)'
<1> DEFINE s == idle[n]
           t == Without(s, i)
           at(j) == IF j < i THEN j ELSE j + 1
<1>1. /\ s \in Seq(Conns) /\ Len(s) \in Nat /\ i \in 1..Len(s) /\ idle'[n] = t
      /\ \A j \in 1..Len(s) : s[j] \in Conns /\ conn[s[j]].client = "idle" /\ conn[s[j]].from = n
      /\ \A j, l \in 1..Len(s) : s[j] = s[l] => j = l
  BY Pools DEF PoolFits, IsInjective
<1>2. /\ t \in Seq(Conns) /\ Len(t) = Len(s) - 1 /\ DOMAIN t = 1..(Len(s) - 1)
      /\ \A j \in 1..(Len(s) - 1) : t[j] = s[at(j)]
  <2>1. /\ t \in Seq(Conns) /\ Len(t) = Len(s) - 1
        /\ \A j \in 1..(Len(s) - 1) : t[j] = s[IF j < i THEN j ELSE j + 1]
    <3> HIDE DEF s
    <3>. QED  BY <1>1, WithoutIs
  <2>. QED  BY <2>1
<1>3. \A j \in 1..(Len(s) - 1) : at(j) \in 1..Len(s) /\ at(j) # i
  BY <1>1
<1>4. \A j, l \in 1..(Len(s) - 1) : at(j) = at(l) => j = l
  BY <1>1
<1> HIDE DEF s, t, at
<1>5. \A j \in 1..(Len(s) - 1) : conn'[t[j]] = conn[s[at(j)]]
  <2> TAKE j \in 1..(Len(s) - 1)
  <2>1. t[j] = s[at(j)] /\ s[at(j)] \in Conns /\ s[at(j)] # s[i]
    BY <1>1, <1>2, <1>3
  <2>. QED  BY <2>1 DEF ConnMoves, s
<1>6. PoolFits(n)'
  <2>1. \A d \in Range(idle'[n]) : conn'[d].client = "idle" /\ conn'[d].from = n
    <3> SUFFICES ASSUME NEW j \in 1..(Len(s) - 1)
                 PROVE  conn'[t[j]].client = "idle" /\ conn'[t[j]].from = n
      BY <1>1, <1>2 DEF Range
    <3>. QED  BY <1>1, <1>3, <1>5
  <2>2. IsInjective(idle'[n])
    <3> SUFFICES ASSUME NEW j \in 1..(Len(s) - 1), NEW l \in 1..(Len(s) - 1), t[j] = t[l] PROVE j = l
      <4>1. IsInjective(t) <=> \A j, l \in DOMAIN t : t[j] = t[l] => j = l
        BY DEF IsInjective
      <4>. QED  BY <1>1, <1>2, <4>1
    <3>1. s[at(j)] = s[at(l)]
      BY <1>2
    <3>. QED  BY <1>1, <1>3, <1>4, <3>1
  <2>3. n \notin stopped
    <3>1. s # <<>>
      BY <1>1
    <3>. QED  BY <3>1, Pools DEF PoolFits, s
  <2>4. ASSUME NEW a \in Nodes PROVE Cardinality(ToAddr(n, a)') <= MaxIdle
    <3> DEFINE T == ToAddr(n, a)'
               f == [j \in T |-> at(j)]
    <3>1. T = {j \in 1..(Len(s) - 1) : conn[s[at(j)]].to = a}
      BY <1>1, <1>2, <1>5 DEF ToAddr
    <3>2. f \in [T -> ToAddr(n, a)]
      BY <1>1, <1>3, <3>1 DEF ToAddr, s
    <3>3. IsInjective(f)
      <4> SUFFICES ASSUME NEW j \in T, NEW l \in T, f[j] = f[l] PROVE j = l
        BY DEF IsInjective
      <4>1. f[j] = at(j) /\ f[l] = at(l)
        OBVIOUS
      <4>. QED  BY <1>4, <3>1, <4>1
    <3> HIDE DEF f, T
    <3>4. f \in Injection(T, ToAddr(n, a))
      BY <3>2, <3>3 DEF Injection
    <3>5. IsFiniteSet(T) /\ Cardinality(T) <= Cardinality(ToAddr(n, a))
      BY <3>4, Pools, FS_Injection
    <3>6. Cardinality(ToAddr(n, a)) <= MaxIdle /\ MaxIdle \in Nat
      BY Pools, ForwardConstantsOK DEF PoolFits
    <3>7. Cardinality(T) \in Nat /\ Cardinality(ToAddr(n, a)) \in Nat
      BY <3>5, Pools, FS_CardinalityType
    <3>. QED  BY <3>5, <3>6, <3>7 DEF T
  <2>. QED  BY <2>1, <2>2, <2>3, <2>4 DEF PoolFits
<1>7. ASSUME NEW m \in Nodes, m # n PROVE PoolFits(m)'
  <2>1. idle'[m] = idle[m] /\ s[i] \in Conns /\ conn[s[i]].from # m
    BY <1>1, <1>7, Pools
  <2>. QED  BY <2>1, OtherPools DEF s
<1>8. idle' \in [Nodes -> Seq(Conns)]
  BY <1>2, Pools DEF s, t
<1>. QED  BY <1>6, <1>7, <1>8

LEMMA PoolPut ==
    ASSUME IInv, NEW n \in Nodes \ stopped, NEW c \in Conns, ConnMoves(c), UNCHANGED stopped,
           conn[c].client = "busy", conn[c].from = n,
           conn'[c].client = "idle", UNCHANGED <<conn[c].from, conn[c].to>>,
           Cardinality(ToAddr(n, conn[c].to)) < MaxIdle,
           idle' = [idle EXCEPT ![n] = Append(@, c)]
    PROVE  idle' \in [Nodes -> Seq(Conns)] /\ \A m \in Nodes : PoolFits(m)'
<1> DEFINE s == idle[n]
           t == Append(s, c)
<1>1. /\ s \in Seq(Conns) /\ Len(s) \in Nat /\ idle'[n] = t
      /\ \A j \in 1..Len(s) : s[j] \in Conns /\ conn[s[j]].client = "idle" /\ conn[s[j]].from = n
      /\ \A j, l \in 1..Len(s) : s[j] = s[l] => j = l
  BY Pools DEF PoolFits, IsInjective
<1>2. /\ t \in Seq(Conns) /\ Len(t) = Len(s) + 1 /\ DOMAIN t = 1..(Len(s) + 1)
      /\ t[Len(s) + 1] = c /\ \A j \in 1..Len(s) : t[j] = s[j]
  BY <1>1
<1> HIDE DEF s, t
<1>3. \A j \in 1..Len(s) : conn'[t[j]] = conn[s[j]] /\ t[j] # c
  BY <1>1, <1>2 DEF ConnMoves
<1>4. \A j \in 1..(Len(s) + 1) : j \in 1..Len(s) \/ j = Len(s) + 1
  BY <1>1
<1>5. PoolFits(n)'
  <2>1. \A d \in Range(idle'[n]) : conn'[d].client = "idle" /\ conn'[d].from = n
    BY <1>1, <1>2, <1>3, <1>4, SMTT(30) DEF Range
  <2>2. IsInjective(idle'[n])
    BY <1>1, <1>2, <1>3, <1>4 DEF IsInjective
  <2>3. ASSUME NEW a \in Nodes PROVE Cardinality(ToAddr(n, a)') <= MaxIdle
    <3>0. IsFiniteSet(ToAddr(n, a)) /\ Cardinality(ToAddr(n, a)) \in Nat /\ MaxIdle \in Nat
      BY Pools, FS_CardinalityType, ForwardConstantsOK
    <3>1. CASE a = conn[c].to
      <4>1. ToAddr(n, a)' = ToAddr(n, a) \cup {Len(s) + 1}
        BY <1>1, <1>2, <1>3, <1>4, <3>1, Pools DEF ToAddr, s
      <4>2. Cardinality(ToAddr(n, a) \cup {Len(s) + 1})
              = IF Len(s) + 1 \in ToAddr(n, a) THEN Cardinality(ToAddr(n, a))
                ELSE Cardinality(ToAddr(n, a)) + 1
        BY <3>0, FS_AddElement
      <4>3. Cardinality(ToAddr(n, a)) < MaxIdle
        BY <3>1
      <4>. QED  BY <3>0, <4>1, <4>2, <4>3
    <3>2. CASE a # conn[c].to
      <4>1. ToAddr(n, a)' = ToAddr(n, a)
        BY <1>1, <1>2, <1>3, <1>4, <3>2, Pools DEF ToAddr, s
      <4>. QED  BY <4>1, Pools DEF PoolFits
    <3>. QED  BY <3>1, <3>2
  <2>. QED  BY <2>1, <2>2, <2>3 DEF PoolFits
<1>6. ASSUME NEW m \in Nodes, m # n PROVE PoolFits(m)'
  <2>1. idle'[m] = idle[m]
    BY <1>6, Pools
  <2>. QED  BY <1>6, <2>1, OtherPools
<1>7. idle' \in [Nodes -> Seq(Conns)]
  BY <1>2, Pools DEF s, t
<1>. QED  BY <1>5, <1>6, <1>7

--------------------------------------------------------------------------------
(* The steps of a call on its connection.                                         *)

\* What holds of the connection a call has.
LEMMA Held ==
    ASSUME IInv, NEW k \in Call, call[k].pc \in {"pooled", "fresh"}
    PROVE  LET c == call[k].conn
           IN  /\ c \in Conns /\ conn \in [Conns -> ConnRecord] /\ conn[c].client = "busy"
               /\ conn[c].from = call[k].at /\ ConnFits(conn[c])
               /\ Quiet(conn[c]) \/ Bears(conn[c], W(k))
               /\ \A l \in Call \ {k} : call[l].conn # c
               /\ call[k].at \in Nodes /\ call[k].to \in Nodes
<1>1. call[k].conn # None
  BY Calls DEF CallFits
<1>2. call[k].conn \in Conns
  BY <1>1, Calls DEF CallRecord
<1>. QED  BY <1>1, <1>2, Calls DEF CallFits, Placed, Holds, Apart, IInv, TypeOK, Fields

\* A connection in the pool has nothing on it, so it bears the write that it is sent.
LEMMA PickKeeps == ASSUME IInv, NEW k \in Call, Pick(k) PROVE IInv'
<1> DEFINE n == call[k].at
           a == call[k].to
           is == ToAddr(n, a)
<1>0. n \in Nodes /\ a \in Nodes /\ call[k].answer = None /\ call[k].pc = "pick"
  BY Calls DEF Pick, Placed, CallFits
<1>1. UNCHANGED <<raftVars, stopped>> /\ unsupported' \subseteq Nodes \X Nodes
  BY Calls DEF Pick, Unmoved
<1>2. CASE \E p \in {"http", "dial"} : Becomes(k, p) /\ UNCHANGED <<conn, idle>>
  BY <1>0, <1>1, <1>2, RaftSame, CallBecomes
<1>3. CASE is # {} /\ LET i == CHOOSE j \in is : \A l \in is : l <= j
                          c == idle[n][i]
                      IN /\ idle' = [idle EXCEPT ![n] = Without(@, i)]
                         /\ conn' = [conn EXCEPT ![c] = Sent(c, W(k))]
                         /\ call' = [call EXCEPT ![k].pc = "pooled", ![k].conn = c]
  <2> DEFINE i == CHOOSE j \in is : \A l \in is : l <= j
  <2>1. i \in is
    <3>1. is \subseteq 1..Len(idle[n]) /\ Len(idle[n]) \in Nat
      BY <1>0, Pools
    <3>2. is \in SUBSET Int /\ Len(idle[n]) \in Int /\ \A j \in is : j <= Len(idle[n])
      BY <3>1
    <3> HIDE DEF is
    <3>3. \E j \in is : \A l \in is : l <= j
      BY <1>3, <3>2, GreatestElement
    <3>. QED  BY <3>3
  <2>3. i \in DOMAIN idle[n]
    BY <2>1 DEF ToAddr
  <2>0. PICK c \in Conns : c = idle[n][i]
    BY <1>0, <2>3, Pools
  <2>2. /\ idle' = [idle EXCEPT ![n] = Without(@, i)]
        /\ conn' = [conn EXCEPT ![c] = Sent(c, W(k))]
        /\ call' = [call EXCEPT ![k].pc = "pooled", ![k].conn = c]
    BY <1>3, <2>0
  <2> HIDE DEF i, is
  <2>4. c \in Conns /\ conn[c].client = "idle" /\ conn[c].from = n
    BY <1>0, <2>0, <2>3, Pools
  <2>5. conn \in [Conns -> ConnRecord] /\ ConnFits(conn[c]) /\ Quiet(conn[c])
    BY <2>4 DEF IInv, ConnFits, TypeOK, Fields
  <2> HIDE DEF n, a
  <2>6. /\ ConnMoves(c) /\ conn'[c].client = "busy"
        /\ UNCHANGED <<conn[c].from, conn[c].to, conn[c].server, conn[c].serving, conn[c].rep>>
        /\ conn'[c].req = <<>> \/ conn'[c].req = <<W(k)>>
    <3>1. conn[c].req = <<>> /\ conn[c] \in ConnRecord
      BY <2>4, <2>5 DEF Quiet
    <3>2. Append(<<>>, W(k)) = <<W(k)>> /\ <<W(k)>> \in Seq(Writes) /\ <<>> \in Seq(Writes)
      BY Calls
    <3>3. PICK r \in {<<>>, <<W(k)>>} :
              Sent(c, W(k)) = [conn[c] EXCEPT !.client = "busy", !.req = r]
      BY <3>1, <3>2 DEF Sent
    <3> DEFINE x == [conn[c] EXCEPT !.client = "busy", !.req = r]
    <3>4. r \in Seq(Writes)
      BY <3>2
    <3>5. /\ x \in ConnRecord /\ x.client = "busy" /\ x.req = r /\ x.from = conn[c].from /\ x.to = conn[c].to
          /\ x.server = conn[c].server /\ x.serving = conn[c].serving /\ x.rep = conn[c].rep
      BY <3>1, <3>4 DEF ConnRecord
    <3>6. conn' = [conn EXCEPT ![c] = x]
      BY <2>2, <3>3
    <3> HIDE DEF x
    <3>. QED  BY <2>4, <3>5, <3>6, ConnSet
  <2>7. Quiet(conn'[c]) \/ Bears(conn'[c], W(k))
    BY <2>5, <2>6 DEF Quiet, Bears
  <2>8. ConnFits(conn'[c])
    BY <2>4, <2>5, <2>6, <2>7, Calls DEF ConnFits
  <2>9. \A l \in Call : call[l].conn # c
    BY <2>4, Calls, ForwardConstantsOK DEF CallFits
  <2>10. /\ CallsMove({k}) /\ call'[k].pc = "pooled" /\ call'[k].conn = c
         /\ UNCHANGED <<call[k].at, call[k].to, call[k].answer>>
    BY <2>2, <2>4, Calls DEF CallsMove, CallRecord
  <2>11. idle' \in [Nodes -> Seq(Conns)] /\ \A m \in Nodes : PoolFits(m)'
    BY <1>0, <1>1, <2>0, <2>2, <2>3, <2>6, PoolTake
  <2>12. Placed(k, call'[k])
    BY <1>0, <2>10 DEF Placed, n, a
  <2>13. None # "ok" /\ None \notin Conns
    BY Calls, ForwardConstantsOK DEF Answers
  <2>. QED  BY <1>0, <1>1, <2>4, <2>6, <2>7, <2>8, <2>9, <2>10, <2>11, <2>12, <2>13, ClientSide DEF n
<1>. QED  BY <1>2, <1>3 DEF Pick

LEMMA DialKeeps == ASSUME IInv, NEW k \in Call, Dial(k) PROVE IInv'
<1>0. call[k].at \in Nodes /\ call[k].to \in Nodes /\ call[k].answer = None /\ call[k].pc = "dial"
  BY Calls DEF Dial, Placed, CallFits
<1>1. UNCHANGED <<raftVars, stopped, idle>> /\ unsupported' \subseteq Nodes \X Nodes
  BY Calls DEF Dial, Unmoved
<1>2. CASE Answered(k, "error") /\ UNCHANGED conn
  <2>1. "error" \in Answers
    BY DEF Answers
  <2>. QED  BY <1>0, <1>1, <1>2, <2>1, RaftSame, CallAnswered
<1>3. CASE /\ \E c \in Conns : conn[c] = Unused
           /\ conn' = [conn EXCEPT ![NewConn] = Connected(k)]
           /\ call' = [call EXCEPT ![k].pc = "fresh", ![k].conn = NewConn]
  <2> DEFINE c == NewConn
  <2>1. c \in Conns /\ conn[c] = Unused
    BY <1>3 DEF NewConn
  <2> HIDE DEF c
  <2>2. conn \in [Conns -> ConnRecord] /\ conn[c].client = "unused"
    BY <2>1 DEF IInv, TypeOK, Fields, Unused
  <2>3. /\ Connected(k) \in ConnRecord /\ Connected(k).client = "busy"
        /\ Connected(k).from = call[k].at /\ Connected(k).to = call[k].to
        /\ Connected(k).rep = <<>> /\ Connected(k).serving = None
        /\ Connected(k).server \in {"gone", "read"} /\ Connected(k).req \in {<<>>, <<W(k)>>}
    <3>1. W(k) \in Writes /\ <<W(k)>> \in Seq(Writes) /\ <<>> \in Seq(Writes)
      BY Calls
    <3>2. PICK v \in {"gone", "read"}, r \in {<<>>, <<W(k)>>} :
              Connected(k) = [Unused EXCEPT !.from = call[k].at, !.to = call[k].to,
                                            !.client = "busy", !.server = v, !.req = r]
      BY DEF Connected
    <3>3. r \in Seq(Writes)
      BY <3>1
    <3>4. /\ Unused \in ConnRecord /\ call[k].at \in Node /\ call[k].to \in Node
          /\ Unused.rep = <<>> /\ Unused.serving = None
      BY <1>0, <3>1 DEF Unused, ConnRecord, Node
    <3> DEFINE u == Unused
               x == [u EXCEPT !.from = call[k].at, !.to = call[k].to, !.client = "busy",
                              !.server = v, !.req = r]
    <3> HIDE DEF u
    <3>5. /\ x \in ConnRecord /\ x.client = "busy" /\ x.from = call[k].at /\ x.to = call[k].to
          /\ x.rep = u.rep /\ x.serving = u.serving /\ x.server = v /\ x.req = r
      BY <3>3, <3>4 DEF ConnRecord, u
    <3>. QED  BY <3>2, <3>4, <3>5 DEF u
  <2>4. ConnMoves(c) /\ conn'[c] = Connected(k)
    BY <1>3, <2>1, <2>2, <2>3 DEF ConnMoves, c
  <2>5. Quiet(conn'[c]) \/ Bears(conn'[c], W(k))
    BY <2>3, <2>4 DEF Quiet, Bears
  <2>6. ConnFits(conn'[c])
    BY <1>0, <2>3, <2>4, <2>5, Calls DEF ConnFits
  <2>7. \A l \in Call : call[l].conn # c
    BY <2>1, <2>2, Calls, ForwardConstantsOK DEF CallFits
  <2>8. /\ CallsMove({k}) /\ call'[k].pc = "fresh" /\ call'[k].conn = c
        /\ UNCHANGED <<call[k].at, call[k].to, call[k].answer>>
    BY <1>3, <2>1, Calls DEF CallsMove, CallRecord, c
  <2>9. idle' \in [Nodes -> Seq(Conns)] /\ \A m \in Nodes : PoolFits(m)'
    <3>1. idle' \in [Nodes -> Seq(Conns)]
      BY <1>1 DEF IInv, TypeOK, Fields
    <3>. QED  BY <1>1, <2>1, <2>2, <2>4, <3>1, PoolsSame
  <2>10. Placed(k, call'[k])
    BY <1>0, <2>8 DEF Placed
  <2>11. None # "ok" /\ None \notin Conns
    BY Calls, ForwardConstantsOK DEF Answers
  <2>. QED  BY <1>0, <1>1, <2>1, <2>3, <2>4, <2>5, <2>6, <2>7, <2>8, <2>9, <2>10, <2>11, ClientSide
<1>. QED  BY <1>2, <1>3 DEF Dial

\* The reply on the connection is the only thing there, and it is this call's.
LEMMA TakeKeeps == ASSUME IInv, NEW k \in Call, TakeReply(k) PROVE IInv'
<1>0. PICK c \in Conns, n \in Nodes : c = call[k].conn /\ n = call[k].at
  BY Held DEF TakeReply
<1>1. /\ c \in Conns /\ conn \in [Conns -> ConnRecord] /\ conn[c].client = "busy"
      /\ conn[c].from = n /\ ConnFits(conn[c])
      /\ Quiet(conn[c]) \/ Bears(conn[c], W(k))
      /\ \A l \in Call \ {k} : call[l].conn # c
      /\ n \in Nodes /\ conn[c].to \in Nodes
  BY <1>0, Held DEF TakeReply, ConnFits
<1>2. PICK r \in Answers : conn[c].rep = <<<<W(k), r>>>> /\ conn[c].req = <<>> /\ conn[c].serving = None
  BY <1>0, <1>1 DEF TakeReply, Quiet, Bears
<1>3. Answered(k, r) /\ PutBack(k, c) /\ UNCHANGED <<raftVars, unsupported, stopped>>
  BY <1>0, <1>2 DEF TakeReply, Unmoved
<1>4. /\ CallsMove({k}) /\ call'[k].pc = "done" /\ call'[k].conn = None
      /\ call'[k].answer = r /\ UNCHANGED call[k].at
  BY <1>3, AnsweredIs
<1>5. r = "ok" => Committed(W(k))
  BY <1>1, <1>2, Calls DEF IInv, TrueReplies
<1>6. Tail(conn[c].rep) = <<>> /\ conn[c].rep # <<>>
  BY <1>2
<1>7. /\ ConnMoves(c) /\ conn'[c].rep = <<>> /\ conn'[c].client \in {"idle", "closed"}
      /\ UNCHANGED <<conn[c].from, conn[c].to, conn[c].server, conn[c].serving, conn[c].req>>
  <2> DEFINE p == IF n \notin stopped /\ Cardinality(ToAddr(n, conn[c].to)) < MaxIdle
                  THEN "idle" ELSE "closed"
  <2>1. conn' = [conn EXCEPT ![c].client = p, ![c].rep = IF @ = <<>> THEN @ ELSE Tail(@)]
    BY <1>0, <1>3 DEF PutBack
  <2>2. p \in {"idle", "closed"}
    OBVIOUS
  <2> HIDE DEF p
  <2>3. conn' = [conn EXCEPT ![c] = [conn[c] EXCEPT !.client = p, !.rep = <<>>]]
    BY <1>1, <1>6, <2>1
  <2> DEFINE x == [conn[c] EXCEPT !.client = p, !.rep = <<>>]
  <2>4. /\ x \in ConnRecord /\ x.client = p /\ x.rep = <<>> /\ x.from = conn[c].from /\ x.to = conn[c].to
        /\ x.server = conn[c].server /\ x.serving = conn[c].serving /\ x.req = conn[c].req
    <3>1. conn[c] \in ConnRecord /\ <<>> \in Seq(Writes \X Answers) /\ p \in {"idle", "closed"}
      BY <1>1, <2>2
    <3>. QED  BY <3>1 DEF ConnRecord
  <2> HIDE DEF x
  <2>. QED  BY <1>1, <2>2, <2>3, <2>4, ConnSet DEF x
<1>8. Quiet(conn'[c])
  BY <1>2, <1>7 DEF Quiet
<1>9. ConnFits(conn'[c])
  BY <1>1, <1>7, <1>8 DEF ConnFits
<1>10. idle' \in [Nodes -> Seq(Conns)] /\ \A m \in Nodes : PoolFits(m)'
  <2>1. CASE n \notin stopped /\ Cardinality(ToAddr(n, conn[c].to)) < MaxIdle
    <3>1. idle' = [idle EXCEPT ![n] = Append(@, c)] /\ conn'[c].client = "idle"
      BY <1>0, <1>1, <1>3, <2>1 DEF PutBack, ConnRecord
    <3>. QED  BY <1>1, <1>3, <1>7, <2>1, <3>1, PoolPut
  <2>2. CASE ~ (n \notin stopped /\ Cardinality(ToAddr(n, conn[c].to)) < MaxIdle)
    <3>1. idle' = idle
      BY <1>0, <1>1, <1>3, <2>2, Pools DEF PutBack
    <3>2. idle' \in [Nodes -> Seq(Conns)]
      BY <1>1, <3>1, Pools
    <3>. QED  BY <1>1, <1>3, <1>7, <3>1, <3>2, PoolsSame
  <2>. QED  BY <2>1, <2>2
<1>11. Placed(k, call'[k])
  BY <1>0, <1>1, <1>4 DEF Placed
<1>12. unsupported' \subseteq Nodes \X Nodes /\ r # None
  BY <1>3, Calls
<1>. QED  BY <1>1, <1>3, <1>4, <1>5, <1>7, <1>8, <1>9, <1>10, <1>11, <1>12, ClientSide

\* A connection that is given up keeps what it bears, and nobody has it any more.
LEMMA GivenUp ==
    ASSUME IInv, NEW k \in Call, call[k].pc \in {"pooled", "fresh"}, CloseConn(k), UNCHANGED stopped
    PROVE  /\ ConnMoves(call[k].conn) /\ ConnFits(conn'[call[k].conn])
           /\ conn'[call[k].conn].rep = conn[call[k].conn].rep
           /\ idle' \in [Nodes -> Seq(Conns)] /\ \A n \in Nodes : PoolFits(n)'
<1>0. PICK c \in Conns : c = call[k].conn
  BY Held
<1>1. c \in Conns /\ conn \in [Conns -> ConnRecord] /\ conn[c].client = "busy" /\ ConnFits(conn[c])
  BY <1>0, Held
<1>2. conn' = [conn EXCEPT ![c].client = "closed"] /\ UNCHANGED idle
  BY <1>0 DEF CloseConn
<1>3. /\ ConnMoves(c) /\ conn'[c].client = "closed"
      /\ UNCHANGED <<conn[c].from, conn[c].to, conn[c].server, conn[c].serving, conn[c].req, conn[c].rep>>
  BY <1>1, <1>2, ZenonT(30) DEF ConnMoves, ConnRecord
<1>4. ConnFits(conn'[c])
  BY <1>1, <1>3 DEF ConnFits, Quiet, Bears
<1>5. idle' \in [Nodes -> Seq(Conns)]
  BY <1>2 DEF IInv, TypeOK, Fields
<1>6. \A n \in Nodes : PoolFits(n)'
  BY <1>1, <1>2, <1>3, PoolsSame
<1>. QED  BY <1>0, <1>3, <1>4, <1>5, <1>6

LEMMA CutOffKeeps == ASSUME IInv, NEW k \in Call, CutOff(k) PROVE IInv'
<1>1. /\ call[k].pc \in {"pooled", "fresh"} /\ CloseConn(k) /\ UNCHANGED <<raftVars, stopped>>
      /\ \/ call[k].pc = "pooled" /\ Becomes(k, "dial") /\ UNCHANGED unsupported
         \/ unsupported' = unsupported \cup {<<call[k].at, call[k].to>>} /\ Becomes(k, "http")
  BY DEF CutOff, Unmoved
<1>2. PICK p \in {"dial", "http"} : Becomes(k, p)
  BY <1>1
<1>3. /\ CallsMove({k}) /\ call'[k].pc = p /\ call'[k].conn = None
      /\ UNCHANGED <<call[k].at, call[k].to, call[k].answer>>
  BY <1>2, BecomesIs
<1>4. /\ call[k].conn \in Conns /\ call[k].at \in Nodes /\ call[k].to \in Nodes
      /\ \A l \in Call \ {k} : call[l].conn # call[k].conn
  BY <1>1, Held
<1>5. unsupported' \subseteq Nodes \X Nodes
  BY <1>1, <1>4, Calls
<1>6. Placed(k, call'[k])
  BY <1>3, <1>4 DEF Placed
<1>7. call[k].answer = None /\ None # "ok"
  BY <1>1, Calls DEF CallFits, Answers
<1>. QED  BY <1>1, <1>3, <1>4, <1>5, <1>6, <1>7, GivenUp, ClientSide

LEMMA TimeoutKeeps == ASSUME IInv, NEW k \in Call, Timeout(k) PROVE IInv'
<1>1. /\ call[k].pc \in {"pooled", "fresh"} /\ CloseConn(k)
      /\ UNCHANGED <<raftVars, stopped, unsupported>>
      /\ Becomes(k, "dial") \/ Answered(k, "error")
  BY DEF Timeout, Unmoved
<1>2. /\ call[k].conn \in Conns /\ call[k].at \in Nodes /\ call[k].to \in Nodes
      /\ \A l \in Call \ {k} : call[l].conn # call[k].conn
  BY <1>1, Held
<1>3. call[k].answer = None /\ None # "ok" /\ "error" \in Answers /\ None # "error"
  BY <1>1, Calls DEF CallFits, Answers
<1>4. /\ CallsMove({k}) /\ call'[k].conn = None /\ UNCHANGED call[k].at
      /\ \/ call'[k].pc = "dial" /\ UNCHANGED <<call[k].to, call[k].answer>>
         \/ call'[k].pc = "done" /\ call'[k].answer = "error"
  BY <1>1, <1>3, BecomesIs, AnsweredIs
<1>5. unsupported' \subseteq Nodes \X Nodes
  BY <1>1, Calls
<1>6. Placed(k, call'[k])
  BY <1>2, <1>4 DEF Placed
<1>. QED  BY <1>1, <1>2, <1>3, <1>4, <1>5, <1>6, GivenUp, ClientSide

--------------------------------------------------------------------------------
(* The other end, and the network.                                                 *)

LEMMA Served ==
    ASSUME IInv, NEW c \in Conns
    PROVE  /\ conn \in [Conns -> ConnRecord] /\ conn[c] \in ConnRecord /\ ConnFits(conn[c])
           /\ \A w \in Writes : conn[c].rep = <<<<w, "ok">>>> => Committed(w)
           /\ unsupported \subseteq Nodes \X Nodes /\ None \notin Writes
BY ForwardConstantsOK DEF IInv, TypeOK, Fields, TrueReplies

\* The server answers the one write that is on the connection.
LEMMA ReplyKeeps ==
    ASSUME IInv, NEW c \in Conns, NEW w \in Writes, NEW a \in Answers, Reply(c, w, a),
           \/ conn[c].serving = w
           \/ conn[c].serving = None /\ conn[c].req # <<>> /\ w = Head(conn[c].req),
           a = "ok" => Committed(w), UNCHANGED raftVars,
           UNCHANGED <<call, idle, unsupported, stopped>>
    PROVE  IInv'
<1>1. Bears(conn[c], w) /\ conn[c].rep = <<>>
  BY Served DEF ConnFits, Quiet, Bears
<1>2. conn[c].serving = None => Tail(conn[c].req) = <<>>
  <2>1. \A y : <<y>> # <<>> /\ Tail(<<w>>) = <<>>
    OBVIOUS
  <2>. QED  BY <1>1, <2>1, Served DEF Bears
<1>3. conn[c].serving # None => conn[c].req = <<>>
  BY <1>1, Served DEF Bears
<1>4. /\ ConnMoves(c) /\ conn'[c].req = <<>> /\ conn'[c].serving = None
      /\ conn'[c].rep = <<<<w, a>>>> /\ conn'[c].server = "read"
      /\ UNCHANGED <<conn[c].client, conn[c].from, conn[c].to>>
  BY <1>1, <1>2, <1>3, Served DEF Reply, ConnMoves, ConnRecord
<1>5. Bears(conn'[c], w) /\ ~Quiet(conn[c])
  BY <1>1, <1>4, Served DEF Bears, Quiet
<1>6. ConnFits(conn'[c])
  BY <1>4, <1>5, Served DEF ConnFits
<1>7. \A x \in Writes : Bears(conn[c], x) => x = w
  <2>1. \A y : <<y>> # <<>>
    OBVIOUS
  <2>. QED  BY <1>1, <2>1, Served DEF Bears
<1>8. \A x \in Writes : conn'[c].rep = <<<<x, "ok">>>> => Committed(x)'
  <2> TAKE x \in Writes
  <2> HAVE conn'[c].rep = <<<<x, "ok">>>>
  <2>1. x = w /\ a = "ok"
    BY <1>4
  <2>. QED  BY <2>1, RaftSame
<1>. QED  BY <1>4, <1>5, <1>6, <1>7, <1>8, Served, RaftSame, ServerSide

\* Only the server's end, what it serves and what it has read change.
LEMMA ServerMoves ==
    ASSUME IInv, NEW c \in Conns, NEW v \in {"propose", "wait", "gone"}, ServerIs(c, v),
           v # "gone" => conn[c].serving # None,
           RaftTypes', \A w \in Writes : Committed(w) => Committed(w)',
           UNCHANGED <<call, idle, unsupported, stopped>>
    PROVE  IInv'
<1> DEFINE x == [conn[c] EXCEPT !.server = v]
<1>1. /\ x \in ConnRecord /\ x.server = v /\ x.client = conn[c].client /\ x.from = conn[c].from
      /\ x.to = conn[c].to /\ x.serving = conn[c].serving /\ x.req = conn[c].req /\ x.rep = conn[c].rep
  BY Served DEF ConnRecord
<1>2. conn' = [conn EXCEPT ![c] = x]
  BY DEF ServerIs
<1> HIDE DEF x
<1>3. ConnMoves(c) /\ conn'[c] = x
  BY <1>1, <1>2, ConnSet
<1>4. ConnFits(conn'[c]) /\ \A w \in Writes : Bears(conn'[c], w) <=> Bears(conn[c], w)
  BY <1>1, <1>3, Served DEF ConnFits, Quiet, Bears
<1>5. Quiet(conn'[c]) <=> Quiet(conn[c])
  BY <1>1, <1>3 DEF Quiet
<1>6. UNCHANGED <<conn[c].client, conn[c].from, conn[c].to, conn[c].rep>>
  BY <1>1, <1>3
<1>7. \A w \in Writes : conn'[c].rep = <<<<w, "ok">>>> => Committed(w)'
  BY <1>6, Served
<1>8. unsupported' \subseteq Nodes \X Nodes
  BY Served
<1>. QED  BY <1>3, <1>4, <1>5, <1>6, <1>7, ServerSide

LEMMA ReadKeeps == ASSUME IInv, NEW c \in Conns, ReadRequest(c) PROVE IInv'
<1>1. /\ conn[c].server = "read" /\ conn[c].serving = None
      /\ UNCHANGED <<raftVars, call, idle, unsupported, stopped>>
  BY Served DEF ReadRequest, ServerSame, Unmoved, ConnFits
<1>2. CASE /\ conn[c].req # <<>>
           /\ conn' = [conn EXCEPT ![c].server = "propose", ![c].serving = Head(conn[c].req),
                                   ![c].req = Tail(@)]
  <2>1. PICK w \in Writes : conn[c].req = <<w>> /\ conn[c].rep = <<>>
    BY <1>1, <1>2, Served DEF ConnFits, Quiet, Bears
  <2> DEFINE x == [conn[c] EXCEPT !.server = "propose", !.serving = w, !.req = <<>>]
  <2>2. Head(<<w>>) = w /\ Tail(<<w>>) = <<>> /\ <<>> \in Seq(Writes) /\ \A y : <<y>> # <<>>
    OBVIOUS
  <2>3. /\ x \in ConnRecord /\ x.server = "propose" /\ x.client = conn[c].client
        /\ x.from = conn[c].from /\ x.to = conn[c].to /\ x.serving = w /\ x.req = <<>>
        /\ x.rep = conn[c].rep
    BY <2>2, Served DEF ConnRecord
  <2>4. conn' = [conn EXCEPT ![c] = x]
    BY <1>2, <2>1, <2>2
  <2> HIDE DEF x
  <2>5. ConnMoves(c) /\ conn'[c] = x
    BY <2>3, <2>4, ConnSet
  <2>6. Bears(x, w) /\ ~Quiet(conn[c])
    BY <2>1, <2>2, <2>3 DEF Bears, Quiet
  <2>7. ConnFits(x)
    BY <2>3, <2>6, Served DEF ConnFits
  <2>8. \A y \in Writes : Bears(conn[c], y) => y = w
    BY <2>1, <2>2 DEF Bears
  <2>9. \A y \in Writes : conn'[c].rep = <<<<y, "ok">>>> => Committed(y)'
    BY <1>1, <2>3, <2>5, Served, RaftSame
  <2>10. UNCHANGED <<conn[c].client, conn[c].from, conn[c].to>>
    BY <2>3, <2>5
  <2>. QED  BY <1>1, <2>5, <2>6, <2>7, <2>8, <2>9, <2>10, RaftSame, ServerSide
<1>3. CASE conn[c].req # <<>> /\ Reply(c, Head(conn[c].req), "notleader")
  <2>1. Head(conn[c].req) \in Writes
    BY <1>3, Served DEF ConnRecord
  <2>2. "notleader" \in Answers
    BY DEF Answers
  <2>. QED  BY <1>1, <1>3, <2>1, <2>2, ReplyKeeps
<1>4. CASE ServerIs(c, "gone")
  BY <1>1, <1>4, RaftSame, ServerMoves
<1>. QED  BY <1>2, <1>3, <1>4 DEF ReadRequest

LEMMA ForwardedKeeps ==
    ASSUME IInv, NEW c \in Conns, ApplyForwarded(c) \/ ForwardedDone(c)
    PROVE  IInv'
<1>1. /\ conn[c].serving \in Writes /\ {"ok", "error"} \subseteq Answers
      /\ UNCHANGED <<call, idle, unsupported, stopped>>
  BY Served DEF ApplyForwarded, ForwardedDone, ServerSame, Unmoved, ConnFits, ConnRecord, Answers
<1>2. CASE Propose(conn[c].to, conn[c].serving) /\ ServerIs(c, "wait")
  <2>1. conn[c].serving # None
    BY <1>1, Served
  <2>2. RaftTypes' /\ \A x \in Writes : Committed(x) => Committed(x)'
    BY <1>1, <1>2, ProposeTypes
  <2>. QED  BY <1>1, <1>2, <2>1, <2>2, ServerMoves
<1>3. CASE \E a \in Answers : /\ Reply(c, conn[c].serving, a) /\ UNCHANGED raftVars
                              /\ a = "ok" => Committed(conn[c].serving)
  BY <1>1, <1>3, ReplyKeeps
<1>4. CASE ForwardedDone(c)
  <2>1. PICK a \in Result(conn[c].to, conn[c].serving) : Reply(c, conn[c].serving, a)
    BY <1>4 DEF ForwardedDone
  <2>2. a \in Answers /\ (a = "ok" => Committed(conn[c].serving))
    BY <1>1, <2>1 DEF Result, CommittedHere, Committed
  <2>. QED  BY <1>3, <1>4, <2>1, <2>2 DEF ForwardedDone, ServerSame
<1>5. CASE ApplyForwarded(c)
  BY <1>1, <1>2, <1>3, <1>5 DEF ApplyForwarded
<1>. QED  BY <1>4, <1>5

\* What is lost with a connection can only be missing.
LEMMA DropKeeps == ASSUME IInv, NEW c \in Conns, Drop(c) PROVE IInv'
<1>1. UNCHANGED <<raftVars, call, idle, unsupported, stopped>>
  BY DEF Drop
<1> DEFINE lostX == [conn[c] EXCEPT !.lost = TRUE]
           goneX == [conn[c] EXCEPT !.server = "gone", !.rep = <<>>]
<1>2. \/ conn' = [conn EXCEPT ![c] = lostX]
      \/ conn' = [conn EXCEPT ![c] = goneX]
  BY DEF Drop
<1>3. PICK x \in ConnRecord : /\ conn' = [conn EXCEPT ![c] = x] /\ x.client = conn[c].client
                             /\ x.from = conn[c].from /\ x.to = conn[c].to
                             /\ x.serving = conn[c].serving /\ x.req = conn[c].req
                             /\ x.rep \in {conn[c].rep, <<>>} /\ x.server \in {conn[c].server, "gone"}
  <2>1. conn[c] \in ConnRecord /\ <<>> \in Seq(Writes \X Answers)
    BY Served
  <2>2. /\ lostX \in ConnRecord /\ lostX.client = conn[c].client
        /\ lostX.from = conn[c].from /\ lostX.to = conn[c].to
        /\ lostX.serving = conn[c].serving /\ lostX.req = conn[c].req
        /\ lostX.rep = conn[c].rep /\ lostX.server = conn[c].server
    BY <2>1 DEF ConnRecord
  <2>3. /\ goneX \in ConnRecord /\ goneX.client = conn[c].client
        /\ goneX.from = conn[c].from /\ goneX.to = conn[c].to
        /\ goneX.serving = conn[c].serving /\ goneX.req = conn[c].req
        /\ goneX.rep = <<>> /\ goneX.server = "gone"
    BY <2>1 DEF ConnRecord
  <2> HIDE DEF lostX, goneX
  <2>. QED  BY <1>2, <2>2, <2>3
<1>4. ConnMoves(c) /\ conn'[c] = x
  BY <1>3, ConnSet
<1>5. Quiet(conn[c]) => Quiet(x)
  BY <1>3 DEF Quiet
<1>6. \A w \in Writes : Bears(conn[c], w) => Quiet(x) \/ Bears(x, w)
  BY <1>3 DEF Quiet, Bears
<1>7. ConnFits(x)
  BY <1>3, <1>5, <1>6, Served DEF ConnFits
<1>8. \A w \in Writes : conn'[c].rep = <<<<w, "ok">>>> => Committed(w)'
  <2>1. \A y : <<y>> # <<>>
    OBVIOUS
  <2>2. \A w \in Writes : x.rep = <<<<w, "ok">>>> => Committed(w)
    BY <1>3, <2>1, Served
  <2>. QED  BY <1>1, <1>4, <2>2, RaftSame
<1>9. UNCHANGED <<conn[c].client, conn[c].from, conn[c].to>>
  BY <1>3, <1>4
<1>. QED  BY <1>1, <1>4, <1>5, <1>6, <1>7, <1>8, <1>9, RaftSame, ServerSide

LEMMA StopKeeps == ASSUME IInv, NEW n \in Nodes, StopNode(n) PROVE IInv'
<1>1. /\ UNCHANGED <<proposed, log, call, unsupported>> /\ stopped' = stopped \cup {n}
      /\ leaders' = leaders \ {n} /\ lead' = IF n = lead THEN None ELSE lead
      /\ knows' = [knows EXCEPT ![n] = None] /\ idle' = [idle EXCEPT ![n] = <<>>]
  BY DEF StopNode
<1>2. /\ conn' \in [Conns -> ConnRecord]
      /\ \A c \in Conns :
            /\ conn'[c].from = conn[c].from /\ conn'[c].to = conn[c].to
            /\ conn'[c].req = conn[c].req /\ conn'[c].serving = conn[c].serving
            /\ conn'[c].rep = conn[c].rep /\ conn'[c].server \in {conn[c].server, "gone"}
            /\ conn'[c].client = IF c \in Range(idle[n]) THEN "closed" ELSE conn[c].client
  <2> DEFINE sv(c) == IF conn[c].server # "unused" /\ conn[c].to = n THEN "gone" ELSE conn[c].server
             cl(c) == IF c \in Range(idle[n]) THEN "closed" ELSE conn[c].client
             x(c) == [conn[c] EXCEPT !.server = sv(c), !.client = cl(c)]
  <2>1. conn' = [c \in Conns |-> x(c)]
    BY DEF StopNode
  <2>2. ASSUME NEW c \in Conns
        PROVE  /\ x(c) \in ConnRecord
               /\ x(c).from = conn[c].from /\ x(c).to = conn[c].to
               /\ x(c).req = conn[c].req /\ x(c).serving = conn[c].serving
               /\ x(c).rep = conn[c].rep /\ x(c).server = sv(c) /\ x(c).client = cl(c)
    <3>1. conn[c] \in ConnRecord
      BY Served
    <3>2. /\ sv(c) \in {"unused", "read", "propose", "wait", "gone"}
          /\ cl(c) \in {"unused", "busy", "idle", "closed"}
      BY <3>1 DEF ConnRecord
    <3> HIDE DEF sv, cl
    <3>. QED  BY <3>1, <3>2 DEF ConnRecord
  <2>3. \A c \in Conns : sv(c) \in {conn[c].server, "gone"}
    OBVIOUS
  <2> HIDE DEF x
  <2>. QED  BY <2>1, <2>2, <2>3
<1>3. \A c \in Conns : conn'[c].client # conn[c].client => conn[c].client = "idle" /\ conn[c].from = n
  <2>1. \A c \in Range(idle[n]) : conn[c].client = "idle" /\ conn[c].from = n
    BY Pools DEF PoolFits
  <2>. QED  BY <1>2, <2>1
<1>4. \A c \in Conns : Quiet(conn'[c]) <=> Quiet(conn[c])
  BY <1>2 DEF Quiet
<1>5. \A c \in Conns : \A w \in Writes : Bears(conn'[c], w) <=> Bears(conn[c], w)
  BY <1>2 DEF Bears
<1>6. \A c \in Conns : ConnFits(conn'[c])
  <2> TAKE c \in Conns
  <2>1. ConnFits(conn[c])
    BY Served
  <2>2. conn'[c].client = "closed" \/ conn'[c].client = conn[c].client
    BY <1>2
  <2>. QED  BY <1>2, <1>3, <1>4, <1>5, <2>1, <2>2 DEF ConnFits
<1>7. \A k \in Call : call[k].conn # None => /\ call[k].conn \in Conns
                                            /\ conn[call[k].conn].client = "busy"
  BY Calls DEF CallFits, CallRecord
<1>8. TypeOK'
  <2>1. \A k \in Call : CallFits(call[k])'
    <3> TAKE k \in Call
    <3>. QED  BY <1>1, <1>3, <1>7, Calls DEF CallFits
  <2>2. \A m \in Nodes : PoolFits(m)'
    <3> TAKE m \in Nodes
    <3>1. CASE m = n
      <4>1. idle'[n] = <<>> /\ DOMAIN <<>> = {}
        BY <1>1, Pools
      <4>2. Range(idle'[n]) = {} /\ IsInjective(idle'[n])
        BY <4>1 DEF Range, IsInjective
      <4>3. \A a : ToAddr(n, a)' = {}
        BY <4>1 DEF ToAddr
      <4>4. Cardinality({}) <= MaxIdle
        BY FS_EmptySet, ForwardConstantsOK
      <4>. QED  BY <3>1, <4>1, <4>2, <4>3, <4>4 DEF PoolFits
    <3>2. CASE m # n
      <4>1. idle'[m] = idle[m] /\ PoolFits(m)
        BY <1>1, <3>2, Pools
      <4>2. \A i \in DOMAIN idle[m] :
                /\ conn'[idle[m][i]].client = "idle" /\ conn'[idle[m][i]].from = m
                /\ conn'[idle[m][i]].to = conn[idle[m][i]].to
        <5> TAKE i \in DOMAIN idle[m]
        <5>1. /\ idle[m][i] \in Conns /\ conn[idle[m][i]].client = "idle"
              /\ conn[idle[m][i]].from = m
          BY Pools
        <5>. QED  BY <1>2, <1>3, <3>2, <5>1
      <4>3. \A a \in Nodes : ToAddr(m, a)' = ToAddr(m, a)
        BY <4>1, <4>2 DEF ToAddr
      <4>4. \A d \in Range(idle'[m]) : conn'[d].client = "idle" /\ conn'[d].from = m
        BY <4>1, <4>2 DEF Range
      <4>. QED  BY <1>1, <3>2, <4>1, <4>3, <4>4 DEF PoolFits
    <3>. QED  BY <3>1, <3>2
  <2>3. Fields'
    BY <1>1, <1>2 DEF IInv, TypeOK, Fields
  <2>4. RaftTypes'
    BY <1>1, ForwardConstantsOK DEF IInv, TypeOK, RaftTypes, Node
  <2>. QED  BY <2>1, <2>2, <2>3, <2>4 DEF TypeOK
<1>9. \A k \in Call : Placed(k, call[k])' /\ Holds(k, call[k])'
  <2> TAKE k \in Call
  <2>1. Placed(k, call[k])'
    BY <1>1, Calls DEF Placed
  <2>2. Holds(k, call[k])'
    <3> SUFFICES ASSUME call[k].conn # None
                 PROVE  /\ conn'[call[k].conn].from = call[k].at
                        /\ Quiet(conn'[call[k].conn]) \/ Bears(conn'[call[k].conn], W(k))
      BY <1>1 DEF Holds, Quiet, Bears
    <3>. QED  BY <1>2, <1>4, <1>5, <1>7, Calls DEF Holds
  <2>. QED  BY <2>1, <2>2
<1>10. Apart' /\ TrueAnswers'
  BY <1>1 DEF IInv, Apart, TrueAnswers, Committed
<1>11. TrueReplies'
  BY <1>1, <1>2 DEF IInv, TrueReplies, Committed
<1>. QED  BY <1>6, <1>8, <1>9, <1>10, <1>11 DEF IInv

--------------------------------------------------------------------------------
(* The theorems.                                                                  *)

LEMMA Start0 == Init => IInv
<1> SUFFICES ASSUME Init PROVE IInv
  OBVIOUS
<1>0. /\ None \notin Nodes \cup Conns \cup Writes \cup Answers /\ First \in Nodes
      /\ At \in [Writes -> Nodes] /\ MaxIdle \in Nat
  BY ForwardConstantsOK
<1>1. \A k \in Call : /\ call[k] \in CallRecord /\ call[k].pc \in {"none", "start"}
                      /\ call[k].conn = None /\ call[k].answer = None
                      /\ call[k].pc # "none" => call[k].at \in Nodes
  <2> TAKE k \in Call
  <2>1. k[1] \in Writes
    BY DEF Call
  <2>2. call[k] = IF k[2] = 1 THEN [NoCall EXCEPT !.pc = "start", !.at = At[k[1]]] ELSE NoCall
    BY DEF Init
  <2>3. NoCall \in CallRecord /\ NoCall.pc = "none" /\ NoCall.conn = None /\ NoCall.answer = None
    BY DEF NoCall, CallRecord, Node
  <2>4. CASE k[2] = 1
    <3> DEFINE u == NoCall
               x == [u EXCEPT !.pc = "start", !.at = At[k[1]]]
    <3>1. At[k[1]] \in Node /\ At[k[1]] \in Nodes
      BY <1>0, <2>1 DEF Node
    <3> HIDE DEF u
    <3>2. /\ x \in CallRecord /\ x.pc = "start" /\ x.at = At[k[1]] /\ x.conn = u.conn
          /\ x.answer = u.answer
      BY <2>3, <3>1 DEF CallRecord, u
    <3>3. call[k] = x
      BY <2>2, <2>4 DEF u
    <3> HIDE DEF x
    <3>. QED  BY <2>3, <3>1, <3>2, <3>3 DEF u
  <2>5. CASE k[2] # 1
    BY <2>2, <2>3, <2>5
  <2>. QED  BY <2>4, <2>5
<1>2. call \in [Call -> CallRecord]
  <2>1. DOMAIN call = Call /\ call = [k \in Call |-> call[k]]
    BY DEF Init
  <2>. QED  BY <1>1, <2>1
<1>3. Unused \in ConnRecord /\ Quiet(Unused) /\ Unused.client = "unused" /\ Unused.server = "unused"
      /\ Unused.rep = <<>>
  BY DEF Unused, ConnRecord, Node, Quiet
<1>4. conn \in [Conns -> ConnRecord] /\ \A c \in Conns : conn[c] = Unused
  BY <1>3 DEF Init
<1>5. \A n \in Nodes : PoolFits(n)
  <2> TAKE n \in Nodes
  <2>0. DOMAIN <<>> = {}
    OBVIOUS
  <2>1. idle[n] = <<>> /\ DOMAIN idle[n] = {} /\ stopped = {}
    BY <2>0 DEF Init
  <2>2. Range(idle[n]) = {} /\ IsInjective(idle[n])
    BY <2>1 DEF Range, IsInjective
  <2>3. \A a : ToAddr(n, a) = {}
    BY <2>1 DEF ToAddr
  <2>4. Cardinality({}) <= MaxIdle
    BY <1>0, FS_EmptySet
  <2>. QED  BY <2>1, <2>2, <2>3, <2>4 DEF PoolFits
<1>6. TypeOK
  <2>0. <<>> \in Seq(Writes) /\ <<>> \in Seq(Conns)
    OBVIOUS
  <2>1. RaftTypes
    <3>1. lead = First /\ leaders = {First} /\ knows = [m \in Nodes |-> First]
          /\ proposed = <<>> /\ log = <<>>
      BY DEF Init
    <3>. QED  BY <1>0, <2>0, <3>1 DEF RaftTypes, Node
  <2>2. Fields
    <3>1. idle = [n \in Nodes |-> <<>>] /\ unsupported = {} /\ stopped = {}
      BY DEF Init
    <3>. QED  BY <1>2, <1>4, <2>0, <3>1 DEF Fields
  <2>3. \A k \in Call : CallFits(call[k])
    BY <1>1 DEF CallFits
  <2>. QED  BY <1>5, <2>1, <2>2, <2>3 DEF TypeOK
<1>7. \A c \in Conns : ConnFits(conn[c])
  BY <1>3, <1>4 DEF ConnFits
<1>8. \A k \in Call : Placed(k, call[k]) /\ Holds(k, call[k])
  BY <1>1 DEF Placed, Holds
<1>9. Apart
  BY <1>1 DEF Apart
<1>10. TrueReplies
  <2>1. \A y : <<y>> # <<>>
    OBVIOUS
  <2>. QED  BY <1>3, <1>4, <2>1 DEF TrueReplies
<1>11. TrueAnswers
  BY <1>0, <1>1 DEF TrueAnswers, Answers
<1>. QED  BY <1>6, <1>7, <1>8, <1>9, <1>10, <1>11 DEF IInv

LEMMA Invariant == Spec => []IInv
<1>1. ASSUME IInv, [Next]_vars PROVE IInv'
  <2>1. CASE UNCHANGED vars
    <3>1. CallsMove({}) /\ UNCHANGED <<raftVars, conn, idle, stopped>>
      BY <1>1, <2>1 DEF vars, CallsMove, IInv, TypeOK, Fields
    <3>2. unsupported' \subseteq Nodes \X Nodes
      BY <1>1, <2>1 DEF vars, IInv, TypeOK, Fields
    <3>. QED  BY <1>1, <3>1, <3>2, RaftSame, CallsOnly
  <2>2. ASSUME NEW k \in Call, Step(k) PROVE IInv'
    BY <1>1, <2>2, StartKeeps, ApplyKeeps, PickKeeps, DialKeeps, TakeKeeps, CutOffKeeps,
       TimeoutKeeps, HTTPKeeps DEF Step
  <2>3. ASSUME NEW c \in Conns, Serve(c) \/ Drop(c) PROVE IInv'
    BY <1>1, <2>3, ReadKeeps, ForwardedKeeps, DropKeeps DEF Serve
  <2>. QED  BY <1>1, <2>1, <2>2, <2>3, RaftKeeps, ExpireKeeps, StopKeeps DEF Next
<1>. QED  BY <1>1, Start0, PTL DEF Spec

\* Calls, connections and pools fit one another: what a call has is not in a pool, a
\* pool has a connection once and no more of them than it may, and none after the
\* shutdown (forwardPool.get, put and close).
THEOREM TypeCorrect == Spec => []TypeOK
BY Invariant, PTL DEF IInv

\* A call reads the answer to its own write from a connection that nobody else has
\* (forwardTCP, roundTrip).
THEOREM NoOthersAnswer == Spec => []AnswerIsOwn
<1>1. IInv => AnswerIsOwn
  <2> SUFFICES ASSUME IInv, NEW k \in Call, call[k].conn # None
               PROVE  /\ Here(call[k].conn) \subseteq {W(k)}
                      /\ \A l \in Call \ {k} : call[l].conn # call[k].conn
    BY DEF AnswerIsOwn
  <2>1. call[k].conn \in Conns /\ (Quiet(conn[call[k].conn]) \/ Bears(conn[call[k].conn], W(k)))
    BY Calls DEF CallRecord, Holds
  <2>2. Here(call[k].conn) \subseteq {W(k)}
    <3>1. Range(<<>>) = {} /\ \A y : Range(<<y>>) = {y}
      BY DEF Range
    <3>2. \A a : <<W(k), a>>[1] = W(k)
      OBVIOUS
    <3>3. None # W(k)
      BY Calls, ForwardConstantsOK
    <3> DEFINE x == conn[call[k].conn]
    <3>4. CASE x.req = <<>> /\ x.rep = <<>> /\ x.serving \in {None, W(k)}
      BY <3>1, <3>4 DEF Here
    <3>5. CASE x.req = <<W(k)>> /\ x.rep = <<>> /\ x.serving = None
      BY <3>1, <3>5 DEF Here
    <3>6. ASSUME NEW a, x.req = <<>> /\ x.rep = <<<<W(k), a>>>> /\ x.serving = None
          PROVE  Here(call[k].conn) \subseteq {W(k)}
      <4>1. \A y \in Range(x.rep) : y[1] = W(k)
        BY <3>1, <3>2, <3>6
      <4>. QED  BY <3>1, <3>6, <4>1 DEF Here
    <3>. QED  BY <2>1, <3>4, <3>5, <3>6 DEF Quiet, Bears
  <2>. QED  BY <2>2 DEF IInv, Apart
<1>. QED  BY <1>1, Invariant, PTL

\* A write that was answered with success is committed, on whatever way the answer
\* came and whoever is the leader by then (Manager.apply, applyForwarded).
THEOREM SuccessIsCommitted == Spec => []OKIsCommitted
<1>1. IInv => OKIsCommitted
  BY DEF IInv, TrueAnswers, OKIsCommitted, Committed
<1>. QED  BY <1>1, Invariant, PTL
================================================================================

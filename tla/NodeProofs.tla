------------------------------- MODULE NodeProofs -------------------------------
(* Two parts of a node.  Every node has the document of the log it has applied, for *)
(* any number of nodes, logs, snapshots and restarts (StateMachine); and the end of  *)
(* a process, for any number of connections and commands, and at whatever step of it *)
(* the connections are (Server).                                                     *)
EXTENDS StateMachine, Server, Induction

\* A snapshot, on disk or being written out, is of the log up to its own index, and
\* not of what its node has applied since.  A node has never applied less than its
\* snapshots cover, which is what a restart goes back to.
IsSnapshot(s, n) == s.index <= applied[n] /\ IsDocument(s.state, log, s.index)
SnapshotsTrue == \A n \in Nodes : IsSnapshot(taking[n], n) /\ IsSnapshot(stored[n], n)

IInv == TypeOK /\ SameDocument /\ SnapshotsTrue

--------------------------------------------------------------------------------
\* The document of a log stays what it is when the log grows.
LEMMA DocumentStays ==
    ASSUME NEW cmds \in Seq(Kinds), NEW cmd \in Kinds, NEW i \in 0..Len(cmds), NEW state,
           IsDocument(state, cmds, i)
    PROVE  IsDocument(state, Append(cmds, cmd), i)
<1>1. \A j \in 1..i : Append(cmds, cmd)[j] = cmds[j]
  OBVIOUS
<1>2. {j \in 1..i : Append(cmds, cmd)[j] = "write"} = {j \in 1..i : cmds[j] = "write"}
  BY <1>1
<1>. QED  BY <1>2 DEF IsDocument

\* The next log makes of the document of a log that of the next.
LEMMA DocumentGrows ==
    ASSUME log \in Seq(Kinds), NEW i \in Nat, i < Len(log),
           NEW state \in Seq(Nat), IsDocument(state, log, i)
    PROVE  Result(state, i + 1) \in Seq(Nat) /\ IsDocument(Result(state, i + 1), log, i + 1)
<1>1. CASE log[i + 1] # "write"
  <2>1. {j \in 1..(i + 1) : log[j] = "write"} = {j \in 1..i : log[j] = "write"}
    BY <1>1
  <2>. QED  BY <1>1, <2>1 DEF Result, IsDocument
<1>2. CASE log[i + 1] = "write"
  <2> DEFINE new == Append(state, i + 1)
  <2>1. /\ new \in Seq(Nat) /\ Len(new) = Len(state) + 1 /\ new[Len(state) + 1] = i + 1
        /\ \A p \in 1..Len(state) : new[p] = state[p]
    OBVIOUS
  <2>2. \A p \in 1..Len(state) : state[p] \in {j \in 1..i : log[j] = "write"}
    BY DEF IsDocument
  <2>3. \A p, q \in 1..Len(new) : p < q => new[p] < new[q]
    <3> SUFFICES ASSUME NEW p \in 1..Len(new), NEW q \in 1..Len(new), p < q
                 PROVE  new[p] < new[q]
      OBVIOUS
    <3> HIDE DEF new
    <3>1. p \in 1..Len(state) /\ new[p] = state[p]
      BY <2>1, SMTT(30)
    <3>2. CASE q = Len(state) + 1
      BY <2>1, <2>2, <3>1, <3>2
    <3>3. CASE q # Len(state) + 1
      <4>1. q \in 1..Len(state) /\ new[q] = state[q]
        <5>1. Len(state) \in Nat /\ q \in Nat /\ 1 <= q /\ q <= Len(state) + 1
          BY <2>1
        <5>2. q \in 1..Len(state)
          BY <3>3, <5>1, SMTT(30)
        <5>. QED  BY <2>1, <5>2
      <4>. QED  BY <3>1, <4>1 DEF IsDocument
    <3>. QED  BY <3>2, <3>3
  <2>4. {new[p] : p \in 1..Len(new)} = {state[p] : p \in 1..Len(state)} \cup {i + 1}
    <3> HIDE DEF new
    <3>1. 1..Len(new) = (1..Len(state)) \cup {Len(state) + 1}
      BY <2>1
    <3>. QED  BY <2>1, <3>1
  <2>5. {j \in 1..(i + 1) : log[j] = "write"} = {j \in 1..i : log[j] = "write"} \cup {i + 1}
    BY <1>2
  <2>. QED  BY <1>2, <2>1, <2>3, <2>4, <2>5 DEF Result, IsDocument
<1>. QED  BY <1>1, <1>2

LEMMA NoSnapOK ==
    log \in Seq(Kinds) => NoSnap \in Snapshots /\ NoSnap.index = 0 /\ IsDocument(NoSnap.state, log, 0)
BY DEF NoSnap, Snap, Snapshots, IsDocument

LEMMA Starts == Init => IInv
BY StateMachineConstantsOK
   DEF Init, IInv, TypeOK, SameDocument, SnapshotsTrue, IsSnapshot, IsDocument, NoSnap, Snap, Snapshots

LEMMA CommitStep == ASSUME IInv, NEW cmd \in Kinds, Commit(cmd) PROVE IInv'
<1> USE DEF IInv
<1>1. log' = Append(log, cmd) /\ UNCHANGED <<applied, doc, taking, stored, first, nrestart, nsnap>>
  BY DEF Commit
<1>2. Len(log') = Len(log) + 1 /\ log' \in Seq(Kinds)
  BY <1>1 DEF TypeOK
<1>3. TypeOK'
  BY <1>1, <1>2 DEF TypeOK
<1>4. ASSUME NEW state, NEW i \in 0..Len(log), IsDocument(state, log, i)
      PROVE  IsDocument(state, log', i)
  BY <1>1, <1>4, DocumentStays DEF TypeOK
<1>5. SameDocument'
  BY <1>1, <1>4 DEF SameDocument, TypeOK
<1>6. SnapshotsTrue'
  <2>1. ASSUME NEW n \in Nodes, NEW s \in Snapshots, IsSnapshot(s, n)
        PROVE  s.index <= applied[n] /\ IsDocument(s.state, log', s.index)
    BY <1>4, <2>1 DEF IsSnapshot, TypeOK, Snapshots
  <2>. QED  BY <1>1, <2>1 DEF SnapshotsTrue, IsSnapshot, TypeOK
<1>. QED  BY <1>3, <1>5, <1>6

\* What a node has applied only grows under its snapshots.
LEMMA SnapshotsKeep ==
    ASSUME IInv, UNCHANGED <<log, taking, stored>>, applied' \in [Nodes -> Nat],
           \A m \in Nodes : applied[m] <= applied'[m]
    PROVE  SnapshotsTrue'
<1> SUFFICES ASSUME NEW m \in Nodes, NEW s \in Snapshots, IsSnapshot(s, m)
             PROVE  s.index <= applied'[m]
  BY DEF IInv, TypeOK, SnapshotsTrue, IsSnapshot
<1>1. s.index \in Nat /\ applied[m] \in Nat /\ applied'[m] \in Nat
  BY DEF IInv, TypeOK, Snapshots
<1>. QED  BY <1>1 DEF IsSnapshot

LEMMA ApplyStep == ASSUME IInv, NEW n \in Nodes, Apply(n) PROVE IInv'
<1> USE DEF IInv
<1>1. /\ UNCHANGED <<log, taking, stored, first, nrestart, nsnap>>
      /\ applied' = [applied EXCEPT ![n] = @ + 1] /\ applied[n] < Len(log)
      /\ doc' = [doc EXCEPT ![n] = Result(doc[n], applied[n] + 1)]
  BY DEF Apply, TypeOK
<1>2. Result(doc[n], applied[n] + 1) \in Seq(Nat) /\ IsDocument(Result(doc[n], applied[n] + 1), log, applied[n] + 1)
  BY <1>1, DocumentGrows DEF TypeOK, SameDocument
<1>3. TypeOK'
  BY <1>1, <1>2 DEF TypeOK
<1>4. SameDocument'
  BY <1>1, <1>2, SMTT(30) DEF TypeOK, SameDocument, IsDocument
<1>5. SnapshotsTrue'
  <2>1. ASSUME NEW m \in Nodes PROVE applied[m] <= applied'[m]
    BY <1>1 DEF TypeOK
  <2>2. applied' \in [Nodes -> Nat]
    BY <1>1 DEF TypeOK
  <2>. QED  BY <1>1, <2>1, <2>2, SnapshotsKeep
<1>. QED  BY <1>3, <1>4, <1>5

\* The steps of a snapshot change no document.
LEMMA SnapshotStep ==
    ASSUME IInv, NEW n \in Nodes, Snapshot(n) \/ Persist(n) \/ PersistFails(n)
    PROVE  IInv'
<1> USE DEF IInv
<1>1. UNCHANGED <<log, applied, doc, nrestart>> /\ nsnap' \in Nat
  BY DEF Snapshot, Persist, PersistFails, TypeOK
<1>2. NoSnap \in Snapshots /\ IsSnapshot(NoSnap, n)
  BY NoSnapOK DEF IsSnapshot, TypeOK
<1>3. Snap(applied[n], doc[n]) \in Snapshots /\ IsSnapshot(Snap(applied[n], doc[n]), n)
  BY DEF Snap, Snapshots, IsSnapshot, SameDocument, TypeOK
<1>4. PICK s \in Snapshots, t \in Snapshots :
        /\ IsSnapshot(s, n) /\ IsSnapshot(t, n)
        /\ taking' = [taking EXCEPT ![n] = s] /\ stored' = [stored EXCEPT ![n] = t]
  <2>1. /\ taking[n] \in Snapshots /\ IsSnapshot(taking[n], n) /\ stored[n] \in Snapshots
        /\ IsSnapshot(stored[n], n) /\ stored = [stored EXCEPT ![n] = stored[n]]
    BY DEF TypeOK, SnapshotsTrue
  <2>2. CASE Snapshot(n)
    BY <1>3, <2>1, <2>2 DEF Snapshot
  <2>3. CASE Persist(n)
    BY <1>2, <2>1, <2>3 DEF Persist
  <2>4. CASE PersistFails(n)
    BY <1>2, <2>1, <2>4 DEF PersistFails
  <2>. QED  BY <2>2, <2>3, <2>4
<1>5. first' \in [Nodes -> 1..(Len(log) + 1)]
  <2>1. CASE Persist(n)
    <3>1. taking[n].index \in Nat /\ taking[n].index <= applied[n] /\ applied[n] \in 0..Len(log)
      BY DEF TypeOK, SnapshotsTrue, IsSnapshot, Snapshots
    <3>2. \A i \in first[n]..(taking[n].index + 1) : i \in 1..(Len(log) + 1)
      BY <3>1 DEF TypeOK
    <3>. QED  BY <2>1, <3>2 DEF Persist, TypeOK
  <2>. QED  BY <2>1 DEF Snapshot, PersistFails, TypeOK
<1>6. TypeOK'
  BY <1>1, <1>4, <1>5 DEF TypeOK
<1>7. SameDocument'
  BY <1>1 DEF SameDocument
<1>8. SnapshotsTrue'
  <2>1. ASSUME NEW m \in Nodes
        PROVE  IsSnapshot(taking'[m], m) /\ IsSnapshot(stored'[m], m)
    BY <1>4 DEF TypeOK, SnapshotsTrue
  <2>. QED  BY <1>1, <2>1 DEF SnapshotsTrue, IsSnapshot
<1>. QED  BY <1>6, <1>7, <1>8

\* A document that is replaced is replaced by a snapshot's, with its index.
LEMMA RestoreStep ==
    ASSUME IInv, NEW n \in Nodes, (\E m \in Nodes : Install(m, n)) \/ Restart(n)
    PROVE  IInv'
<1> USE DEF IInv
<1>1. ASSUME NEW m \in Nodes
      PROVE  /\ stored[m] \in Snapshots /\ stored[m].index \in 0..Len(log)
             /\ IsDocument(stored[m].state, log, stored[m].index)
  <2>1. stored[m] \in Snapshots /\ applied[m] \in 0..Len(log) /\ IsSnapshot(stored[m], m)
    BY DEF TypeOK, SnapshotsTrue
  <2>. QED  BY <2>1 DEF IsSnapshot, Snapshots
<1>2. PICK s \in Snapshots :
        /\ s.index \in 0..Len(log) /\ IsDocument(s.state, log, s.index)
        /\ Restore(n, s) /\ stored' = [stored EXCEPT ![n] = s]
        /\ taking' = [taking EXCEPT ![n] = NoSnap] /\ UNCHANGED log
        /\ first' \in [Nodes -> 1..(Len(log) + 1)] /\ {nrestart', nsnap'} \subseteq Nat
  <2>1. CASE Restart(n)
    <3>1. stored' = [stored EXCEPT ![n] = stored[n]]
      BY <2>1 DEF Restart, TypeOK
    <3>. QED  BY <1>1, <2>1, <3>1 DEF Restart, TypeOK
  <2>2. ASSUME NEW m \in Nodes, Install(m, n)
        PROVE  first' \in [Nodes -> 1..(Len(log) + 1)] /\ {nrestart', nsnap'} \subseteq Nat
    <3>1. stored[m].index + 1 \in 1..(Len(log) + 1)
      BY <1>1 DEF TypeOK
    <3>. QED  BY <2>2, <3>1 DEF Install, TypeOK
  <2>. QED  BY <1>1, <2>1, <2>2 DEF Install
<1>3. NoSnap \in Snapshots /\ NoSnap.index = 0 /\ IsDocument(NoSnap.state, log, 0)
  BY NoSnapOK DEF TypeOK
<1>4. TypeOK'
  BY <1>2, <1>3 DEF Restore, TypeOK, Snapshots
<1>5. SameDocument'
  BY <1>2 DEF Restore, TypeOK, SameDocument
<1>6. SnapshotsTrue'
  <2> SUFFICES ASSUME NEW m \in Nodes
               PROVE  /\ taking'[m].index <= applied'[m] /\ IsDocument(taking'[m].state, log, taking'[m].index)
                      /\ stored'[m].index <= applied'[m] /\ IsDocument(stored'[m].state, log, stored'[m].index)
    BY <1>2 DEF SnapshotsTrue, IsSnapshot
  <2>1. CASE m = n
    <3>1. taking'[m] = NoSnap /\ stored'[m] = s /\ applied'[m] = s.index
      BY <1>2, <2>1 DEF Restore, TypeOK
    <3>. QED  BY <1>2, <1>3, <3>1
  <2>2. CASE m # n
    <3>1. taking'[m] = taking[m] /\ stored'[m] = stored[m] /\ applied'[m] = applied[m]
      BY <1>2, <2>2 DEF Restore, TypeOK
    <3>. QED  BY <3>1 DEF SnapshotsTrue, IsSnapshot
  <2>. QED  BY <2>1, <2>2
<1>. QED  BY <1>4, <1>5, <1>6

LEMMA Step == IInv /\ [Next]_vars => IInv'
<1> SUFFICES ASSUME IInv, [Next]_vars
             PROVE  IInv'
  OBVIOUS
<1>1. CASE UNCHANGED vars
  BY <1>1 DEF vars, IInv, TypeOK, SameDocument, SnapshotsTrue, IsSnapshot, IsDocument
<1>2. CASE Next
  BY <1>2, CommitStep, ApplyStep, SnapshotStep, RestoreStep DEF Next
<1>. QED  BY <1>1, <1>2

LEMMA Invariant == Spec => []IInv
BY Starts, Step, PTL DEF Spec

--------------------------------------------------------------------------------
\* Every reachable state of the state machines is well typed: no node has applied a log
\* that is not committed, nor dropped more of the log than there is (fsm.Apply, Restore).
THEOREM TypeCorrect == Spec => []TypeOK
<1>1. IInv => TypeOK
  BY DEF IInv
<1>. QED  BY <1>1, Invariant, PTL

\* Every node has the document of the log up to what it has applied, each command once
\* and in order, across snapshots written while logs are applied, snapshots of other
\* nodes, and restarts (fsm.Apply, Snapshot, Restore; snapshot.Persist).
THEOREM NodesHaveTheLog == Spec => []SameDocument
<1>1. IInv => SameDocument
  BY DEF IInv
<1>. QED  BY <1>1, Invariant, PTL

Increases(s) == \A p, q \in 1..Len(s) : p < q => s[p] < s[q]
Elements(s) == {s[p] : p \in 1..Len(s)}

\* Sequences that increase and have the same elements are the same.
LEMMA SameUpTo ==
    ASSUME NEW a \in Seq(Nat), NEW b \in Seq(Nat),
           Increases(a), Increases(b), Elements(a) = Elements(b)
    PROVE  \A p \in 1..Len(a) : p <= Len(b) /\ a[p] = b[p]
<1> DEFINE Differ == {p \in 1..Len(a) : ~ (p <= Len(b) /\ a[p] = b[p])}
<1> SUFFICES ASSUME Differ # {} PROVE FALSE
  OBVIOUS
<1>1. PICK p \in Differ : \A q \in Differ : p <= q
  <2>1. Differ \in SUBSET Nat
    OBVIOUS
  <2>. QED  BY <2>1, LeastElement
<1>2. p \in 1..Len(a) /\ a[p] \in Nat /\ ~ (p <= Len(b) /\ a[p] = b[p])
  OBVIOUS
<1>3. \A q \in 1..(p - 1) : q \in 1..Len(a) /\ q \in 1..Len(b) /\ a[q] = b[q]
  <2>1. ASSUME NEW q \in 1..(p - 1) PROVE q \in 1..Len(a) /\ q \notin Differ
    BY <1>1, <1>2, SMTT(30)
  <2>. QED  BY <2>1
<1> HIDE DEF Differ
<1>4. PICK q \in 1..Len(b) : b[q] = a[p]
  BY <1>2 DEF Elements
<1>5. p < q
  <2>1. ASSUME q < p PROVE FALSE
    <3>1. q \in 1..Len(a) /\ a[q] = a[p]
      BY <1>2, <1>3, <1>4, <2>1
    <3>. QED  BY <1>2, <2>1, <3>1 DEF Increases
  <2>2. q # p
    BY <1>2, <1>4
  <2>. QED  BY <1>2, <2>1, <2>2
<1>6. p \in 1..Len(b) /\ b[p] < b[q]
  BY <1>2, <1>5 DEF Increases
<1>7. PICK r \in 1..Len(a) : a[r] = b[p]
  BY <1>6 DEF Elements
<1>8. r < p
  <2>1. a[r] \in Nat /\ a[r] < a[p]
    BY <1>4, <1>6, <1>7
  <2>2. ~ (p < r) /\ p # r
    BY <1>2, <2>1, SMTT(30) DEF Increases
  <2>. QED  BY <1>2, <2>2
<1>9. r \in 1..Len(b) /\ b[r] = b[p] /\ b[p] \in Nat
  BY <1>2, <1>3, <1>6, <1>7, <1>8, SMTT(30)
<1>10. b[r] < b[p]
  BY <1>6, <1>8, <1>9 DEF Increases
<1>. QED  BY <1>9, <1>10

\* A log has one document.
LEMMA OneDocument ==
    ASSUME NEW i, NEW s \in Seq(Nat), NEW t \in Seq(Nat),
           IsDocument(s, log, i), IsDocument(t, log, i)
    PROVE  s = t
<1>1. Increases(s) /\ Increases(t) /\ Elements(s) = Elements(t)
  BY DEF IsDocument, Increases, Elements
<1>2. \A p \in 1..Len(s) : p <= Len(t) /\ s[p] = t[p]
  BY <1>1, SameUpTo
<1>3. \A p \in 1..Len(t) : p <= Len(s) /\ t[p] = s[p]
  BY <1>1, SameUpTo
<1>4. Len(s) = Len(t)
  BY <1>2, <1>3
<1>. QED  BY <1>2, <1>4

\* So two nodes that have applied as many logs have the same document.
THEOREM NodesAgree ==
    Spec => [](\A m, n \in Nodes : applied[m] = applied[n] => doc[m] = doc[n])
<1>1. IInv => \A m, n \in Nodes : applied[m] = applied[n] => doc[m] = doc[n]
  BY OneDocument DEF IInv, TypeOK, SameDocument
<1>. QED  BY <1>1, Invariant, PTL

--------------------------------------------------------------------------------
(* The end of a process.                                                         *)

(* Mux.  Nothing is handled that was not handled when Close looked: a connection   *)
(* gets to the handler in the critical section that also looks at m.closed.        *)
MuxInv == MuxTypeOK /\ ClosedMeansClosed

(* TcpServer.  Accept fails unasked, or after exit was set: Shutdown sets it before *)
(* it closes the listener, and Listen closes its socket when it returns because of *)
(* it.                                                                             *)
ExitFirst ==
    /\ sock = "closed" \/ listen \in {"wait", "returned"} => exit
    /\ listen = "failed" => exit \/ unasked

\* A handler that has applied a command since then is on its way out.
AfterExit ==
    /\ after \in [TcpConns -> Nat]
    /\ \A c \in TcpConns :
          \/ after[c] = 0
          \/ after[c] = 1 /\ exit /\ tcp[c] \in {"loop", "done"}

TcpInv == TcpTypeOK /\ ExitFirst /\ StopNeverPanics /\ AfterExit

(* main.  What each of its steps has behind it.                                    *)
MainInv ==
    /\ main \in {"starting", "serving", "tcp", "http", "raft", "mux", "store", "db",
                 "closed", "exited"}
    /\ {store, db} \subseteq BOOLEAN
    /\ main \in {"db", "closed", "exited"} => ~store
    /\ main \in {"closed", "exited"} => ~db
    /\ ~RaftEnabled => ~store
    /\ main \in {"store", "db", "closed", "exited"} /\ RaftEnabled => port = "closed"

ServerInv == MuxInv /\ TcpInv /\ MainInv

--------------------------------------------------------------------------------
\* Every step of the goroutines of a Mux, and of Close, keeps a closed Mux closed.
LEMMA MuxStepKeeps ==
    ASSUME MuxInv,
           MuxRuns \/ SetHandler \/ MuxClose \/ MuxCloses
    PROVE  MuxInv'
<1> USE DEF MuxInv, MuxTypeOK, ClosedMeansClosed
<1>1. CASE AcceptError \/ ServeEnds \/ SetHandler
  BY <1>1 DEF AcceptError, ServeEnds, SetHandler
<1>2. ASSUME NEW c \in MuxConns, Connect(c)
      PROVE  MuxInv'
  BY <1>2 DEF Connect, At
<1>3. ASSUME NEW c \in MuxConns, AcceptConn(c)
      PROVE  MuxInv'
  BY <1>3 DEF AcceptConn, At
<1>4. ASSUME NEW c \in MuxConns, FirstByte(c)
      PROVE  MuxInv'
  BY <1>4 DEF FirstByte, At, CloseConn
<1>5. ASSUME NEW c \in MuxConns, OfferRest(c)
      PROVE  MuxInv'
  BY <1>5 DEF OfferRest, At, CloseConn
<1>6. ASSUME NEW c \in MuxConns, ToHandler(c)
      PROVE  MuxInv'
  BY <1>6 DEF ToHandler, At, CloseConn
<1>7. ASSUME NEW c \in MuxConns, HandlerReturns(c) \/ CloseReturned(c)
      PROVE  MuxInv'
  BY <1>7 DEF HandlerReturns, CloseReturned, At, CloseConn
<1>8. CASE MuxClose
  BY <1>8 DEF MuxClose
<1>9. CASE CloseHandled
  BY <1>9 DEF CloseHandled
<1>10. CASE CloseListener
  BY <1>10 DEF CloseListener
<1>. QED
  BY <1>1, <1>2, <1>3, <1>4, <1>5, <1>6, <1>7, <1>8, <1>9, <1>10 DEF MuxRuns, MuxStep, MuxCloses

\* So does every step of Listen, of a handler and of Shutdown for the TCP API.
LEMMA TcpStepKeeps ==
    ASSUME TcpInv,
           TcpRuns \/ StoreExit \/ CloseTCP
    PROVE  TcpInv'
<1> USE DEF TcpInv, TcpTypeOK, ExitFirst, StopNeverPanics, AfterExit
<1>1. CASE Bind \/ SetListener \/ Loop \/ AcceptTCPFails \/ Failed
  BY <1>1 DEF Bind, SetListener, Loop, AcceptTCPFails, Failed, ListenAt
<1>2. CASE Wait
  BY <1>2 DEF Wait, ListenAt
<1>3. ASSUME NEW c \in TcpConns, AcceptTCP(c)
      PROVE  TcpInv'
  BY <1>3 DEF AcceptTCP, ListenAt, HandleAt
<1>4. ASSUME NEW c \in TcpConns, HandleLoop(c)
      PROVE  TcpInv'
  BY <1>4 DEF HandleLoop, HandleAt
<1>5. ASSUME NEW c \in TcpConns, ReadLine(c)
      PROVE  TcpInv'
  BY <1>5 DEF ReadLine, HandleAt
<1>6. ASSUME NEW c \in TcpConns, Command(c)
      PROVE  TcpInv'
  BY <1>6 DEF Command, HandleAt
<1>7. CASE StoreExit
  BY <1>7 DEF StoreExit
<1>8. CASE CloseTCP
  BY <1>8 DEF CloseTCP
<1>. QED
  BY <1>1, <1>2, <1>3, <1>4, <1>5, <1>6, <1>7, <1>8 DEF TcpRuns, Handle

\* The invariants of the parts read nothing but the parts' variables.
LEMMA MuxStutter == ASSUME MuxInv, UNCHANGED muxVars PROVE MuxInv'
BY DEF MuxInv, MuxTypeOK, ClosedMeansClosed, muxVars

LEMMA TcpStutter == ASSUME TcpInv, UNCHANGED tcpVars PROVE TcpInv'
BY DEF TcpInv, TcpTypeOK, ExitFirst, StopNeverPanics, AfterExit, tcpVars

LEMMA ServerStarts == ServerInit => ServerInv
<1> SUFFICES ASSUME ServerInit
             PROVE  ServerInv
  OBVIOUS
<1>1. MuxInv
  BY DEF ServerInit, MuxInit, MuxInv, MuxTypeOK, ClosedMeansClosed
<1>2. TcpInv
  BY DEF ServerInit, TcpInit, TcpInv, TcpTypeOK, ExitFirst, StopNeverPanics, AfterExit
<1>3. MainInv
  BY ServerConstantsOK, Zenon DEF ServerInit, MainInv
<1>. QED  BY <1>1, <1>2, <1>3 DEF ServerInv

LEMMA ServerStep == ServerInv /\ [ServerNext]_serverVars => ServerInv'
<1> SUFFICES ASSUME ServerInv, [ServerNext]_serverVars
             PROVE  ServerInv'
  OBVIOUS
<1> USE DEF ServerInv
<1>1. CASE Start
  <2>1. MuxInv'
    BY <1>1, MuxStepKeeps DEF Start
  <2>2. TcpInv'
    BY <1>1, TcpStutter DEF Start
  <2>3. MainInv'
    BY <1>1 DEF Start, MainAt, SetHandler, MainInv
  <2>. QED  BY <2>1, <2>2, <2>3
<1>2. CASE Goroutines
  <2>1. MuxInv'
    BY <1>2, MuxStepKeeps, MuxStutter DEF Goroutines
  <2>2. TcpInv'
    BY <1>2, TcpStepKeeps, TcpStutter DEF Goroutines
  <2>3. UNCHANGED <<port, main, store, db>>
    BY <1>2 DEF Goroutines, MuxRuns, AcceptError, ServeEnds, Connect, AcceptConn, MuxStep, FirstByte,
        OfferRest, ToHandler, HandlerReturns, CloseReturned, muxVars
  <2>4. MainInv'
    BY <2>3 DEF MainInv
  <2>. QED  BY <2>1, <2>2, <2>4
<1>3. CASE Signal \/ TcpShutdown
  <2>1. MuxInv'
    BY <1>3, MuxStutter DEF Signal, TcpShutdown
  <2>2. TcpInv'
    BY <1>3, TcpStepKeeps DEF Signal, TcpShutdown
  <2>3. MainInv'
    BY <1>3 DEF Signal, TcpShutdown, MainAt, muxVars, MainInv
  <2>. QED  BY <2>1, <2>2, <2>3
<1>4. CASE RaftShutdown
  <2>1. MuxInv'
    BY <1>4, MuxStepKeeps DEF RaftShutdown, MuxCloses
  <2>2. TcpInv'
    BY <1>4, TcpStutter DEF RaftShutdown
  <2>3. MainInv'
    BY <1>4 DEF RaftShutdown, MainAt, MuxClose, CloseHandled, CloseListener, MainInv
  <2>. QED  BY <2>1, <2>2, <2>3
<1>5. CASE HttpShutdown \/ StoreClose \/ DbClose \/ Exit
  <2>1. UNCHANGED <<muxVars, tcpVars>>
    BY <1>5 DEF HttpShutdown, StoreClose, DbClose, Exit
  <2>2. MuxInv' /\ TcpInv'
    BY <2>1, MuxStutter, TcpStutter
  <2>3. MainInv'
    <3> USE <2>1 DEF MainAt, MainInv, muxVars
    <3>1. CASE HttpShutdown
      BY <3>1 DEF HttpShutdown
    <3>2. CASE StoreClose
      BY <3>2 DEF StoreClose
    <3>3. CASE DbClose
      BY <3>3 DEF DbClose
    <3>4. CASE Exit
      BY <3>4 DEF Exit
    <3>. QED  BY <1>5, <3>1, <3>2, <3>3, <3>4
  <2>. QED  BY <2>2, <2>3
<1>6. CASE UNCHANGED serverVars
  BY <1>6, MuxStutter, TcpStutter DEF serverVars, MuxInv, MainInv, muxVars
<1>. QED
  BY <1>1, <1>2, <1>3, <1>4, <1>5, <1>6 DEF ServerNext, Stopping

THEOREM ServerInvariant == ServerSpec => []ServerInv
BY ServerStarts, ServerStep, PTL DEF ServerSpec

\* wire.go:156: when Close has closed the connections being handled no handler serves
\* an open one, and none will, wherever connections were between Accept, their first
\* byte and the handler (Mux.Close, route).
THEOREM ClosedStaysClosed == ServerSpec => []ClosedMeansClosed
<1>1. ServerInv => ClosedMeansClosed
  BY DEF ServerInv, MuxInv
<1>. QED  BY <1>1, ServerInvariant, PTL

\* main does not panic because of its own Shutdown: Listen returns an error only when
\* Accept failed before exit was set (tcpapi Listen, Shutdown).
THEOREM ShutdownNeverPanics == ServerSpec => []StopNeverPanics
<1>1. ServerInv => StopNeverPanics
  BY DEF ServerInv, TcpInv
<1>. QED  BY <1>1, ServerInvariant, PTL

\* A handler of the TCP API that Shutdown finds between two commands applies one more
\* at the most, whatever clients send (tcpapi handle).
THEOREM OneMoreCommand == ServerSpec => []AtMostOneMore
<1>1. ServerInv => AtMostOneMore
  BY DEF ServerInv, TcpInv, AfterExit, AtMostOneMore
<1>. QED  BY <1>1, ServerInvariant, PTL

\* A process that ends without a panic has closed the Raft port, the store and the
\* document's file, in the order main defers them (main.go).
THEOREM ExitClosesAll == ServerSpec => []ClosedAtExit
<1>1. ServerInv => ClosedAtExit
  BY DEF ServerInv, MainInv, ClosedAtExit
<1>. QED  BY <1>1, ServerInvariant, PTL
================================================================================

------------------------------ MODULE StateMachine ------------------------------
(* The state machine that a node gives to Raft (internal/cluster/cluster.go, fsm): *)
(* commands of the log are applied to the document in order, a snapshot takes the  *)
(* document out, and a restore replaces it.  Raft itself is a library: it commits  *)
(* one log, calls Apply, Snapshot and Restore of a node from one goroutine, writes *)
(* a snapshot out from another, drops the logs a stored snapshot covers, and sends *)
(* its snapshot to a node that needs a log which is gone.                           *)
(*                                                                                 *)
(* A document is the history of the commands that changed it; its values are       *)
(* Document's.  With Raft a node has no data.aof (db.DisableAOF), so a process     *)
(* starts with nothing but what Raft gives it.                                      *)
EXTENDS Naturals, Sequences

CONSTANTS
    Nodes,
    MaxLog, MaxRestarts, MaxSnapshots   \* bounds

ASSUME StateMachineConstantsOK == {MaxLog, MaxRestarts, MaxSnapshots} \subseteq Nat

VARIABLES
    log,        \* the commands that are committed
    applied,    \* the last log each node has applied
    doc,        \* its document
    taking,     \* the snapshot it is writing out: none has index 0
    stored,     \* its newest snapshot on disk
    first,      \* the first log it has not dropped
    nrestart, nsnap

vars == <<log, applied, doc, taking, stored, first, nrestart, nsnap>>

\* A command is named after its place in the log, so that applying one twice shows.
\* The tree refuses some, some ops are unknown, and a vacuum changes nothing here.
Kinds == {"write", "refused", "vacuum"}

Snap(i, state) == [index |-> i, state |-> state]
NoSnap == Snap(0, <<>>)

Init ==
    /\ log = <<>>
    /\ applied = [n \in Nodes |-> 0] /\ doc = [n \in Nodes |-> <<>>]
    /\ taking = [n \in Nodes |-> NoSnap] /\ stored = [n \in Nodes |-> NoSnap]
    /\ first = [n \in Nodes |-> 1]
    /\ nrestart = 0 /\ nsnap = 0

Commit(kind) ==
    /\ Len(log) < MaxLog /\ log' = Append(log, kind)
    /\ UNCHANGED <<applied, doc, taking, stored, first, nrestart, nsnap>>

\* applyLocal: the error of a refused command is returned to Raft, which goes on.
Result(state, i) == IF log[i] = "write" THEN Append(state, i) ELSE state

\* fsm.Apply.  The log must still be had from some node.
Apply(n) ==
    /\ applied[n] < Len(log) /\ \E m \in Nodes : first[m] <= applied[n] + 1
    /\ applied' = [applied EXCEPT ![n] = @ + 1]
    /\ doc' = [doc EXCEPT ![n] = Result(@, applied'[n])]
    /\ UNCHANGED <<log, taking, stored, first, nrestart, nsnap>>

\* fsm.Snapshot renders the document; what Persist writes later is that text.
Snapshot(n) ==
    /\ nsnap < MaxSnapshots /\ nsnap' = nsnap + 1
    /\ taking[n] = NoSnap /\ applied[n] > stored[n].index
    /\ taking' = [taking EXCEPT ![n] = Snap(applied[n], doc[n])]
    /\ UNCHANGED <<log, applied, doc, stored, first, nrestart>>

\* snapshot.Persist, while more logs are applied.  When the sink fails it is
\* cancelled.  Raft may drop the logs the snapshot covers.
PersistLate(n) ==  \* mutant: the document is rendered when it is written out
    /\ taking[n] # NoSnap
    /\ stored' = [stored EXCEPT ![n] = Snap(taking[n].index, doc[n])]
    /\ taking' = [taking EXCEPT ![n] = NoSnap]
    /\ \E i \in first[n]..(taking[n].index + 1) : first' = [first EXCEPT ![n] = i]
    /\ UNCHANGED <<log, applied, doc, nrestart, nsnap>>
Persist(n) ==
    /\ taking[n] # NoSnap
    /\ stored' = [stored EXCEPT ![n] = taking[n]]
    /\ taking' = [taking EXCEPT ![n] = NoSnap]
    /\ \E i \in first[n]..(taking[n].index + 1) : first' = [first EXCEPT ![n] = i]
    /\ UNCHANGED <<log, applied, doc, nrestart, nsnap>>

PersistFails(n) ==
    /\ taking[n] # NoSnap /\ taking' = [taking EXCEPT ![n] = NoSnap]
    /\ UNCHANGED <<log, applied, doc, stored, first, nrestart, nsnap>>

\* fsm.Restore: what the node had is replaced.
Restore(n, s) ==
    /\ doc' = [doc EXCEPT ![n] = s.state]
    /\ applied' = [applied EXCEPT ![n] = s.index]

\* A node takes the snapshot of another in the place of logs that are gone.
Install(m, n) ==
    /\ stored[m].index > applied[n] /\ first[m] > applied[n] + 1
    /\ Restore(n, stored[m])
    /\ stored' = [stored EXCEPT ![n] = stored[m]]
    /\ first' = [first EXCEPT ![n] = stored[m].index + 1]
    /\ taking' = [taking EXCEPT ![n] = NoSnap]
    /\ UNCHANGED <<log, nrestart, nsnap>>

\* A crash or a stop, and Start.
Restart(n) ==
    /\ nrestart < MaxRestarts /\ nrestart' = nrestart + 1
    /\ Restore(n, stored[n])
    /\ taking' = [taking EXCEPT ![n] = NoSnap]
    /\ UNCHANGED <<log, stored, first, nsnap>>

Next ==
    \/ \E kind \in Kinds : Commit(kind)
    \/ \E n \in Nodes : Apply(n) \/ Snapshot(n) \/ Persist(n) \/ PersistFails(n) \/ Restart(n)
    \/ \E m, n \in Nodes : Install(m, n)

Spec == Init /\ [][Next]_vars

--------------------------------------------------------------------------------
Snapshots == [index : Nat, state : Seq(Nat)]

TypeOK ==
    /\ log \in Seq(Kinds)
    /\ applied \in [Nodes -> 0..Len(log)] /\ doc \in [Nodes -> Seq(Nat)]
    /\ taking \in [Nodes -> Snapshots] /\ stored \in [Nodes -> Snapshots]
    /\ first \in [Nodes -> 1..(Len(log) + 1)]
    /\ {nrestart, nsnap} \subseteq Nat

\* The commands up to the i-th that change the document, each once and in order.
IsDocument(state, cmds, i) ==
    /\ \A p, q \in 1..Len(state) : p < q => state[p] < state[q]
    /\ {state[p] : p \in 1..Len(state)} = {j \in 1..i : cmds[j] = "write"}

\* Every node has the document of the log up to what it has applied, each command once
\* and in order, whether it got there by logs, by snapshots that were written while
\* logs were applied, by another's snapshot, or by a restart (fsm.Apply, Snapshot,
\* Restore; db.Replace).
SameDocument == \A n \in Nodes : IsDocument(doc[n], log, applied[n])
================================================================================

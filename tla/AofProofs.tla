------------------------------- MODULE AofProofs -------------------------------
(* What the append-only file promises, for any number of handlers, writes,      *)
(* failures and crashes: under always, that an answered operation is in every   *)
(* file a power loss may leave; under either policy, that nothing is forgotten  *)
(* while the process runs or when it stops, and that a crash takes only a       *)
(* suffix; under everysec, that a tick makes all before it durable.             *)
EXTENDS Aof, SequenceTheorems, TLAPS

(* The failures under which the promise holds.  A reopen that fails leaves      *)
(* persist without a file, and an fsync that fails in a vacuum must not be      *)
(* followed by a rename or a directory fsync that fails too: the runs           *)
(* AofReopenFails and AofLostFsync show what happens otherwise.                 *)
Tolerated ==
    /\ EntryFollowsFsync
    /\ "reopen" \notin Faults
    /\ "presync" \in Faults => "rename" \notin Faults /\ "dirsync" \notin Faults

\* Every file a power loss may leave spells the operations S.
Safe(S) == S \subseteq Range(stored) /\ \A h \in alt : S \subseteq Range(h)

FileClosed == {"rename", "dirsync", "reopen"}
Writing    == {"batch", "full", "flush", "dump", "close"}

\* Operations reach the file only after memory, and a snapshot covers the waiters.
SeenInMemory ==
    /\ \A w \in Writers : wpc[w] \in {"applied", "waiting"} => CurrentOp(w) \in Range(mem)
    /\ \A r \in Range(queue) : r.cmd = "write" => r.op \in Range(mem)
    /\ waiters \cup acked \subseteq Range(mem)
    /\ ppc \in {"presync", "rename"} => waiters \cup acked \subseteq Range(tmp)

\* The state of the file while the process runs.
FileState ==
    /\ ~torn
    /\ open <=> ppc \notin FileClosed
    /\ hole => ppc = "rename" /\ "presync" \in Faults
    /\ ppc \notin Writing => buf = <<>>

\* Where the operations are that a release would answer.
WaitersKept ==
    /\ waiters \subseteq Range(File) \cup Range(buf)
    /\ ~unsynced => Safe(waiters \ Range(buf))
    /\ ppc = "rename" /\ "presync" \notin Faults => Safe(waiters)
    /\ ppc = "dirsync" /\ renamed =>
           waiters \subseteq Range(stored) /\ ("presync" \notin Faults => Safe(waiters))
    /\ ppc = "reopen" /\ renamed => Safe(waiters)

\* What a process that has ended leaves in memory.
NothingRuns ==
    /\ wpc = [w \in Writers |-> "idle"] /\ queue = <<>> /\ buf = <<>> /\ waiters = {}
    /\ cpc = "serving"

IInv ==
    /\ TypeOK
    /\ Safe(acked)
    /\ Up => SeenInMemory /\ FileState /\ WaitersKept
    /\ ~Up => NothingRuns

--------------------------------------------------------------------------------
(* Facts about sequences, and about what a power loss may leave.                *)

\* Appending an element adds it to the range, and nothing else.
LEMMA RangeAppend ==
    ASSUME NEW S, NEW s \in Seq(S), NEW e \in S
    PROVE  Range(Append(s, e)) = Range(s) \cup {e}
<1>1. Append(s, e) = s \o <<e>> /\ <<e>> \in Seq(S)
  BY AppendIsConcat
<1>2. Range(<<e>>) = {e}
  BY DEF Range
<1>3. Range(s \o <<e>>) = Range(s) \cup Range(<<e>>)
  BY <1>1, RangeConcatenation, SMTT(30)
<1>. QED  BY <1>1, <1>2, <1>3

\* A sequence that is not empty holds its head and what its tail holds.
LEMMA RangeTail ==
    ASSUME NEW S, NEW s \in Seq(S), s # <<>>
    PROVE  Range(Tail(s)) \subseteq Range(s) /\ Head(s) \in Range(s)
<1>1. Len(s) \in Nat \ {0} /\ Tail(s) \in Seq(S) /\ Len(Tail(s)) = Len(s) - 1
  BY EmptySeq, HeadTailProperties
<1>2. \A i \in 1..Len(Tail(s)) : Tail(s)[i] = s[i + 1] /\ i + 1 \in 1..Len(s)
  BY <1>1, HeadTailProperties
<1>3. Head(s) = s[1] /\ 1 \in 1..Len(s)
  BY <1>1
<1>4. Range(s) = {s[i] : i \in 1..Len(s)}
  BY RangeEquality
<1>5. Range(Tail(s)) = {Tail(s)[i] : i \in 1..Len(Tail(s))}
  BY <1>1, RangeEquality
<1>. QED  BY <1>2, <1>3, <1>4, <1>5

\* A prefix of a sequence is one of the same elements.
LEMMA PrefixType ==
    ASSUME NEW S, NEW s \in Seq(S), NEW i \in 0..Len(s)
    PROVE  SubSeq(s, 1, i) \in Seq(S)
BY SubSeqProperties, ElementOfSeq

\* The empty sequence holds nothing.
LEMMA RangeEmpty == Range(<<>>) = {}
BY DEF Range

\* Range(s) grows with s.
LEMMA RangePrefix ==
    ASSUME NEW S, NEW s \in Seq(S), NEW t \in Seq(S)
    PROVE  s \o t \in Seq(S) /\ Range(s) \subseteq Range(s \o t)
BY ConcatProperties, RangeConcatenation

\* The range of three sequences in a row, as File \o buf \o queue are replayed.
LEMMA RangeConcat3 ==
    ASSUME NEW S, NEW r \in Seq(S), NEW s \in Seq(S), NEW t \in Seq(S)
    PROVE  Range(r \o (s \o t)) = Range(r) \cup Range(s) \cup Range(t)
<1> DEFINE u == s \o t
<1>1. u \in Seq(S) /\ Range(u) = Range(s) \cup Range(t)
  BY ConcatProperties, RangeConcatenation
<1> HIDE DEF u
<1>2. Range(r \o u) = Range(r) \cup Range(u)
  BY <1>1, RangeConcatenation
<1>. QED  BY <1>1, <1>2 DEF u

\* What a power loss may leave is a history.
LEMMA SurvivorsType == ASSUME TypeOK PROVE Survivors \subseteq Seq(Op)
<1>1. ASSUME NEW i \in 0..(IF hole THEN 0 ELSE Len(cached))
      PROVE  stored \o SubSeq(cached, 1, i) \in Seq(Op)
  <2>1. i \in 0..Len(cached) /\ stored \in Seq(Op) /\ cached \in Seq(Op)
    BY LenProperties DEF TypeOK
  <2>2. SubSeq(cached, 1, i) \in Seq(Op)
    BY <2>1, PrefixType
  <2>. QED  BY <2>1, <2>2, ConcatProperties
<1>2. alt \subseteq Seq(Op)
  BY DEF TypeOK
<1>. QED  BY <1>1, <1>2 DEF Survivors

\* The shortest file a power loss may leave holds what Safe asks of all of them.
LEMMA SafeSurvivors ==
    ASSUME TypeOK, NEW S
    PROVE  Safe(S) <=> \A h \in Survivors : S \subseteq Range(h)
<1>1. stored \in Survivors
  <2>1. SubSeq(cached, 1, 0) = <<>> /\ stored \o <<>> = stored
    BY SubSeqEmpty, ConcatEmptySeq DEF TypeOK
  <2>2. 0 \in 0..(IF hole THEN 0 ELSE Len(cached))
    BY LenProperties DEF TypeOK
  <2>. QED  BY <2>1, <2>2 DEF Survivors
<1>2. \A i \in 0..(IF hole THEN 0 ELSE Len(cached)) :
          Range(stored) \subseteq Range(stored \o SubSeq(cached, 1, i))
  <2> TAKE i \in 0..(IF hole THEN 0 ELSE Len(cached))
  <2>1. i \in 0..Len(cached) /\ stored \in Seq(Op) /\ cached \in Seq(Op)
    BY LenProperties DEF TypeOK
  <2>2. SubSeq(cached, 1, i) \in Seq(Op)
    BY <2>1, PrefixType
  <2>. QED  BY <2>1, <2>2, RangePrefix
<1>. QED  BY <1>1, <1>2 DEF Safe, Survivors

\* The whole file is one that a power loss may leave, unless pages were dropped.
LEMMA FileSurvives == ASSUME TypeOK, ~hole PROVE File \in Survivors
<1>1. SubSeq(cached, 1, Len(cached)) = cached /\ Len(cached) \in 0..Len(cached)
  BY SubSeqFull, LenProperties DEF TypeOK
<1>. QED  BY <1>1 DEF Survivors, File

--------------------------------------------------------------------------------
(* Type correctness.                                                            *)

\* fatalf and a crash leave a well-typed state with no process.
LEMMA ExitType ==
    ASSUME TypeOK, Exit
    PROVE  /\ mem' \in Seq(Op) /\ acked' \subseteq Op
           /\ wpc' \in [Writers -> {"idle", "checked", "applied", "waiting"}]
           /\ nw' \in [Writers -> 0..MaxWrites]
           /\ \A w \in Writers : wpc'[w] # "idle" => nw'[w] > 0
           /\ queue' \in Seq(Row) /\ Len(queue') <= QueueCap
           /\ ppc' = "dead"
           /\ buf' \in Seq(Op) /\ waiters' \subseteq Op
           /\ open' \in BOOLEAN /\ unsynced' \in BOOLEAN /\ refused' \in BOOLEAN
           /\ renamed' \in BOOLEAN
           /\ cpc' = "serving"
<1>1. mem' \in Seq(Op) /\ buf' \in Seq(Op) /\ queue' \in Seq(Row) /\ Len(queue') = 0
  BY EmptySeq DEF Exit
<1>2. 0 <= QueueCap
  BY ConstantsOK
<1>3. wpc' = [w \in Writers |-> "idle"] /\ nw' = nw /\ acked' = acked /\ waiters' = {}
  BY DEF Exit
<1>4. nw \in [Writers -> 0..MaxWrites] /\ acked \subseteq Op
  BY DEF TypeOK
<1>5. ppc' = "dead" /\ open' = FALSE /\ unsynced' = FALSE /\ refused' = FALSE
      /\ renamed' = FALSE /\ cpc' = "serving"
  BY DEF Exit
<1>6. waiters' \subseteq Op /\ open' \in BOOLEAN /\ unsynced' \in BOOLEAN
      /\ refused' \in BOOLEAN /\ renamed' \in BOOLEAN
  BY <1>3, <1>5
<1>7. Len(queue') <= QueueCap
  BY <1>1, <1>2
<1>8. /\ wpc' \in [Writers -> {"idle", "checked", "applied", "waiting"}]
      /\ nw' \in [Writers -> 0..MaxWrites]
      /\ acked' \subseteq Op
      /\ \A w \in Writers : wpc'[w] # "idle" => nw'[w] > 0
  BY <1>3, <1>4
<1>. QED  BY <1>1, <1>5, <1>6, <1>7, <1>8

\* An fsync leaves well-typed file contents.
LEMMA FsyncType ==
    ASSUME TypeOK, Fsync
    PROVE  stored' \in Seq(Op) /\ cached' \in Seq(Op) /\ alt' \subseteq Seq(Op)
<1>1. stored \in Seq(Op) /\ cached \in Seq(Op) /\ alt \subseteq Seq(Op)
  BY DEF TypeOK
<1>2. stored \o cached \in Seq(Op) /\ <<>> \in Seq(Op)
  BY <1>1, ConcatProperties, EmptySeq
<1>. QED  BY <1>1, <1>2 DEF Fsync

\* release only answers operations that waited.
LEMMA ReleaseType ==
    ASSUME TypeOK, NEW sites, ReleaseAt(sites)
    PROVE  /\ acked' \subseteq Op /\ waiters' \subseteq Op
           /\ wpc' \in [Writers -> {"idle", "checked", "applied", "waiting"}]
           /\ \A w \in Writers : wpc'[w] # "idle" => nw[w] > 0
BY DEF TypeOK, ReleaseAt, Release

\* A handler past checkWritable is at an operation, and its record is a queue row.
LEMMA CurrentOpType ==
    ASSUME TypeOK, NEW w \in Writers, wpc[w] # "idle"
    PROVE  CurrentOp(w) \in Op /\ Record(CurrentOp(w)) \in Row
BY ConstantsOK DEF TypeOK, CurrentOp, Op, Record, Row

\* A row put on a channel that is not full leaves the queue within its capacity.
LEMMA QueueAppend ==
    ASSUME TypeOK, NEW r \in Row, Len(queue) < QueueCap
    PROVE  Append(queue, r) \in Seq(Row) /\ Len(Append(queue, r)) <= QueueCap
BY ConstantsOK, AppendProperties, LenProperties DEF TypeOK

\* Taking a row off the queue leaves the queue well typed.
LEMMA QueueTail ==
    ASSUME TypeOK, queue # <<>>
    PROVE  Tail(queue) \in Seq(Row) /\ Len(Tail(queue)) <= QueueCap /\ Head(queue) \in Row
<1>1. queue \in Seq(Row) /\ Len(queue) <= QueueCap /\ QueueCap \in Nat
  BY ConstantsOK DEF TypeOK
<1>2. Tail(queue) \in Seq(Row) /\ Head(queue) \in Row /\ Len(Tail(queue)) = Len(queue) - 1
  BY <1>1, HeadTailProperties
<1>3. Len(queue) \in Nat
  BY <1>1, LenProperties
<1>. QED  BY <1>1, <1>2, <1>3

\* An injected failure stays within its bound.
LEMMA FaultType ==
    ASSUME TypeOK, NEW k, Fault(k) \/ NoFault
    PROVE  nfault' \in 0..MaxFaults
BY ConstantsOK DEF Fault, NoFault, TypeOK

\* Each call of flush goes on at a place persist has.
LEMMA AfterFlushType ==
    ASSUME NEW site \in FlushSites
    PROVE  /\ AfterFlush(site) \in {"sync", "batch", "ticksync", "snapshot", "closesync"}
           /\ AfterFailedFlush(site) \in {"batch", "snapshot", "stopped", "select"}
BY DEF FlushSites, AfterFlush, AfterFailedFlush

\* Every step keeps the state well typed.
LEMMA TypeInvariant == TypeOK /\ [Next]_vars => TypeOK'
<1> SUFFICES ASSUME TypeOK, [Next]_vars
             PROVE  TypeOK'
  OBVIOUS
<1> USE DEF vars, memVars, loopVars, diskVars, boundVars
<1>1. ASSUME NEW w \in Writers, CheckWritable(w)  PROVE TypeOK'
  <2>1. nw' \in [Writers -> 0..MaxWrites] /\ nw'[w] > 0
        /\ \A v \in Writers : v # w => nw'[v] = nw[v]
    BY <1>1, ConstantsOK DEF CheckWritable, TypeOK
  <2>2. wpc' \in [Writers -> {"idle", "checked", "applied", "waiting"}]
        /\ \A v \in Writers : v # w => wpc'[v] = wpc[v]
    BY <1>1 DEF CheckWritable, TypeOK
  <2>3. \A v \in Writers : wpc'[v] # "idle" => nw'[v] > 0
    BY <2>1, <2>2 DEF TypeOK
  <2>. QED  BY <1>1, <2>1, <2>2, <2>3 DEF CheckWritable, TypeOK
<1>2. ASSUME NEW w \in Writers, ApplyInMemory(w)  PROVE TypeOK'
  <2>1. mem' \in Seq(Op)
    BY <1>2, CurrentOpType, AppendProperties DEF ApplyInMemory, TypeOK
  <2>2. wpc' \in [Writers -> {"idle", "checked", "applied", "waiting"}]
        /\ \A v \in Writers : wpc'[v] # "idle" => nw[v] > 0
    BY <1>2 DEF ApplyInMemory, TypeOK
  <2>. QED  BY <1>2, <2>1, <2>2 DEF ApplyInMemory, TypeOK
<1>3. ASSUME NEW w \in Writers, AppendAOF(w)  PROVE TypeOK'
  <2>1. queue' \in Seq(Row) /\ Len(queue') <= QueueCap
    BY <1>3, CurrentOpType, QueueAppend DEF AppendAOF
  <2>2. wpc' \in [Writers -> {"idle", "checked", "applied", "waiting"}]
        /\ \A v \in Writers : wpc'[v] # "idle" => nw[v] > 0
    BY <1>3 DEF AppendAOF, TypeOK
  <2>3. acked' \subseteq Op
    BY <1>3, CurrentOpType DEF AppendAOF, TypeOK
  <2>. QED  BY <1>3, <2>1, <2>2, <2>3 DEF AppendAOF, TypeOK
<1>4. CASE Vacuum
  <2>1. queue' \in Seq(Row) /\ Len(queue') <= QueueCap
    BY <1>4, QueueAppend DEF Vacuum, Row
  <2>2. nvac' \in 0..MaxVacuums
    BY <1>4, ConstantsOK DEF Vacuum, TypeOK
  <2>. QED  BY <1>4, <2>1, <2>2 DEF Vacuum, TypeOK
<1>5. CASE Receive
  <2>1. TakeRow /\ queue # <<>> /\ queue \in Seq(Row)
    BY <1>5 DEF Receive, TakeRecord, TakeCommand, TakeRow, TypeOK
  <2>2. queue' \in Seq(Row) /\ Len(queue') <= QueueCap /\ Head(queue) \in Row
    BY <2>1, QueueTail DEF TakeRow
  <2>3. Head(queue).cmd = "write" => Head(queue).op \in Op
    BY <2>2 DEF Row, DumpRow, CloseRow
  <2>4. Head(queue).cmd # "write" => Head(queue).cmd \in {"dump", "close"}
    BY <2>2 DEF Row, DumpRow, CloseRow
  <2>5. buf' \in Seq(Op) /\ waiters' \subseteq Op
    <3>1. CASE TakeRecord
      <4>1. Head(queue).op \in Op /\ buf \in Seq(Op) /\ waiters \subseteq Op
        BY <2>3, <3>1 DEF TakeRecord, TypeOK
      <4>2. Append(buf, Head(queue).op) \in Seq(Op)
        BY <4>1, AppendProperties
      <4>. QED  BY <3>1, <4>1, <4>2 DEF TakeRecord
    <3>2. CASE TakeCommand
      BY <3>2 DEF TakeCommand, TypeOK
    <3>. QED  BY <1>5, <3>1, <3>2 DEF Receive
  <2>6. ppc' \in {"full", "batch", "dump", "close"}
    BY <1>5, <2>4 DEF Receive, TakeRecord, TakeCommand, AfterRow
  <2>. QED  BY <2>1, <2>2, <2>5, <2>6 DEF TakeRow, TypeOK, FlushSites
<1>6. CASE EndBatch
  BY <1>6 DEF EndBatch, TypeOK, FlushSites
<1>7. CASE Tick
  BY <1>7 DEF Tick, TypeOK, FlushSites
<1>8. CASE Flush
  <2>1. Readable(buf) \in Seq(Op) \/ NothingToFlush
    BY HeadTailProperties DEF Readable, NothingToFlush, TypeOK
  <2>2. cached' \in Seq(Op)
    <3>1. cached' = cached \/ (~NothingToFlush /\ cached' = cached \o Readable(buf))
      BY <1>8 DEF Flush
    <3>2. cached \in Seq(Op)
      BY DEF TypeOK
    <3>. QED  BY <2>1, <3>1, <3>2, ConcatProperties
  <2>3. buf' \in Seq(Op)
    BY <1>8, EmptySeq DEF Flush, TypeOK
  <2>4. torn' \in BOOLEAN /\ unsynced' \in BOOLEAN /\ refused' \in BOOLEAN
    BY <1>8 DEF Flush, TypeOK
  <2>5. ppc' \in {"sync", "batch", "ticksync", "snapshot", "closesync"}
    BY <1>8, AfterFlushType DEF Flush
  <2>. QED  BY <1>8, <2>2, <2>3, <2>4, <2>5 DEF Flush, TypeOK, SyncSites, InRow
<1>9. CASE FlushFails
  <2>1. nfault' \in 0..MaxFaults
    BY <1>9, FaultType DEF FlushFails
  <2>2. CASE ExitOnFailedWrite
    BY <1>9, <2>1, <2>2, ExitType DEF FlushFails, TypeOK
  <2>3. CASE ~ExitOnFailedWrite
    <3>1. ppc' \in {"batch", "snapshot", "stopped", "select"}
      BY <1>9, <2>3, AfterFlushType DEF FlushFails
    <3>2. /\ acked' \subseteq Op /\ waiters' \subseteq Op
          /\ wpc' \in [Writers -> {"idle", "checked", "applied", "waiting"}]
          /\ \A w \in Writers : wpc'[w] # "idle" => nw[w] > 0
      BY <1>9, <2>3, ReleaseType DEF FlushFails
    <3>. QED  BY <1>9, <2>1, <2>3, <3>1, <3>2 DEF FlushFails, Refuse, TypeOK, InRow
  <2>. QED  BY <2>2, <2>3
<1>10. CASE FlushTorn
  <2>1. nfault' \in 0..MaxFaults /\ ncrash' \in 0..MaxCrashes
    BY <1>10, ConstantsOK, SMTT(30) DEF FlushTorn, Fault, NoFault, TypeOK
  <2>2. cached' \in Seq(Op)
    <3>1. PICK i \in 0..Len(buf) : cached' = cached \o SubSeq(buf, 1, i)
      BY <1>10 DEF FlushTorn
    <3>2. SubSeq(buf, 1, i) \in Seq(Op) /\ cached \in Seq(Op)
      BY PrefixType DEF TypeOK
    <3>. QED  BY <3>1, <3>2, ConcatProperties
  <2>. QED  BY <1>10, <2>1, <2>2, ExitType DEF FlushTorn, TypeOK
<1>11. CASE SyncNow
  <2>1. stored' \in Seq(Op) /\ cached' \in Seq(Op) /\ alt' \subseteq Seq(Op)
        /\ unsynced' \in BOOLEAN
    BY <1>11, FsyncType DEF SyncNow, TypeOK
  <2>2. /\ acked' \subseteq Op /\ waiters' \subseteq Op
        /\ wpc' \in [Writers -> {"idle", "checked", "applied", "waiting"}]
        /\ \A w \in Writers : wpc'[w] # "idle" => nw[w] > 0
    BY <1>11, ReleaseType DEF SyncNow
  <2>3. ppc' \in {"stopped", "select"}
    BY <1>11 DEF SyncNow, AfterSync
  <2>. QED  BY <1>11, <2>1, <2>2, <2>3 DEF SyncNow, TypeOK
<1>12. CASE SyncFails
  <2>1. nfault' \in 0..MaxFaults
    BY <1>12, FaultType DEF SyncFails
  <2>. QED  BY <1>12, <2>1, ExitType DEF SyncFails, TypeOK
<1>13. CASE Dump
  <2>1. nfault' \in 0..MaxFaults
    <3>1. NoFault \/ (\E k \in FaultKinds : Fault(k))
      BY <1>13
      DEF Dump, WriteSnapshot, SyncAndClose, Rename, SyncDir, Reopen, FaultKinds
    <3>. QED  BY <3>1, FaultType
  <2>2. VacuumUnchanged
    BY <1>13 DEF Dump, WriteSnapshot, SyncAndClose, Rename, SyncDir, Reopen
  <2>3. ppc' \in InRow \cup {"batch", "full"}
    BY <1>13
    DEF Dump, WriteSnapshot, SyncAndClose, Rename, SyncDir, Reopen, AfterRow, InRow
  <2>4. CASE WriteSnapshot
    BY <2>1, <2>2, <2>3, <2>4 DEF VacuumUnchanged, WriteSnapshot, TypeOK, FlushSites
  <2>5. CASE SyncAndClose
    <3>1. stored' \in Seq(Op) /\ cached' \in Seq(Op) /\ alt' \subseteq Seq(Op)
          /\ hole' \in BOOLEAN
      BY <2>5, FsyncType DEF SyncAndClose, TypeOK
    <3>. QED
      BY <2>1, <2>2, <2>3, <2>5, <3>1 DEF VacuumUnchanged, SyncAndClose, TypeOK, FlushSites
  <2>6. CASE Rename
    <3>1. stored' \in Seq(Op) /\ cached' \in Seq(Op) /\ alt' \subseteq Seq(Op)
          /\ hole' \in BOOLEAN /\ renamed' \in BOOLEAN
      BY <2>6, SurvivorsType, EmptySeq DEF Rename, TypeOK
    <3>. QED
      BY <2>1, <2>2, <2>3, <2>6, <3>1 DEF VacuumUnchanged, Rename, TypeOK, FlushSites
  <2>7. CASE SyncDir
    <3>1. alt' \subseteq Seq(Op)
      BY <2>7 DEF SyncDir, TypeOK
    <3>. QED
      BY <2>1, <2>2, <2>3, <2>7, <3>1 DEF VacuumUnchanged, SyncDir, TypeOK, FlushSites
  <2>8. CASE Reopen
    <3>1. buf' \in Seq(Op) /\ unsynced' \in BOOLEAN /\ refused' \in BOOLEAN
          /\ open' \in BOOLEAN
      BY <2>8, EmptySeq DEF Reopen, AfterDump, Covered, TypeOK
    <3>. QED
      BY <2>1, <2>2, <2>3, <2>8, <3>1 DEF VacuumUnchanged, Reopen, TypeOK, FlushSites
  <2>. QED  BY <1>13, <2>4, <2>5, <2>6, <2>7, <2>8 DEF Dump
<1>14. CASE CloseVacuum \/ StopPersist
  <2>1. queue = <<>> /\ Len(queue) < QueueCap
    BY <1>14, ConstantsOK DEF CloseVacuum, StopPersist, WaitGroupZero
  <2>2. queue' \in Seq(Row) /\ Len(queue') <= QueueCap
    BY <1>14, <2>1, QueueAppend DEF CloseVacuum, StopPersist, Row
  <2>. QED  BY <1>14, <2>2 DEF CloseVacuum, StopPersist, TypeOK
<1>15. CASE CloseVacuumDone
  BY <1>15 DEF CloseVacuumDone, TypeOK
<1>16. CASE CloseFile
  <2>1. nfault' \in 0..MaxFaults
    BY <1>16, FaultType DEF CloseFile
  <2>2. stored' \in Seq(Op) /\ cached' \in Seq(Op) /\ alt' \subseteq Seq(Op)
        /\ hole' \in BOOLEAN
    BY <1>16, FsyncType DEF CloseFile, TypeOK
  <2>. QED  BY <1>16, <2>1, <2>2, ExitType DEF CloseFile, TypeOK
<1>17. CASE Kill
  <2>1. ncrash' \in 0..MaxCrashes
    BY <1>17, ConstantsOK DEF Kill, TypeOK
  <2>. QED  BY <1>17, <2>1, ExitType DEF Kill, TypeOK
<1>18. CASE PowerLoss
  <2>1. ncrash' \in 0..MaxCrashes
    BY <1>18, ConstantsOK DEF PowerLoss, TypeOK
  <2>2. stored' \in Seq(Op) /\ cached' \in Seq(Op) /\ alt' \subseteq Seq(Op)
    BY <1>18, SurvivorsType, EmptySeq DEF PowerLoss
  <2>. QED  BY <1>18, <2>1, <2>2, ExitType DEF PowerLoss, TypeOK
<1>19. CASE Restart
  <2>1. stored' \in Seq(Op) /\ cached' \in Seq(Op) /\ alt' \subseteq Seq(Op)
        /\ torn' = FALSE /\ hole' = FALSE
    BY <1>19, FsyncType, EmptySeq DEF Restart, ReplayedFile, TypeOK
  <2>2. mem' \in Seq(Op)
    BY <1>19, <2>1, ConcatProperties DEF Restart
  <2>. QED  BY <1>19, <2>1, <2>2 DEF Restart, TypeOK
<1>20. CASE UNCHANGED vars
  BY <1>20, SMTT(30) DEF TypeOK, Row, Op
<1>. QED
  BY <1>1, <1>2, <1>3, <1>4, <1>5, <1>6, <1>7, <1>8, <1>9, <1>10, <1>11, <1>12, <1>13,
     <1>14, <1>15, <1>16, <1>17, <1>18, <1>19, <1>20
  DEF Next, Handler, Batch, Closing

\* The server starts in a well-typed state.
LEMMA InitType == Init => TypeOK
<1>1. <<>> \in Seq(Op) /\ <<>> \in Seq(Row) /\ Len(<<>>) = 0
  BY EmptySeq
<1> SUFFICES ASSUME Init PROVE TypeOK
  OBVIOUS
<1>2. alt \subseteq Seq(Op) /\ mem \in Seq(Op) /\ buf \in Seq(Op)
      /\ stored \in Seq(Op) /\ cached \in Seq(Op) /\ tmp \in Seq(Op)
  BY <1>1 DEF Init
<1>3. queue \in Seq(Row) /\ Len(queue) <= QueueCap
  BY <1>1, ConstantsOK DEF Init
<1>4. /\ wpc \in [Writers -> {"idle", "checked", "applied", "waiting"}]
      /\ nw \in [Writers -> 0..MaxWrites]
      /\ \A w \in Writers : wpc[w] # "idle" => nw[w] > 0
  BY ConstantsOK DEF Init
<1>5. nfault \in 0..MaxFaults /\ ncrash \in 0..MaxCrashes /\ nvac \in 0..MaxVacuums
  BY ConstantsOK DEF Init
<1>. QED  BY <1>2, <1>3, <1>4, <1>5 DEF Init, TypeOK

\* Every variable keeps its type, the queue its capacity and the bounds their
\* limits, whatever the interleaving, the failures and the crashes.
THEOREM TypeCorrect == Spec => []TypeOK
<1>1. Init => TypeOK
  BY InitType
<1>2. TypeOK /\ [Next]_vars => TypeOK'
  BY TypeInvariant
<1>. QED  BY <1>1, <1>2, PTL DEF Spec

--------------------------------------------------------------------------------
(* IInv is inductive under always: one lemma for each kind of action.            *)

\* An fsync takes nothing from what is safe, and under EntryFollowsFsync makes the
\* whole file safe.
LEMMA FsyncKeeps ==
    ASSUME TypeOK, Fsync
    PROVE  /\ Range(stored) \subseteq Range(stored') /\ alt' \subseteq alt
           /\ ~hole /\ EntryFollowsFsync => stored' = File /\ cached' = <<>> /\ alt' = {}
<1>1. Range(stored) \subseteq Range(stored \o cached)
  BY RangePrefix DEF TypeOK
<1>. QED  BY <1>1 DEF Fsync, File

\* A step that ends the process keeps IInv when the file is left alone.
LEMMA ExitStep ==
    ASSUME IInv, TypeOK', Exit,
           Range(stored) \subseteq Range(stored'), alt' \subseteq alt
    PROVE  IInv'
<1>1. acked' = acked /\ Safe(acked)'
  BY DEF Exit, IInv, Safe
<1>2. ~Up' /\ NothingRuns'
  BY DEF Exit, Up, NothingRuns
<1>. QED  BY <1>1, <1>2 DEF IInv

\* checkWritable, setNode and appendAOF keep IInv.
LEMMA HandlerStep ==
    ASSUME IInv, TypeOK', Always, NEW w \in Writers, Handler(w)
    PROVE  IInv'
<1> USE DEF memVars, loopVars, diskVars, boundVars
<1>1. Up
  BY DEF Handler, CheckWritable, ApplyInMemory, AppendAOF, IInv, NothingRuns
<1>2. UNCHANGED <<acked, ppc, buf, waiters, unsynced, open, renamed, cpc>>
      /\ UNCHANGED <<stored, cached, torn, hole, tmp, alt>>
  BY DEF Handler, CheckWritable, ApplyInMemory, AppendAOF
<1>3. Safe(acked)' /\ Up' /\ FileState' /\ WaitersKept'
  BY <1>1, <1>2
  DEF IInv, Safe, Up, FileState, WaitersKept, FileClosed, Writing, File
<1>4. SeenInMemory'
  <2>0. SeenInMemory /\ TypeOK /\ wpc \in [Writers -> {"idle", "checked", "applied", "waiting"}]
        /\ nw \in [Writers -> 0..MaxWrites]
    BY <1>1 DEF IInv, TypeOK
  <2>1. CASE CheckWritable(w)
    <3>1. \A v \in Writers : v # w => wpc'[v] = wpc[v] /\ nw'[v] = nw[v]
      BY <2>0, <2>1 DEF CheckWritable
    <3>2. wpc'[w] = "checked" /\ UNCHANGED <<mem, queue>>
      BY <2>0, <2>1 DEF CheckWritable
    <3>. QED  BY <1>2, <2>0, <3>1, <3>2 DEF SeenInMemory, CurrentOp
  <2>2. CASE ApplyInMemory(w)
    <3>1. CurrentOp(w) \in Op /\ mem \in Seq(Op)
      BY <2>0, <2>2, CurrentOpType DEF ApplyInMemory, TypeOK
    <3>2. Range(mem') = Range(mem) \cup {CurrentOp(w)}
      BY <2>2, <3>1, RangeAppend DEF ApplyInMemory
    <3>3. \A v \in Writers : v # w => wpc'[v] = wpc[v]
      BY <2>0, <2>2 DEF ApplyInMemory
    <3>4. UNCHANGED <<nw, queue>>
      BY <2>2 DEF ApplyInMemory
    <3>. QED  BY <1>2, <2>0, <3>2, <3>3, <3>4 DEF SeenInMemory, CurrentOp
  <2>3. CASE AppendAOF(w)
    <3>1. CurrentOp(w) \in Range(mem) /\ Record(CurrentOp(w)) \in Row
      BY <2>0, <2>3, CurrentOpType DEF AppendAOF, SeenInMemory
    <3>2. Range(queue') = Range(queue) \cup {Record(CurrentOp(w))}
      BY <2>0, <2>3, <3>1, RangeAppend DEF AppendAOF, TypeOK
    <3>3. \A r \in Range(queue') : r.cmd = "write" => r.op \in Range(mem)
      BY <2>0, <3>1, <3>2 DEF SeenInMemory, Record
    <3>4. UNCHANGED <<mem, nw>> /\ \A v \in Writers : v # w => wpc'[v] = wpc[v]
      BY <2>0, <2>3 DEF AppendAOF
    <3>. QED  BY <1>2, <2>0, <3>1, <3>3, <3>4 DEF SeenInMemory, CurrentOp
  <2>. QED  BY <2>1, <2>2, <2>3 DEF Handler
<1>. QED  BY <1>3, <1>4 DEF IInv

\* POST /vacuum and the steps of a clean shutdown that only queue a command.
LEMMA CommandStep ==
    ASSUME IInv, TypeOK',
           Vacuum \/ CloseVacuum \/ CloseVacuumDone \/ StopPersist
    PROVE  IInv'
<1> USE DEF memVars, loopVars, diskVars, boundVars
<1>1. Up
  BY DEF Vacuum, CloseVacuum, CloseVacuumDone, StopPersist, IInv, NothingRuns, Up
<1>2. UNCHANGED <<memVars, ppc, buf, waiters, unsynced, open, renamed, diskVars>>
  BY DEF Vacuum, CloseVacuum, CloseVacuumDone, StopPersist
<1>3. Safe(acked)' /\ Up' /\ FileState' /\ WaitersKept'
  BY <1>1, <1>2
  DEF IInv, Safe, Up, FileState, WaitersKept, FileClosed, Writing, File
<1>4. queue' \in {queue, Append(queue, DumpRow), Append(queue, CloseRow)}
  BY DEF Vacuum, CloseVacuum, CloseVacuumDone, StopPersist
<1>5. Range(queue') \subseteq Range(queue) \cup {DumpRow, CloseRow}
  <2>1. queue \in Seq(Row) /\ DumpRow \in Row /\ CloseRow \in Row
    BY DEF IInv, TypeOK, Row
  <2>2. Range(Append(queue, DumpRow)) = Range(queue) \cup {DumpRow}
    BY <2>1, RangeAppend
  <2>3. Range(Append(queue, CloseRow)) = Range(queue) \cup {CloseRow}
    BY <2>1, RangeAppend
  <2>. QED  BY <1>4, <2>2, <2>3, Zenon
<1>6. SeenInMemory'
  BY <1>1, <1>2, <1>5 DEF IInv, SeenInMemory, DumpRow, CloseRow, CurrentOp
<1>. QED  BY <1>3, <1>6 DEF IInv

\* Taking a record or a command off the channel keeps IInv.
LEMMA ReceiveStep ==
    ASSUME IInv, TypeOK', Always, Receive
    PROVE  IInv'
<1> USE DEF memVars, loopVars, diskVars, boundVars
<1>1. Up /\ queue # <<>> /\ queue \in Seq(Row) /\ queue' = Tail(queue)
      /\ ppc \in {"select", "batch"}
  BY DEF Receive, TakeRecord, TakeCommand, TakeRow, Up, IInv, TypeOK
<1>2. UNCHANGED <<memVars, unsynced, open, renamed, diskVars>>
  BY DEF Receive, TakeRecord, TakeCommand, TakeRow
<1>3. SeenInMemory /\ FileState /\ WaitersKept /\ TypeOK /\ Safe(acked)
  BY <1>1 DEF IInv
<1>4. Range(queue') \subseteq Range(queue) /\ Head(queue) \in Range(queue)
  BY <1>1, RangeTail
<1>5. open
  BY <1>1, <1>3 DEF FileState, FileClosed
<1>6. Safe(acked)'
  BY <1>2, <1>3 DEF Safe
<1>7. CASE TakeRecord
  <2>1. DEFINE op == Head(queue).op
  <2>2. op \in Range(mem) /\ op \in Op
    BY <1>3, <1>4, <1>7, RangeAppend DEF TakeRecord, SeenInMemory, TypeOK, Range
  <2>3. Range(buf') = Range(buf) \cup {op} /\ waiters' = waiters \cup {op}
    <3>1. buf' = Append(buf, op) /\ waiters' = waiters \cup {op}
      BY <1>5, <1>7 DEF TakeRecord
    <3>2. buf \in Seq(Op)
      BY <1>3 DEF TypeOK
    <3> HIDE DEF op
    <3>. QED  BY <2>2, <3>1, <3>2, RangeAppend
  <2>4. ppc' \in {"batch", "full"} /\ Up'
    BY <1>7 DEF TakeRecord, AfterRow, Up
  <2>5. SeenInMemory'
    BY <1>2, <1>3, <1>4, <2>2, <2>3, <2>4 DEF SeenInMemory, CurrentOp
  <2>6. FileState'
    BY <1>1, <1>2, <1>3, <2>4 DEF FileState, FileClosed, Writing
  <2>7. waiters' \ Range(buf') \subseteq waiters \ Range(buf)
    BY <2>3
  <2>8. WaitersKept'
    BY <1>2, <1>3, <2>3, <2>4, <2>7 DEF WaitersKept, Safe, File
  <2>. QED  BY <1>6, <2>4, <2>5, <2>6, <2>8 DEF IInv
<1>8. CASE TakeCommand
  <2>1. ppc' \in {"dump", "close"} /\ Up' /\ UNCHANGED <<buf, waiters>>
    <3>1. Head(queue) \in Row
      BY <1>1, <1>3, QueueTail
    <3>. QED  BY <1>8, <3>1 DEF TakeCommand, Row, DumpRow, CloseRow, Up
  <2>2. SeenInMemory'
    BY <1>2, <1>3, <1>4, <2>1 DEF SeenInMemory, CurrentOp
  <2>3. FileState'
    BY <1>1, <1>2, <1>3, <2>1 DEF FileState, FileClosed, Writing
  <2>4. WaitersKept'
    BY <1>2, <1>3, <2>1 DEF WaitersKept, Safe, File
  <2>. QED  BY <1>6, <2>1, <2>2, <2>3, <2>4 DEF IInv
<1>. QED  BY <1>7, <1>8 DEF Receive

\* The steps of persist that neither write, fsync nor answer.
LEMMA LoopStep ==
    ASSUME IInv, TypeOK', EndBatch \/ Tick
    PROVE  IInv'
<1> USE DEF memVars, loopVars, diskVars, boundVars
<1>1. Up /\ ppc \in {"batch", "select"} /\ ppc' \in {"flush", "tick"}
      /\ (ppc = "select" <=> ppc' = "tick")
  BY DEF EndBatch, Tick, Up
<1>2. UNCHANGED <<memVars, queue, loopVars, open, renamed, diskVars>>
  BY DEF EndBatch, Tick
<1>3. SeenInMemory /\ FileState /\ WaitersKept /\ Safe(acked) /\ Up'
  BY <1>1 DEF IInv, Up
<1>4. SeenInMemory'
  BY <1>1, <1>2, <1>3 DEF SeenInMemory, CurrentOp
<1>5. FileState'
  BY <1>1, <1>2, <1>3 DEF FileState, FileClosed, Writing
<1>6. WaitersKept'
  BY <1>1, <1>2, <1>3 DEF WaitersKept, Safe, File
<1>7. Safe(acked)'
  BY <1>2, <1>3 DEF Safe
<1>. QED  BY <1>3, <1>4, <1>5, <1>6, <1>7 DEF IInv

\* persist.flush, when its write succeeds, keeps IInv.
LEMMA FlushStep ==
    ASSUME IInv, TypeOK', Flush
    PROVE  IInv'
<1> USE DEF memVars, boundVars
<1>1. Up /\ Up' /\ SeenInMemory /\ FileState /\ WaitersKept /\ TypeOK /\ Safe(acked)
  BY AfterFlushType DEF IInv, Up, Flush, FlushSites
<1>2. ppc \notin FileClosed /\ open /\ ~hole /\ ~torn
  BY <1>1 DEF Flush, FlushSites, FileClosed, FileState
<1>3. UNCHANGED <<memVars, queue, waiters, open, renamed, stored, hole, tmp, alt>>
  BY DEF Flush
<1>4. Range(File') = Range(File) \cup Range(buf) /\ buf' = <<>>
  <2>0. stored \in Seq(Op) /\ cached \in Seq(Op) /\ buf \in Seq(Op)
    BY <1>1 DEF TypeOK
  <2>1. CASE NothingToFlush
    <3>1. cached' = cached /\ buf' = buf /\ buf = <<>>
      BY <1>2, <2>1 DEF Flush, NothingToFlush
    <3>. QED  BY <1>3, <3>1, RangeEmpty DEF File
  <2>2. CASE ~NothingToFlush
    <3>1. cached' = cached \o buf /\ buf' = <<>>
      BY <1>2, <2>2 DEF Flush, Readable
    <3>2. Range(stored \o (cached \o buf)) = Range(stored) \cup Range(cached) \cup Range(buf)
      BY <2>0, RangeConcat3
    <3>3. Range(stored \o cached) = Range(stored) \cup Range(cached)
      BY <2>0, RangeConcatenation
    <3>. QED  BY <1>3, <3>1, <3>2, <3>3 DEF File
  <2>. QED  BY <2>1, <2>2
<1>5. ~torn' /\ (~unsynced' => ~unsynced /\ buf = <<>>)
  BY <1>2 DEF Flush, NothingToFlush
<1>6. ppc' \in {"sync", "batch", "ticksync", "snapshot", "closesync"}
  BY AfterFlushType DEF Flush
<1>7. SeenInMemory'
  BY <1>1, <1>3, <1>6 DEF SeenInMemory, CurrentOp
<1>8. FileState'
  BY <1>1, <1>2, <1>3, <1>4, <1>5, <1>6 DEF FileState, FileClosed
<1>9. WaitersKept'
  BY <1>1, <1>3, <1>4, <1>5, <1>6, RangeEmpty DEF WaitersKept, Safe
<1>. QED  BY <1>1, <1>3, <1>7, <1>8, <1>9 DEF IInv, Safe

\* Under always a write that fails, in full or in part, ends the process.
LEMMA FailedWriteStep ==
    ASSUME IInv, TypeOK', Always,
           FlushFails \/ FlushTorn \/ SyncFails
    PROVE  IInv'
<1>1. Exit /\ UNCHANGED <<stored, alt>>
  BY DEF FlushFails, FlushTorn, SyncFails, ExitOnFailedWrite, diskVars
<1>. QED  BY <1>1, ExitStep

\* What a release answers is safe by then: the file has just been fsynced, or was
\* not written to since the last fsync.
LEMMA SyncStep ==
    ASSUME IInv, TypeOK', Always, EntryFollowsFsync, SyncNow
    PROVE  IInv'
<1>1. Up /\ Up' /\ SeenInMemory /\ FileState /\ WaitersKept /\ TypeOK /\ Safe(acked)
  BY DEF IInv, Up, SyncNow, SyncSites, AfterSync
<1>2. open /\ ~hole /\ ~torn /\ buf = <<>> /\ ppc' \in {"stopped", "select"}
  BY <1>1 DEF SyncNow, SyncSites, AfterSync, FileClosed, Writing, FileState
<1>3. UNCHANGED <<mem, nw, queue, buf, open, renamed, torn, hole, tmp>>
  BY DEF SyncNow
<1>4. Range(stored) \subseteq Range(stored') /\ alt' \subseteq alt /\ Range(File') = Range(File)
  <2>1. CASE Fsync
    <3>1. stored' = File /\ cached' = <<>> /\ File \in Seq(Op)
      BY <1>1, <1>2, <2>1, FsyncKeeps, ConcatProperties DEF TypeOK, File
    <3>2. File' = File
      BY <3>1, ConcatEmptySeq DEF File
    <3>. QED  BY <1>1, <2>1, <3>2, FsyncKeeps
  <2>2. CASE UNCHANGED <<stored, cached, alt>>
    BY <2>2 DEF File
  <2>. QED  BY <2>1, <2>2 DEF SyncNow
<1>5. waiters \subseteq Range(File) /\ (~unsynced => Safe(waiters))
  BY <1>1, <1>2, RangeEmpty DEF WaitersKept
<1>6. ASSUME ppc \in {"sync", "closesync"}
      PROVE  waiters \subseteq Range(stored') /\ \A h \in alt' : waiters \subseteq Range(h)
  <2>1. SyncWanted(ppc)
    BY <1>6 DEF SyncWanted
  <2>2. CASE unsynced
    BY <1>1, <1>2, <1>5, <2>1, <2>2, FsyncKeeps DEF SyncNow
  <2>3. CASE ~unsynced
    BY <1>5, <2>3 DEF SyncNow, Safe
  <2>. QED  BY <2>2, <2>3
<1>7. CASE ppc \in {"sync", "closesync"}
  <2>1. acked' = acked \cup waiters /\ waiters' = {}
        /\ wpc' = [w \in Writers |-> IF CurrentOp(w) \in waiters THEN "idle" ELSE wpc[w]]
    BY <1>7 DEF SyncNow, ReleaseAt, Release
  <2>2. Safe(acked)'
    BY <1>1, <1>4, <1>6, <1>7, <2>1 DEF Safe
  <2>3. SeenInMemory'
    BY <1>1, <1>2, <1>3, <2>1 DEF SeenInMemory, CurrentOp
  <2>4. FileState'
    BY <1>1, <1>2, <1>3 DEF FileState, FileClosed
  <2>5. WaitersKept'
    BY <1>2, <1>3, <2>1 DEF WaitersKept, Safe
  <2>. QED  BY <1>1, <2>2, <2>3, <2>4, <2>5 DEF IInv
<1>8. CASE ppc = "ticksync"
  <2>1. UNCHANGED <<acked, waiters, wpc, stored, cached, alt, unsynced>>
    BY <1>8 DEF SyncNow, SyncWanted, Always, ReleaseAt
  <2>2. Safe(acked)'
    BY <1>1, <2>1 DEF Safe
  <2>3. SeenInMemory'
    BY <1>1, <1>2, <1>3, <2>1 DEF SeenInMemory, CurrentOp
  <2>4. FileState'
    BY <1>1, <1>2, <1>3 DEF FileState, FileClosed
  <2>5. WaitersKept'
    BY <1>1, <1>2, <1>3, <1>4, <2>1 DEF WaitersKept, Safe
  <2>. QED  BY <1>1, <2>2, <2>3, <2>4, <2>5 DEF IInv
<1>. QED  BY <1>7, <1>8 DEF SyncNow, SyncSites

\* Every step of a vacuum, and each of its failures that is tolerated, keeps IInv.
LEMMA DumpStep ==
    ASSUME IInv, TypeOK', Always, Tolerated, Dump
    PROVE  IInv'
<1> USE DEF memVars, boundVars
<1>1. Up /\ SeenInMemory /\ FileState /\ WaitersKept /\ TypeOK /\ Safe(acked)
  BY DEF IInv, Up, Dump, WriteSnapshot, SyncAndClose, Rename, SyncDir, Reopen
<1>2. UNCHANGED <<memVars, queue, waiters>> /\ buf = <<>> /\ ~torn
  BY <1>1
  DEF Dump, WriteSnapshot, SyncAndClose, Rename, SyncDir, Reopen, VacuumUnchanged,
      FileState, Writing
<1>3. Range(stored) \subseteq Range(File) /\ stored \in Seq(Op) /\ cached \in Seq(Op)
  BY <1>1, RangePrefix DEF TypeOK, File
<1>4. waiters \subseteq Range(File) /\ (~unsynced => Safe(waiters))
  BY <1>1, <1>2, RangeEmpty DEF WaitersKept
<1>5. CASE WriteSnapshot
  <2>1. UNCHANGED <<buf, unsynced, open, renamed, stored, cached, torn, hole, alt>>
    BY <1>5 DEF WriteSnapshot
  <2>2. ppc' \in {"presync", "batch", "full"} /\ (ppc' = "presync" => tmp' = mem) /\ Up'
    BY <1>5 DEF WriteSnapshot, AfterRow, Up
  <2>3. SeenInMemory'
    BY <1>1, <1>2, <2>2 DEF SeenInMemory, CurrentOp
  <2>4. FileState'
    BY <1>1, <1>2, <1>5, <2>1, <2>2 DEF FileState, FileClosed, WriteSnapshot
  <2>5. WaitersKept'
    BY <1>1, <1>2, <2>1, <2>2 DEF WaitersKept, Safe, File
  <2>. QED  BY <1>1, <1>2, <2>1, <2>2, <2>3, <2>4, <2>5 DEF IInv, Safe
<1>6. CASE SyncAndClose
  <2>1. UNCHANGED <<buf, unsynced, renamed, torn, tmp>> /\ ~open' /\ ppc = "presync"
        /\ ppc' = "rename" /\ Up' /\ open /\ ~hole
    BY <1>1, <1>6 DEF SyncAndClose, Up, FileState, FileClosed
  <2>2. \/ "presync" \in Faults /\ UNCHANGED <<stored, cached, alt>>
        \/ Fsync /\ ~hole'
    BY <1>6, <2>1 DEF SyncAndClose, Fault
  <2>3. Range(stored) \subseteq Range(stored') /\ alt' \subseteq alt /\ Range(File') = Range(File)
        /\ ("presync" \notin Faults => Range(stored') = Range(File) /\ alt' = {})
    <3>1. CASE Fsync
      <4>1. stored' = File /\ cached' = <<>> /\ alt' = {} /\ File \in Seq(Op)
        BY <1>1, <1>3, <2>1, <3>1, FsyncKeeps, ConcatProperties DEF Tolerated, File
      <4>2. File' = File
        BY <4>1, ConcatEmptySeq DEF File
      <4>. QED  BY <1>3, <4>1, <4>2
    <3>2. CASE "presync" \in Faults /\ UNCHANGED <<stored, cached, alt>>
      BY <3>2 DEF File
    <3>. QED  BY <2>2, <3>1, <3>2
  <2>4. SeenInMemory'
    BY <1>1, <1>2, <2>1 DEF SeenInMemory, CurrentOp
  <2>5. FileState'
    BY <1>1, <1>2, <2>1, <2>2 DEF FileState, FileClosed
  <2>6. WaitersKept' /\ Safe(acked)'
    BY <1>1, <1>2, <1>4, <2>1, <2>3 DEF WaitersKept, Safe
  <2>. QED  BY <2>1, <2>4, <2>5, <2>6 DEF IInv
<1>7. CASE Rename
  <2>1. UNCHANGED <<buf, unsynced, open, torn, tmp>> /\ ppc = "rename" /\ ppc' = "dirsync" /\ Up'
    BY <1>7 DEF Rename, Up
  <2>2. SeenInMemory'
    BY <1>1, <1>2, <2>1 DEF SeenInMemory, CurrentOp
  <2>3. CASE renamed'
    <3>1. stored' = tmp /\ cached' = <<>> /\ ~hole' /\ alt' = Survivors
      BY <1>7, <2>3 DEF Rename
    <3>2. waiters \cup acked \subseteq Range(tmp)
      BY <1>1, <2>1 DEF SeenInMemory
    <3>3. \A h \in alt' : acked \subseteq Range(h) /\ (Safe(waiters) => waiters \subseteq Range(h))
      BY <1>1, <3>1, SafeSurvivors
    <3>4. Range(File') = Range(tmp)
      BY <1>1, <3>1, ConcatEmptySeq DEF File, TypeOK
    <3>5. Safe(acked)'
      BY <1>2, <3>1, <3>2, <3>3 DEF Safe
    <3>6. FileState'
      BY <1>1, <1>2, <2>1, <3>1 DEF FileState, FileClosed
    <3>7. "presync" \notin Faults => Safe(waiters)
      BY <1>1, <2>1 DEF WaitersKept
    <3>8. WaitersKept'
      BY <1>2, <1>4, <2>1, <3>1, <3>2, <3>3, <3>4, <3>7 DEF WaitersKept, Safe
    <3>. QED  BY <2>1, <2>2, <3>5, <3>6, <3>8 DEF IInv
  <2>4. CASE ~renamed'
    <3>1. UNCHANGED <<stored, cached, hole, alt>> /\ "presync" \notin Faults
      BY <1>7, <2>4 DEF Rename, Fault, Tolerated
    <3>2. FileState'
      BY <1>1, <1>2, <2>1, <3>1 DEF FileState, FileClosed
    <3>3. WaitersKept' /\ Safe(acked)'
      BY <1>1, <1>2, <2>1, <2>4, <3>1 DEF WaitersKept, Safe, File
    <3>. QED  BY <2>1, <2>2, <3>2, <3>3 DEF IInv
  <2>. QED  BY <2>3, <2>4
<1>8. CASE SyncDir
  <2>1. UNCHANGED <<buf, unsynced, open, renamed, stored, cached, torn, hole, tmp>>
        /\ ppc = "dirsync" /\ ppc' = "reopen" /\ Up'
    BY <1>8 DEF SyncDir, Up
  <2>2. alt' = {} \/ (alt' = alt /\ "presync" \notin Faults)
    BY <1>8 DEF SyncDir, Fault, Tolerated
  <2>3. SeenInMemory' /\ FileState'
    BY <1>1, <1>2, <2>1 DEF SeenInMemory, CurrentOp, FileState, FileClosed
  <2>4. WaitersKept' /\ Safe(acked)'
    BY <1>1, <1>2, <2>1, <2>2 DEF WaitersKept, Safe, File
  <2>. QED  BY <2>1, <2>3, <2>4 DEF IInv
<1>9. CASE Reopen
  <2>1. ppc = "reopen" /\ ppc' \in {"batch", "full"} /\ Up' /\ open' /\ ~renamed'
        /\ UNCHANGED diskVars
    BY <1>9 DEF Reopen, AfterRow, Up, Fault, Tolerated
  <2>2. IF renamed THEN buf' = <<>> /\ ~unsynced' ELSE UNCHANGED <<buf, unsynced>>
    BY <1>9 DEF Reopen, AfterDump, Covered, Fault, Tolerated
  <2>3. buf' = <<>> /\ (~unsynced' => Safe(waiters))
    BY <1>1, <1>2, <1>4, <2>1, <2>2 DEF WaitersKept
  <2>4. SeenInMemory'
    BY <1>1, <1>2, <2>1 DEF SeenInMemory, CurrentOp, diskVars
  <2>5. FileState'
    BY <1>1, <2>1, <2>3 DEF FileState, FileClosed, diskVars
  <2>6. WaitersKept' /\ Safe(acked)'
    BY <1>1, <1>2, <1>4, <2>1, <2>3 DEF WaitersKept, Safe, File, diskVars
  <2>. QED  BY <2>1, <2>4, <2>5, <2>6 DEF IInv
<1>. QED  BY <1>5, <1>6, <1>7, <1>8, <1>9 DEF Dump

\* kill -9 and power loss keep IInv.
LEMMA CrashStep ==
    ASSUME IInv, TypeOK', Kill \/ PowerLoss \/ CloseFile
    PROVE  IInv'
<1>1. CASE Kill
  BY <1>1, ExitStep DEF Kill, diskVars
<1>2. CASE CloseFile
  <2>1. Exit /\ Range(stored) \subseteq Range(stored') /\ alt' \subseteq alt
    BY <1>2, FsyncKeeps DEF CloseFile, IInv
  <2>. QED  BY <2>1, ExitStep
<1>3. CASE PowerLoss
  <2>1. acked \subseteq Range(stored')
    BY <1>3, SafeSurvivors DEF PowerLoss, IInv
  <2>2. alt' \subseteq {stored'}
    BY <1>3 DEF PowerLoss
  <2>3. acked' = acked /\ ~Up' /\ NothingRuns'
    BY <1>3 DEF PowerLoss, Exit, Up, NothingRuns
  <2>. QED  BY <2>1, <2>2, <2>3 DEF IInv, Safe
<1>. QED  BY <1>1, <1>2, <1>3

\* Init after a crash keeps IInv: it replays one of the survivors.
LEMMA RestartStep ==
    ASSUME IInv, TypeOK', Restart
    PROVE  IInv'
<1>1. ~Up /\ NothingRuns /\ TypeOK /\ Safe(acked)
  BY DEF IInv, Restart
<1>2. UNCHANGED <<wpc, nw, acked, queue, buf, waiters, tmp>> /\ open' /\ ppc' = "select"
      /\ ~torn' /\ ~hole' /\ mem' = stored' \o cached'
  BY DEF Restart, loopVars, ReplayedFile
<1>3. Range(stored) \subseteq Range(stored') /\ alt' \subseteq alt
  BY <1>1, FsyncKeeps DEF Restart, ReplayedFile
<1>4. Safe(acked)'
  BY <1>1, <1>2, <1>3 DEF Safe
<1>5. acked \subseteq Range(mem')
  <2>1. Range(stored') \subseteq Range(stored' \o cached')
    BY RangePrefix DEF TypeOK
  <2>. QED  BY <1>1, <1>2, <1>3, <2>1 DEF Safe
<1>6. SeenInMemory'
  BY <1>1, <1>2, <1>5, RangeEmpty DEF SeenInMemory, NothingRuns
<1>7. FileState' /\ WaitersKept'
  BY <1>1, <1>2 DEF FileState, FileClosed, WaitersKept, Safe, NothingRuns
<1>. QED  BY <1>2, <1>4, <1>6, <1>7 DEF IInv, Up

\* IInv is inductive: one case for each action of Next.
LEMMA Inductive ==
    ASSUME Always, Tolerated
    PROVE  IInv /\ [Next]_vars => IInv'
<1> SUFFICES ASSUME IInv, [Next]_vars PROVE IInv'
  OBVIOUS
<1>1. TypeOK'
  BY TypeInvariant DEF IInv
<1>2. CASE \E w \in Writers : Handler(w)
  BY <1>1, <1>2, HandlerStep
<1>3. CASE Vacuum \/ CloseVacuum \/ CloseVacuumDone \/ StopPersist
  BY <1>1, <1>3, CommandStep
<1>4. CASE Receive
  BY <1>1, <1>4, ReceiveStep
<1>5. CASE EndBatch \/ Tick
  BY <1>1, <1>5, LoopStep
<1>6. CASE Flush
  BY <1>1, <1>6, FlushStep
<1>7. CASE FlushFails \/ FlushTorn \/ SyncFails
  BY <1>1, <1>7, FailedWriteStep
<1>8. CASE SyncNow
  BY <1>1, <1>8, SyncStep DEF Tolerated
<1>9. CASE Dump
  BY <1>1, <1>9, DumpStep
<1>10. CASE Kill \/ PowerLoss \/ CloseFile
  BY <1>1, <1>10, CrashStep
<1>11. CASE Restart
  BY <1>1, <1>11, RestartStep
<1>12. CASE UNCHANGED vars
  <2>1. UNCHANGED <<memVars, queue, ppc, loopVars, open, renamed, cpc, diskVars>>
    BY <1>12 DEF vars
  <2> USE DEF memVars, loopVars, diskVars
  <2>2. Safe(acked)' /\ (Up' <=> Up) /\ (NothingRuns => NothingRuns')
    BY <2>1 DEF IInv, Safe, Up, NothingRuns
  <2>3. SeenInMemory => SeenInMemory'
    BY <2>1 DEF SeenInMemory, CurrentOp
  <2>4. FileState /\ WaitersKept => FileState' /\ WaitersKept'
    BY <2>1 DEF FileState, FileClosed, Writing, WaitersKept, Safe, File
  <2>. QED  BY <1>1, <2>2, <2>3, <2>4 DEF IInv
<1>. QED
  BY <1>2, <1>3, <1>4, <1>5, <1>6, <1>7, <1>8, <1>9, <1>10, <1>11, <1>12
  DEF Next, Batch, Closing

\* The server starts with IInv.
LEMMA InitIInv == Init => IInv
<1> SUFFICES ASSUME Init PROVE IInv
  OBVIOUS
<1>1. TypeOK
  BY InitType
<1>2. Safe(acked) /\ Up /\ SeenInMemory
  BY RangeEmpty DEF Init, Safe, Up, SeenInMemory
<1>3. FileState /\ WaitersKept
  BY DEF Init, FileState, FileClosed, WaitersKept, Safe
<1>. QED  BY <1>1, <1>2, <1>3 DEF IInv

\* Under always no acknowledged operation is ever missing from a file that a power
\* loss may leave: in a batch, in a vacuum, after failures, crashes and restarts.
THEOREM AlwaysDurable == ASSUME Tolerated PROVE Spec => []AckedDurable
<1>1. CASE ~Always
  <2>1. AckedDurable
    BY <1>1 DEF AckedDurable
  <2>. QED  BY <2>1, PTL
<1>2. CASE Always
  <2>1. IInv => AckedDurable
    BY SafeSurvivors DEF IInv, AckedDurable
  <2>2. IInv /\ [Next]_vars => IInv'
    BY <1>2, Inductive
  <2>. QED  BY InitIInv, <2>1, <2>2, PTL DEF Spec
<1>. QED  BY <1>1, <1>2

\* Nor is it ever missing from the document a running server answers from.
THEOREM AlwaysVisible == ASSUME Always, Tolerated PROVE Spec => []AckedVisible
<1>1. IInv => AckedVisible
  BY DEF IInv, SeenInMemory, AckedVisible
<1>2. IInv /\ [Next]_vars => IInv'
  BY Inductive
<1>. QED  BY InitIInv, <1>1, <1>2, PTL DEF Spec

--------------------------------------------------------------------------------
(* What holds for every policy, too.                                            *)

\* A row that is queued adds its operation, if it has one.
RowOps(r) == IF r.cmd = "write" THEN {r.op} ELSE {}

LEMMA AppendOps ==
    ASSUME TypeOK, NEW r \in Row, queue' = Append(queue, r)
    PROVE  QueuedOps' = QueuedOps \cup RowOps(r)
<1>1. Range(queue') = Range(queue) \cup {r}
  BY RangeAppend DEF TypeOK
<1>. QED  BY <1>1 DEF QueuedOps, RowOps

LEMMA TailOps ==
    ASSUME TypeOK, queue # <<>>, queue' = Tail(queue)
    PROVE  QueuedOps = QueuedOps' \cup RowOps(Head(queue))
<1>1. Len(queue) \in Nat \ {0} /\ queue \in Seq(Row)
  BY EmptySeq DEF TypeOK
<1>2. Range(queue) = Range(queue') \cup {Head(queue)}
  <2>1. /\ Range(Tail(queue)) \subseteq Range(queue) /\ Head(queue) \in Range(queue)
    BY <1>1, RangeTail
  <2>2. ASSUME NEW r \in Range(queue), r # Head(queue) PROVE r \in Range(Tail(queue))
    <3>1. PICK i \in 1..Len(queue) : r = queue[i]
      BY <1>1, RangeEquality
    <3>2. i # 1 /\ i - 1 \in 1..(Len(queue) - 1)
      BY <1>1, <2>2, <3>1
    <3>3. Tail(queue) \in Seq(Row) /\ Len(Tail(queue)) = Len(queue) - 1
          /\ Tail(queue)[i - 1] = queue[i - 1 + 1] /\ i - 1 + 1 = i
      BY <1>1, <3>2, HeadTailProperties
    <3>4. Range(Tail(queue)) = {Tail(queue)[j] : j \in 1..Len(Tail(queue))}
      BY <3>3, RangeEquality
    <3>. QED  BY <3>1, <3>2, <3>3, <3>4
  <2>. QED  BY <2>1, <2>2
<1>. QED  BY <1>2 DEF QueuedOps, RowOps

\* A command carries no operation.
LEMMA CommandOps == RowOps(DumpRow) = {} /\ RowOps(CloseRow) = {}
BY DEF RowOps, DumpRow, CloseRow

LEMMA RecordOps == ASSUME NEW op PROVE RowOps(Record(op)) = {op}
BY DEF RowOps, Record

\* What taking a row does, by the row.
LEMMA ReceiveOps ==
    ASSUME TypeOK, Receive
    PROVE  /\ ppc \in {"select", "batch"} /\ UNCHANGED memVars /\ UNCHANGED diskVars
           /\ UNCHANGED <<unsynced, refused, open, renamed, cpc, boundVars>>
           /\ queue # <<>> /\ queue' = Tail(queue) /\ Head(queue) \in Row
           /\ QueuedOps = QueuedOps' \cup RowOps(Head(queue))
           /\ \/ /\ TakeRecord /\ ppc' \in {"batch", "full"} /\ Head(queue).op \in Op
                 /\ RowOps(Head(queue)) = {Head(queue).op}
                 /\ waiters' = IF Always THEN waiters \cup {Head(queue).op} ELSE waiters
                 /\ buf' = IF open THEN Append(buf, Head(queue).op) ELSE buf
              \/ /\ TakeCommand /\ ppc' \in {"dump", "close"} /\ RowOps(Head(queue)) = {}
                 /\ UNCHANGED <<buf, waiters>>
<1>1. TakeRow /\ queue # <<>> /\ queue' = Tail(queue) /\ Head(queue) \in Row
  BY QueueTail DEF Receive, TakeRecord, TakeCommand, TakeRow
<1>2. QueuedOps = QueuedOps' \cup RowOps(Head(queue))
  BY <1>1, TailOps
<1>3. Head(queue).cmd = "write" => Head(queue).op \in Op
  BY <1>1 DEF Row, DumpRow, CloseRow
<1>4. Head(queue).cmd # "write" => Head(queue).cmd \in {"dump", "close"}
  BY <1>1 DEF Row, DumpRow, CloseRow
<1>5. CASE TakeRecord
  BY <1>1, <1>2, <1>3, <1>5 DEF TakeRecord, TakeRow, AfterRow, RowOps
<1>6. CASE TakeCommand
  BY <1>1, <1>2, <1>4, <1>6 DEF TakeCommand, TakeRow, RowOps
<1>. QED  BY <1>5, <1>6 DEF Receive

\* The commands that are queued, and the step that waits for one.
LEMMA CommandQueued ==
    ASSUME TypeOK, Vacuum \/ CloseVacuum \/ CloseVacuumDone \/ StopPersist
    PROVE  /\ UNCHANGED <<memVars, ppc, loopVars, open, renamed, diskVars>>
           /\ QueuedOps' = QueuedOps
           /\ queue' = queue \/ \E r \in {DumpRow, CloseRow} : queue' = Append(queue, r)
<1>1. /\ UNCHANGED <<memVars, ppc, loopVars, open, renamed, diskVars>>
      /\ queue' = queue \/ \E r \in {DumpRow, CloseRow} : queue' = Append(queue, r)
  BY DEF Vacuum, CloseVacuum, CloseVacuumDone, StopPersist
<1>2. \A r \in {DumpRow, CloseRow} : r \in Row /\ RowOps(r) = {}
  BY CommandOps DEF Row
<1>3. queue' = queue => QueuedOps' = QueuedOps
  BY DEF QueuedOps
<1>4. \A r \in {DumpRow, CloseRow} : queue' = Append(queue, r) => QueuedOps' = QueuedOps
  BY <1>2, AppendOps
<1>. QED  BY <1>1, <1>3, <1>4

\* A handler moves alone.
LEMMA HandlerMoves ==
    ASSUME TypeOK, NEW w \in Writers, Handler(w)
    PROVE  /\ Up => Up'
           /\ UNCHANGED <<ppc, loopVars, open, renamed, cpc, diskVars, boundVars>>
           /\ \A v \in Writers : v # w => wpc'[v] = wpc[v] /\ nw'[v] = nw[v]
           /\ \/ /\ CheckWritable(w) /\ wpc[w] = "idle" /\ wpc'[w] = "checked"
                 /\ nw'[w] = nw[w] + 1 /\ UNCHANGED <<mem, acked, queue>> /\ Up
              \/ /\ ApplyInMemory(w) /\ wpc[w] = "checked" /\ wpc'[w] = "applied" /\ nw' = nw
                 /\ CurrentOp(w) \in Op /\ Range(mem') = Range(mem) \cup {CurrentOp(w)}
                 /\ UNCHANGED <<acked, queue>>
              \/ /\ AppendAOF(w) /\ wpc[w] = "applied" /\ nw' = nw /\ mem' = mem
                 /\ CurrentOp(w) \in Op /\ queue' = Append(queue, Record(CurrentOp(w)))
                 /\ QueuedOps' = QueuedOps \cup {CurrentOp(w)}
                 /\ wpc'[w] = IF Always THEN "waiting" ELSE "idle"
                 /\ acked' = IF Always THEN acked ELSE acked \cup {CurrentOp(w)}
<1> USE DEF memVars
<1>1. /\ UNCHANGED <<ppc, loopVars, open, renamed, cpc, diskVars, boundVars>> /\ (Up => Up')
      /\ wpc \in [Writers -> {"idle", "checked", "applied", "waiting"}]
      /\ nw \in [Writers -> 0..MaxWrites]
  BY DEF Handler, CheckWritable, ApplyInMemory, AppendAOF, Up, TypeOK
<1>2. CASE CheckWritable(w)
  BY <1>1, <1>2 DEF CheckWritable
<1>3. CASE ApplyInMemory(w)
  <2>1. CurrentOp(w) \in Op /\ mem \in Seq(Op)
    BY <1>3, CurrentOpType DEF ApplyInMemory, TypeOK
  <2>2. Range(mem') = Range(mem) \cup {CurrentOp(w)}
    BY <1>3, <2>1, RangeAppend DEF ApplyInMemory
  <2>. QED  BY <1>1, <1>3, <2>1, <2>2 DEF ApplyInMemory
<1>4. CASE AppendAOF(w)
  <2>1. CurrentOp(w) \in Op /\ Record(CurrentOp(w)) \in Row
    BY <1>4, CurrentOpType DEF AppendAOF
  <2>2. QueuedOps' = QueuedOps \cup {CurrentOp(w)}
    BY <1>4, <2>1, AppendOps, RecordOps DEF AppendAOF
  <2>. QED  BY <1>1, <1>4, <2>1, <2>2 DEF AppendAOF
<1>. QED  BY <1>2, <1>3, <1>4 DEF Handler

--------------------------------------------------------------------------------
(* No waiter is forgotten.                                                      *)

LEMMA WaitersRemembered ==
    ASSUME TypeOK, NoWaiterForgotten, [Next]_vars, Always
    PROVE  NoWaiterForgotten'
<1> DEFINE Kept(w) == wpc'[w] = "waiting" => CurrentOp(w)' \in QueuedOps' \cup waiters'
<1>0. \A w \in Writers : wpc[w] = "waiting" => CurrentOp(w) \in QueuedOps \cup waiters
  BY DEF NoWaiterForgotten
<1> SUFFICES ASSUME NEW w \in Writers PROVE Kept(w)
  BY DEF NoWaiterForgotten
<1>1. ASSUME NEW v \in Writers, Handler(v) PROVE Kept(w)
  <2>1. waiters' = waiters /\ QueuedOps \subseteq QueuedOps'
    <3>1. queue' = queue => QueuedOps' = QueuedOps
      BY DEF QueuedOps
    <3>. QED  BY <1>1, <3>1, HandlerMoves DEF loopVars
  <2>2. CASE w # v
    BY <1>0, <1>1, <2>1, <2>2, HandlerMoves DEF CurrentOp
  <2>3. CASE w = v
    <3>1. CASE wpc'[v] \in {"checked", "applied"}
      BY <2>3, <3>1
    <3>2. CASE AppendAOF(v)
      <4>1. CurrentOp(v)' = CurrentOp(v) /\ CurrentOp(v) \in QueuedOps'
        BY <1>1, <3>2, HandlerMoves DEF CurrentOp, AppendAOF, memVars
      <4>. QED  BY <2>3, <4>1
    <3>. QED  BY <1>1, <3>1, <3>2, HandlerMoves DEF Handler
  <2>. QED  BY <2>2, <2>3
<1>2. ASSUME nw' = nw, wpc'[w] \in {wpc[w], "idle"},
             QueuedOps \cup waiters \subseteq QueuedOps' \cup waiters'
      PROVE  Kept(w)
  BY <1>0, <1>2 DEF CurrentOp
<1>3. ASSUME Exit PROVE Kept(w)
  BY <1>3 DEF Exit
<1>4. CASE Receive
  BY <1>2, <1>4, ReceiveOps DEF memVars
<1>5. CASE Vacuum \/ CloseVacuum \/ CloseVacuumDone \/ StopPersist
  BY <1>2, <1>5, CommandQueued DEF memVars, loopVars
<1>6. ASSUME UNCHANGED <<nw, queue>>, UNCHANGED <<wpc, waiters>> \/ Release
      PROVE  Kept(w)
  <2>1. QueuedOps' = QueuedOps
    BY <1>6 DEF QueuedOps
  <2>2. CASE Release
    BY <1>0, <1>6, <2>1, <2>2 DEF Release, CurrentOp
  <2>. QED  BY <1>2, <1>6, <2>1, <2>2
<1>7. CASE EndBatch \/ Tick \/ Flush \/ Dump \/ Restart \/ UNCHANGED vars
  BY <1>6, <1>7
  DEF EndBatch, Tick, Flush, Dump, WriteSnapshot, SyncAndClose, Rename, SyncDir, Reopen,
      VacuumUnchanged, Restart, vars, memVars, loopVars
<1>8. CASE SyncNow
  BY <1>6, <1>8 DEF SyncNow, ReleaseAt
<1>9. CASE FlushFails \/ FlushTorn \/ SyncFails \/ CloseFile \/ Kill \/ PowerLoss
  BY <1>3, <1>9 DEF FlushFails, ExitOnFailedWrite, FlushTorn, SyncFails, CloseFile, Kill, PowerLoss
<1>. QED  BY <1>1, <1>4, <1>5, <1>7, <1>8, <1>9 DEF Next, Batch, Closing

\* Under always no handler waits for a record that nobody will release (appendAOF's
\* <-row.done), whatever fails, in a full batch, a vacuum or a shutdown.
THEOREM WaitersAreRemembered == Spec => []NoWaiterForgotten
<1>1. CASE ~Always
  <2>1. NoWaiterForgotten
    BY <1>1 DEF NoWaiterForgotten
  <2>. QED  BY <2>1, PTL
<1>2. CASE Always
  <2>1. Init => NoWaiterForgotten
    BY DEF Init, NoWaiterForgotten
  <2>2. TypeOK /\ NoWaiterForgotten /\ [Next]_vars => NoWaiterForgotten'
    BY <1>2, WaitersRemembered
  <2>. QED  BY <2>1, <2>2, TypeCorrect, PTL DEF Spec
<1>. QED  BY <1>1, <1>2

--------------------------------------------------------------------------------
(* Where the pending records and the file are.  A reopen that fails leaves persist *)
(* without a file: AofReopenFails shows what is lost then.                         *)
AppliedOps == {CurrentOp(w) : w \in {v \in Writers : wpc[v] = "applied"}}
FileKept == "reopen" \notin Faults

Present ==
    /\ ~torn
    /\ open <=> ppc \notin FileClosed
    /\ refused => buf # <<>>
    /\ ppc \in SyncSites => buf = <<>>
    /\ ppc = "stopped" => buf = <<>> \/ refused

\* What a process that has ended leaves.
Ended == NothingRuns /\ mem = <<>> /\ ~refused /\ ~unsynced /\ ~renamed
Process == IF Up THEN Present ELSE Ended

LEMMA ExitEnds == ASSUME Exit PROVE ~Up' /\ Process' /\ AppliedOps' = {} /\ QueuedOps' = {}
<1>1. ~Up' /\ wpc' = [w \in Writers |-> "idle"] /\ queue' = <<>>
  BY DEF Exit, Up
<1>2. Ended'
  BY DEF Exit, Ended, NothingRuns
<1>3. AppliedOps' = {} /\ QueuedOps' = {}
  BY <1>1, RangeEmpty DEF AppliedOps, QueuedOps
<1>. QED  BY <1>1, <1>2, <1>3 DEF Process

\* An ended process only starts again.
LEMMA OnlyRestarts ==
    ASSUME TypeOK, Process, ~Up, [Next]_vars
    PROVE  Restart \/ PowerLoss \/ UNCHANGED vars
BY HandlerMoves
DEF Next, Process, Ended, NothingRuns, Up, Receive, TakeRecord, TakeCommand, TakeRow, Batch,
    EndBatch, Tick, Flush, FlushFails, FlushTorn, SyncNow, SyncFails, FlushSites, SyncSites,
    Dump, WriteSnapshot, SyncAndClose, Rename, SyncDir, Reopen, Closing, CloseVacuum,
    CloseVacuumDone, StopPersist, CloseFile, Vacuum, Kill, Handler, CheckWritable,
    ApplyInMemory, AppendAOF

LEMMA AppendNotEmpty == ASSUME NEW S, NEW s \in Seq(S), NEW e \in S PROVE Append(s, e) # <<>>
<1>1. Len(Append(s, e)) = Len(s) + 1 /\ Len(s) \in Nat /\ Len(<<>>) = 0
  BY AppendProperties, LenProperties, EmptySeq
<1>. QED  BY <1>1

LEMMA ProcessNext ==
    ASSUME FileKept, TypeOK, Process, [Next]_vars
    PROVE  Process'
<1> USE DEF memVars, loopVars, diskVars
<1>0. CASE ~Up'
  <2>1. CASE Exit
    BY <2>1, ExitEnds
  <2>2. CASE ~Exit
    <3>1. UNCHANGED vars
      <4>1. CASE ~Up
        BY <1>0, <2>2, <4>1, OnlyRestarts DEF PowerLoss, Restart, Up
      <4>2. CASE Up
        <5>1. ppc # "dead" /\ ppc' = "dead" /\ "dead" \notin InRow \cup SyncSites \cup FlushSites
          BY <1>0, <4>2 DEF Up, InRow, SyncSites, FlushSites
        <5>2. ~ (\E w \in Writers : Handler(w)) /\ ~ (Vacuum \/ CloseVacuum \/ CloseVacuumDone \/ StopPersist)
          BY <5>1, HandlerMoves, CommandQueued
        <5>3. ~Receive /\ ~EndBatch /\ ~Tick /\ ~Dump
          BY <5>1, ReceiveOps
          DEF EndBatch, Tick, Dump, WriteSnapshot, SyncAndClose, Rename, SyncDir, Reopen, AfterRow
        <5>4. ~Flush /\ ~FlushFails /\ ~SyncNow
          BY <2>2, <5>1, AfterFlushType DEF Flush, FlushFails, SyncNow, AfterSync
        <5>5. ~ (FlushTorn \/ SyncFails \/ CloseFile \/ Kill \/ PowerLoss \/ Restart)
          BY <2>2, <4>2 DEF FlushTorn, SyncFails, CloseFile, Kill, PowerLoss, Restart
        <5>. QED  BY <5>2, <5>3, <5>4, <5>5 DEF Next, Batch, Closing
      <4>. QED  BY <4>1, <4>2
    <3>2. UNCHANGED <<wpc, queue, buf, waiters, cpc, mem, refused, unsynced, renamed>> /\ ~Up
      BY <1>0, <3>1 DEF vars, Up
    <3>3. Ended'
      BY <3>2 DEF Process, Ended, NothingRuns
    <3>. QED  BY <1>0, <3>3 DEF Process
  <2>. QED  BY <2>1, <2>2
<1> SUFFICES ASSUME Up' PROVE Present'
  BY <1>0 DEF Process
<1>1. CASE ~Up
  <2>1. Restart \/ UNCHANGED vars
    BY <1>1, OnlyRestarts DEF PowerLoss, Exit, Up
  <2>2. CASE Restart
    BY <1>1, <2>2 DEF Restart, ReplayedFile, Process, Ended, Present, FileClosed, SyncSites
  <2>. QED  BY <1>1, <2>1, <2>2 DEF vars, Up
<1>2. CASE Up
  <2>0. Present /\ buf \in Seq(Op)
    BY <1>2 DEF TypeOK, Process
  <2>1. ASSUME NEW w \in Writers, Handler(w) PROVE Present'
    BY <2>0, <2>1, HandlerMoves DEF Present, FileClosed, SyncSites
  <2>2. CASE Receive
    <3>1. open /\ ~ (ppc \in {"select", "batch"} => ppc \in FileClosed)
      BY <2>0, <2>2, ReceiveOps DEF Present, FileClosed
    <3>2. buf' # <<>> \/ buf' = buf
      BY <2>0, <2>2, <3>1, ReceiveOps, AppendNotEmpty
    <3>3. ppc' \in {"batch", "full", "dump", "close"}
      BY <2>2, ReceiveOps
    <3>. QED  BY <2>0, <2>2, <3>1, <3>2, <3>3, ReceiveOps DEF Present, FileClosed, SyncSites
  <2>3. CASE Vacuum \/ CloseVacuum \/ CloseVacuumDone \/ StopPersist
    BY <2>0, <2>3, CommandQueued DEF Present, FileClosed, SyncSites
  <2>4. CASE EndBatch \/ Tick
    BY <2>0, <2>4 DEF EndBatch, Tick, Present, FileClosed, SyncSites
  <2>5. CASE Flush
    <3>1. open
      BY <2>0, <2>5 DEF Flush, FlushSites, Present, FileClosed
    <3>2. ~torn' /\ buf' = <<>> /\ ~refused' /\ open'
      BY <2>0, <2>5, <3>1 DEF Flush, NothingToFlush, Present, TypeOK
    <3>3. ppc' \in {"sync", "batch", "ticksync", "snapshot", "closesync"}
      BY <2>5, AfterFlushType DEF Flush
    <3>. QED  BY <3>2, <3>3 DEF Present, FileClosed
  <2>6. CASE FlushFails
    <3>1. ~ExitOnFailedWrite
      BY <2>6 DEF FlushFails, Exit, Up
    <3>2. /\ Refuse /\ UNCHANGED <<unsynced, open, diskVars>> /\ ppc \in FlushSites
          /\ buf # <<>> /\ ppc' \in {"batch", "snapshot", "stopped", "select"}
      BY <2>6, <3>1, AfterFlushType DEF FlushFails, NothingToFlush
    <3>. QED  BY <2>0, <3>2 DEF Refuse, Present, FlushSites, SyncSites, FileClosed
  <2>7. CASE SyncNow
    <3>1. UNCHANGED <<buf, refused, open, torn>> /\ ppc \in SyncSites /\ ppc' \in {"stopped", "select"}
      BY <2>7 DEF SyncNow, AfterSync
    <3>. QED  BY <2>0, <3>1 DEF Present, FileClosed, SyncSites
  <2>8. CASE Dump
    <3>1. CASE WriteSnapshot
      BY <2>0, <3>1 DEF WriteSnapshot, AfterRow, Present, FileClosed, SyncSites
    <3>2. CASE SyncAndClose
      BY <2>0, <3>2 DEF SyncAndClose, Present, FileClosed, SyncSites
    <3>3. CASE Rename
      BY <2>0, <3>3 DEF Rename, Present, FileClosed, SyncSites
    <3>4. CASE SyncDir
      BY <2>0, <3>4 DEF SyncDir, Present, FileClosed, SyncSites
    <3>5. CASE Reopen
      BY <2>0, <3>5 DEF Reopen, Fault, FileKept, AfterDump, Covered, AfterRow, Present, FileClosed, SyncSites
    <3>. QED  BY <2>8, <3>1, <3>2, <3>3, <3>4, <3>5 DEF Dump
  <2>9. ~ (FlushTorn \/ SyncFails \/ CloseFile \/ Kill \/ PowerLoss \/ Restart)
    BY <1>2 DEF FlushTorn, SyncFails, CloseFile, Kill, PowerLoss, Restart, Exit, Up
  <2>10. CASE UNCHANGED vars
    BY <2>0, <2>10 DEF vars, Present
  <2>. QED  BY <2>1, <2>2, <2>3, <2>4, <2>5, <2>6, <2>7, <2>8, <2>9, <2>10
            DEF Next, Batch, Closing
<1>. QED  BY <1>1, <1>2

LEMMA ProcessAlways == ASSUME FileKept PROVE Spec => [](TypeOK /\ Process)
<1>1. Init => Process
  BY DEF Init, Process, Up, Present, FileClosed, SyncSites
<1>2. TypeOK /\ Process /\ [Next]_vars => Process'
  BY ProcessNext
<1>. QED  BY <1>1, <1>2, TypeCorrect, PTL DEF Spec

\* Refusing writes is never a dead end: there are records to retry, and a file unless
\* a vacuum has it closed (flush, doEraseAndDump), if no reopen fails.
THEOREM RefusalCanEnd == ASSUME FileKept PROVE Spec => []RefusedCanRecover
<1>1. TypeOK /\ Process => RefusedCanRecover
  BY DEF Process, Ended, Present, RefusedCanRecover, FileClosed, InRow, Up
<1>. QED  BY <1>1, ProcessAlways, PTL

--------------------------------------------------------------------------------
(* The operations a state knows of, by number: a handler's next one is new.       *)

FileOps == Range(stored) \cup Range(cached) \cup UNION {Range(h) : h \in alt}
Taken   == waiters \cup QueuedOps \cup acked
AllOps  == Range(mem) \cup FileOps \cup Range(buf) \cup Range(tmp) \cup Taken

Numbered == \A op \in AllOps : op[2] <= nw[op[1]]
Fresh == \A w \in Writers : wpc[w] \in {"checked", "applied"} => CurrentOp(w) \notin Taken

LEMMA SeqParts ==
    ASSUME NEW S, NEW s \in Seq(S), NEW t \in Seq(S), NEW i \in 0..Len(t)
    PROVE  /\ Range(SubSeq(t, 1, i)) \subseteq Range(t) /\ SubSeq(t, 1, i) \in Seq(S)
           /\ Range(s \o t) = Range(s) \cup Range(t) /\ s \o t \in Seq(S)
           /\ Range(s \o SubSeq(t, 1, i)) = Range(s) \cup Range(SubSeq(t, 1, i))
<1>1. SubSeq(t, 1, i) \in Seq(S) /\ Len(t) \in Nat
  BY PrefixType, LenProperties
<1>2. /\ Range(s \o t) = Range(s) \cup Range(t) /\ s \o t \in Seq(S)
      /\ Range(s \o SubSeq(t, 1, i)) = Range(s) \cup Range(SubSeq(t, 1, i))
  <2>1. Range(s \o t) = Range(s) \cup Range(t)
    BY RangeConcatenation
  <2>2. s \o t \in Seq(S)
    BY ConcatProperties
  <2>3. Range(s \o SubSeq(t, 1, i)) = Range(s) \cup Range(SubSeq(t, 1, i))
    <3> DEFINE u == SubSeq(t, 1, i)
    <3>1. u \in Seq(S)
      BY <1>1
    <3> HIDE DEF u
    <3>2. Range(s \o u) = Range(s) \cup Range(u)
      BY <3>1, RangeConcatenation
    <3>. QED  BY <3>2 DEF u
  <2>. QED  BY <2>1, <2>2, <2>3
<1>3. Range(SubSeq(t, 1, i)) \subseteq Range(t)
  <2>1. Len(SubSeq(t, 1, i)) = i /\ \A j \in 1..i : SubSeq(t, 1, i)[j] = t[j]
    <3>1. \A j \in 1..i : t[j] \in S
      BY <1>1, ElementOfSeq
    <3>. QED  BY <1>1, <3>1, SubSeqProperties
  <2>2. Range(SubSeq(t, 1, i)) = {SubSeq(t, 1, i)[j] : j \in 1..i}
    BY <1>1, <2>1, RangeEquality
  <2>3. Range(t) = {t[j] : j \in 1..Len(t)}
    BY RangeEquality
  <2>. QED  BY <1>1, <2>1, <2>2, <2>3
<1>. QED  BY <1>1, <1>2, <1>3

\* What a power loss or an fsync leaves was in the file or in an older one.
LEMMA SurvivorOps == ASSUME TypeOK, NEW h \in Survivors PROVE Range(h) \subseteq FileOps
<1>1. CASE h \in alt
  BY <1>1 DEF FileOps
<1>2. CASE h \notin alt
  <2>1. PICK i \in 0..(IF hole THEN 0 ELSE Len(cached)) : h = stored \o SubSeq(cached, 1, i)
    BY <1>2 DEF Survivors
  <2>2. i \in 0..Len(cached) /\ stored \in Seq(Op) /\ cached \in Seq(Op)
    BY LenProperties DEF TypeOK
  <2>. QED  BY <2>1, <2>2, SeqParts DEF FileOps
<1>. QED  BY <1>1, <1>2

LEMMA FsyncOps == ASSUME TypeOK, Fsync PROVE FileOps' \subseteq FileOps
<1>1. 0 \in 0..Len(cached)
  BY LenProperties DEF TypeOK
<1>2. Range(stored \o cached) = Range(stored) \cup Range(cached)
  BY <1>1, SeqParts DEF TypeOK
<1>. QED  BY <1>2, RangeEmpty DEF Fsync, FileOps

\* No step but a handler's brings a new operation.
LEMMA FileOpsNext ==
    ASSUME TypeOK, [Next]_vars
    PROVE  FileOps' \subseteq FileOps \cup Range(buf) \cup Range(tmp)
<1> USE DEF diskVars
<1>1. ASSUME UNCHANGED <<stored, cached, alt>> PROVE FileOps' = FileOps
  BY <1>1 DEF FileOps
<1>2. CASE Flush
  <2>1. Range(cached') \subseteq Range(cached) \cup Range(buf)
    <3>1. CASE NothingToFlush
      BY <1>2, <3>1 DEF Flush
    <3>2. CASE ~NothingToFlush
      <4>1. Readable(buf) \in Seq(Op) /\ Range(Readable(buf)) \subseteq Range(buf)
        BY <3>2, HeadTailProperties, RangeTail DEF Readable, NothingToFlush, TypeOK
      <4>2. Range(cached \o Readable(buf)) = Range(cached) \cup Range(Readable(buf))
        BY <4>1, RangeConcatenation DEF TypeOK
      <4>. QED  BY <1>2, <3>2, <4>1, <4>2 DEF Flush
    <3>. QED  BY <3>1, <3>2
  <2>. QED  BY <1>2, <2>1 DEF Flush, FileOps
<1>3. CASE FlushTorn
  <2>1. PICK i \in 0..Len(buf) : cached' = cached \o SubSeq(buf, 1, i)
    BY <1>3 DEF FlushTorn
  <2>2. Range(cached') \subseteq Range(cached) \cup Range(buf)
    BY <2>1, SeqParts DEF TypeOK
  <2>. QED  BY <1>3, <2>2 DEF FlushTorn, FileOps
<1>4. CASE SyncNow \/ CloseFile \/ SyncAndClose
  BY <1>1, <1>4, FsyncOps DEF SyncNow, CloseFile, SyncAndClose
<1>5. CASE Rename
  <2>1. CASE UNCHANGED <<stored, cached, alt>>
    BY <1>1, <2>1
  <2>2. CASE stored' = tmp /\ cached' = <<>> /\ alt' = Survivors
    BY <2>2, SurvivorOps, RangeEmpty DEF FileOps
  <2>. QED  BY <1>5, <2>1, <2>2 DEF Rename
<1>6. CASE SyncDir
  BY <1>6 DEF SyncDir, FileOps
<1>7. CASE PowerLoss
  <2>1. Range(stored') \subseteq FileOps /\ cached' = <<>> /\ alt' \subseteq {<<>>}
    BY <1>7, SurvivorOps DEF PowerLoss
  <2>. QED  BY <2>1, RangeEmpty DEF FileOps
<1>8. CASE Restart
  <2>1. CASE cached' = <<>> /\ UNCHANGED <<stored, alt>>
    BY <2>1, RangeEmpty DEF FileOps
  <2>. QED  BY <1>1, <1>8, <2>1, FsyncOps DEF Restart, ReplayedFile
<1>9. ASSUME NEW w \in Writers, Handler(w) PROVE UNCHANGED diskVars
  BY <1>9, HandlerMoves
<1>10. CASE WriteSnapshot \/ Reopen \/ EndBatch \/ Tick \/ FlushFails \/ SyncFails \/ Kill
            \/ Receive \/ Vacuum \/ CloseVacuum \/ CloseVacuumDone \/ StopPersist \/ UNCHANGED vars
  <2>1. UNCHANGED <<stored, cached, alt>>
    BY <1>10, ReceiveOps, CommandQueued
    DEF WriteSnapshot, Reopen, EndBatch, Tick, FlushFails, SyncFails, Kill, vars
  <2>. QED  BY <1>1, <2>1
<1>. QED  BY <1>1, <1>2, <1>3, <1>4, <1>5, <1>6, <1>7, <1>8, <1>9, <1>10
          DEF Next, Batch, Dump, Closing

\* Where the handlers are after a step of somebody else.
OthersStep ==
    /\ nw' = nw /\ Range(mem') \subseteq Range(mem) \cup FileOps
    /\ Range(buf') \subseteq Range(buf) \cup QueuedOps
    /\ Range(tmp') \subseteq Range(tmp) \cup Range(mem)
    /\ Taken' \subseteq Taken
    /\ \A w \in Writers : wpc'[w] \in {wpc[w], "idle"}

LEMMA ReleaseMoves ==
    ASSUME TypeOK, NEW sites, ReleaseAt(sites), UNCHANGED <<nw, queue>>
    PROVE  Taken' \subseteq Taken /\ \A w \in Writers : wpc'[w] \in {wpc[w], "idle"}
BY DEF ReleaseAt, Release, Taken, QueuedOps

LEMMA OthersMove ==
    ASSUME TypeOK, [Next]_vars, \A w \in Writers : ~Handler(w)
    PROVE  OthersStep
<1> USE DEF memVars, loopVars, diskVars
<1>0. queue' = queue => QueuedOps' = QueuedOps
  BY DEF QueuedOps
<1>1. ASSUME UNCHANGED <<mem, nw, buf, tmp, queue>>, Taken' \subseteq Taken,
             \A w \in Writers : wpc'[w] \in {wpc[w], "idle"}
      PROVE  OthersStep
  BY <1>1 DEF OthersStep
<1>2. ASSUME Exit, tmp' = tmp PROVE OthersStep
  <2>1. QueuedOps' = {} /\ mem' = <<>> /\ buf' = <<>> /\ waiters' = {} /\ acked' = acked /\ nw' = nw
    BY <1>2, ExitEnds DEF Exit
  <2>2. \A w \in Writers : wpc'[w] = "idle"
    BY <1>2 DEF Exit
  <2>. QED  BY <1>2, <2>1, <2>2, RangeEmpty DEF OthersStep, Taken
<1>3. CASE Receive
  <2>1. QueuedOps' \cup waiters' \subseteq QueuedOps \cup waiters
    BY <1>3, ReceiveOps
  <2>2. Range(buf') \subseteq Range(buf) \cup QueuedOps
    <3>1. CASE buf' = buf
      BY <3>1
    <3>2. CASE buf' = Append(buf, Head(queue).op) /\ Head(queue).op \in Op
               /\ Head(queue).op \in QueuedOps
      BY <3>2, RangeAppend DEF TypeOK
    <3>. QED  BY <1>3, <3>1, <3>2, ReceiveOps
  <2>. QED  BY <1>3, <2>1, <2>2, ReceiveOps DEF OthersStep, Taken
<1>4. CASE Vacuum \/ CloseVacuum \/ CloseVacuumDone \/ StopPersist
  BY <1>4, CommandQueued DEF OthersStep, Taken
<1>5. CASE EndBatch \/ Tick \/ SyncAndClose \/ Rename \/ SyncDir \/ UNCHANGED vars
  BY <1>0, <1>1, <1>5 DEF EndBatch, Tick, SyncAndClose, Rename, SyncDir, VacuumUnchanged, vars, Taken
<1>6. CASE Flush \/ Reopen
  <2>1. buf' = buf \/ buf' = <<>>
    BY <1>6 DEF Flush, Reopen, AfterDump, Covered
  <2>. QED  BY <1>0, <1>6, <2>1, RangeEmpty DEF Flush, Reopen, VacuumUnchanged, OthersStep, Taken
<1>7. CASE SyncNow
  BY <1>1, <1>7, ReleaseMoves DEF SyncNow
<1>8. CASE FlushFails
  <2>1. CASE ~ExitOnFailedWrite
    BY <1>1, <1>8, <2>1, ReleaseMoves DEF FlushFails, Refuse
  <2>. QED  BY <1>2, <1>8, <2>1 DEF FlushFails
<1>9. CASE WriteSnapshot
  BY <1>0, <1>9 DEF WriteSnapshot, VacuumUnchanged, OthersStep, Taken
<1>10. CASE FlushTorn \/ SyncFails \/ CloseFile \/ Kill \/ PowerLoss
  BY <1>2, <1>10 DEF FlushTorn, SyncFails, CloseFile, Kill, PowerLoss
<1>11. CASE Restart
  <2>1. Range(mem') \subseteq FileOps
    <3>1. stored' \in Seq(Op) /\ cached' \in Seq(Op)
      BY <1>11, FsyncType, EmptySeq DEF Restart, ReplayedFile, TypeOK
    <3>2. Range(mem') = Range(stored') \cup Range(cached')
      BY <1>11, <3>1, RangeConcatenation DEF Restart
    <3>3. FileOps' \subseteq FileOps
      <4>1. CASE cached' = <<>> /\ UNCHANGED <<stored, alt>>
        BY <4>1, RangeEmpty DEF FileOps
      <4>2. CASE UNCHANGED <<stored, cached, alt>>
        BY <4>2 DEF FileOps
      <4>. QED  BY <1>11, <4>1, <4>2, FsyncOps DEF Restart, ReplayedFile
    <3>. QED  BY <3>2, <3>3 DEF FileOps
  <2>. QED  BY <1>0, <1>11, <2>1 DEF Restart, OthersStep, Taken
<1>. QED  BY <1>3, <1>4, <1>5, <1>6, <1>7, <1>8, <1>9, <1>10, <1>11
          DEF Next, Batch, Dump, Closing

LEMMA AllOpsTyped == ASSUME TypeOK PROVE AllOps \subseteq Op /\ \A op \in Op : op[2] \in Nat /\ op[1] \in Writers
<1>1. \A s \in Seq(Op) : Range(s) \subseteq Op
  BY RangeOfSeq
<1>2. QueuedOps \subseteq Op
  <2>1. Range(queue) \subseteq Row
    BY RangeOfSeq DEF TypeOK
  <2>2. \A r \in Row : r.cmd = "write" => r.op \in Op
    BY DEF Row, DumpRow, CloseRow
  <2>. QED  BY <2>1, <2>2 DEF QueuedOps
<1>3. \A op \in Op : op[2] \in Nat /\ op[1] \in Writers
  BY ConstantsOK DEF Op
<1>. QED  BY <1>1, <1>2, <1>3 DEF AllOps, FileOps, Taken, TypeOK

LEMMA NumberedNext ==
    ASSUME TypeOK, TypeOK', Numbered, Fresh, [Next]_vars
    PROVE  Numbered' /\ Fresh'
<1>0. /\ \A w \in Writers : nw[w] \in Nat
      /\ \A op \in AllOps : op \in Op /\ op[2] \in Nat /\ op[1] \in Writers
  <2>1. nw \in [Writers -> 0..MaxWrites] /\ MaxWrites \in Nat
    BY ConstantsOK DEF TypeOK
  <2>. QED  BY <2>1, AllOpsTyped
<1>1. CASE \A w \in Writers : ~Handler(w)
  <2>1. OthersStep
    BY <1>1, OthersMove
  <2>2. AllOps' \subseteq AllOps
    BY <2>1, FileOpsNext DEF OthersStep, AllOps, Taken
  <2>3. Numbered'
    BY <2>1, <2>2 DEF Numbered, OthersStep
  <2>4. Fresh'
    BY <2>1 DEF Fresh, OthersStep, CurrentOp
  <2>. QED  BY <2>3, <2>4
<1>2. ASSUME NEW w \in Writers, Handler(w) PROVE Numbered' /\ Fresh'
  <2>1. /\ UNCHANGED <<buf, waiters, tmp>> /\ FileOps' = FileOps /\ (queue' = queue => QueuedOps' = QueuedOps)
        /\ \A v \in Writers : v # w => wpc'[v] = wpc[v] /\ nw'[v] = nw[v]
    BY <1>2, HandlerMoves DEF loopVars, diskVars, FileOps, QueuedOps
  <2>2. CASE CheckWritable(w)
    <3>1. UNCHANGED <<mem, acked, queue>> /\ nw'[w] = nw[w] + 1
      BY <1>2, <2>2, HandlerMoves DEF CheckWritable
    <3>2. AllOps' = AllOps /\ Taken' = Taken
      BY <2>1, <3>1 DEF AllOps, Taken
    <3>3. \A v \in Writers : nw'[v] >= nw[v] /\ nw'[v] \in Nat
      BY <1>0, <2>1, <3>1
    <3>4. Numbered'
      <4> SUFFICES ASSUME NEW op \in AllOps PROVE op[2] <= nw'[op[1]]
        BY <3>2 DEF Numbered
      <4>1. op[2] <= nw[op[1]]
        BY DEF Numbered
      <4>. QED  BY <1>0, <3>3, <4>1
    <3>5. CurrentOp(w)' \notin Taken
      <4>1. CurrentOp(w)'[2] = nw[w] + 1 /\ CurrentOp(w)'[1] = w
        BY <3>1 DEF CurrentOp
      <4>2. CurrentOp(w)' \in AllOps => nw[w] + 1 <= nw[w]
        BY <4>1 DEF Numbered
      <4>. QED  BY <1>0, <4>2 DEF AllOps
    <3>6. Fresh'
      BY <2>1, <3>2, <3>5 DEF Fresh, CurrentOp
    <3>. QED  BY <3>4, <3>6
  <2>3. CASE ~CheckWritable(w)
    <3>1. nw' = nw /\ CurrentOp(w)[1] = w /\ CurrentOp(w)[2] = nw[w]
      BY <1>2, <2>3, HandlerMoves DEF CurrentOp
    <3>2. AllOps' \subseteq AllOps \cup {CurrentOp(w)}
      BY <1>2, <2>1, <2>3, HandlerMoves DEF AllOps, Taken
    <3>3. Numbered'
      BY <1>0, <3>1, <3>2 DEF Numbered
    <3>4. ASSUME NEW v \in Writers, v # w, wpc'[v] \in {"checked", "applied"}
          PROVE  CurrentOp(v)' \notin Taken'
      <4>1. CurrentOp(v) \notin Taken /\ CurrentOp(v)' = CurrentOp(v) /\ CurrentOp(v) # CurrentOp(w)
        BY <2>1, <3>1, <3>4 DEF Fresh, CurrentOp
      <4>2. Taken' \subseteq Taken \cup {CurrentOp(w)}
        BY <1>2, <2>1, <2>3, HandlerMoves DEF Taken
      <4>. QED  BY <4>1, <4>2
    <3>5. ASSUME wpc'[w] \in {"checked", "applied"} PROVE CurrentOp(w)' \notin Taken'
      <4>1. ApplyInMemory(w)
        BY <1>2, <2>3, <3>5, HandlerMoves DEF Handler
      <4>2. Taken' = Taken /\ wpc[w] = "checked" /\ CurrentOp(w)' = CurrentOp(w)
        BY <1>2, <2>1, <3>1, <4>1, HandlerMoves DEF Taken, CurrentOp, ApplyInMemory
      <4>. QED  BY <4>2 DEF Fresh
    <3>. QED  BY <3>3, <3>4, <3>5 DEF Fresh
  <2>. QED  BY <2>2, <2>3
<1>. QED  BY <1>1, <1>2

LEMMA NumberedFirst == Init => Numbered /\ Fresh
<1> SUFFICES ASSUME Init PROVE Numbered /\ Fresh
  OBVIOUS
<1>1. AllOps = {}
  <2>1. alt \subseteq {<<>>} /\ mem = <<>> /\ stored = <<>> /\ cached = <<>> /\ buf = <<>>
        /\ tmp = <<>> /\ waiters = {} /\ acked = {} /\ queue = <<>>
    BY DEF Init
  <2>2. FileOps = {} /\ Taken = {}
    BY <2>1, RangeEmpty DEF FileOps, Taken, QueuedOps
  <2>. QED  BY <2>1, <2>2, RangeEmpty DEF AllOps
<1>. QED  BY <1>1 DEF Init, Numbered, Fresh

\* What is applied stays in its handler until it is queued.
LEMMA AppliedStay ==
    ASSUME TypeOK, Fresh, [Next]_vars, \A w \in Writers : ~Handler(w), ~Exit
    PROVE  /\ AppliedOps' = AppliedOps
           /\ \A w \in Writers : (wpc'[w] = "applied") = (wpc[w] = "applied")
<1>1. nw' = nw /\ \A w \in Writers : wpc'[w] \in {wpc[w], "idle"}
  BY OthersMove DEF OthersStep
<1>2. CASE wpc' = wpc
  BY <1>1, <1>2 DEF AppliedOps, CurrentOp
<1>3. CASE Release
  <2>1. \A w \in Writers : wpc[w] = "applied" => wpc'[w] = "applied"
    BY <1>3 DEF Release, Fresh, Taken
  <2>2. \A w \in Writers : (wpc'[w] = "applied") = (wpc[w] = "applied")
    BY <1>1, <2>1
  <2>. QED  BY <1>1, <2>2 DEF AppliedOps, CurrentOp
<1>4. wpc' = wpc \/ Release
  BY ReceiveOps, CommandQueued
  DEF Next, Batch, Dump, Closing, EndBatch, Tick, SyncAndClose, Rename, SyncDir, WriteSnapshot,
      Reopen, Flush, VacuumUnchanged, FlushFails, FlushTorn, SyncNow, SyncFails, CloseFile, Kill,
      PowerLoss, Restart, ReleaseAt, vars, memVars
<1>. QED  BY <1>2, <1>3, <1>4

--------------------------------------------------------------------------------
(* What readers can see is in the file, pending, queued or with its handler.      *)

Coming == QueuedOps \cup AppliedOps
OnFile == Range(stored) \cup Range(cached)

Kept ==
    /\ Range(mem) = OnFile \cup Range(buf) \cup Coming
    /\ ppc \in {"presync", "rename"} =>
          OnFile \cup Range(buf) \subseteq Range(tmp) /\ Range(mem) = Range(tmp) \cup Coming
    /\ renamed => /\ ppc \in {"dirsync", "reopen"} /\ cached = <<>>
                  /\ Range(buf) \subseteq Range(stored)
                  /\ Range(mem) = Range(stored) \cup Coming

LEMMA FileRange == ASSUME TypeOK PROVE Range(File) = OnFile
BY RangeConcatenation DEF TypeOK, File, OnFile

LEMMA HandlerComing ==
    ASSUME TypeOK, NEW w \in Writers, Handler(w)
    PROVE  \/ Coming' = Coming /\ mem' = mem
           \/ /\ ApplyInMemory(w) /\ Coming' = Coming \cup {CurrentOp(w)}
              /\ Range(mem') = Range(mem) \cup {CurrentOp(w)}
<1>1. \A v \in Writers : v # w => wpc'[v] = wpc[v] /\ nw'[v] = nw[v]
  BY HandlerMoves
<1>2. \A v \in Writers : v # w => /\ (wpc'[v] = "applied") = (wpc[v] = "applied")
                                  /\ CurrentOp(v)' = CurrentOp(v)
  BY <1>1 DEF CurrentOp
<1>3. CASE CheckWritable(w)
  <2>1. wpc[w] # "applied" /\ wpc'[w] # "applied" /\ UNCHANGED <<mem, queue>>
    BY <1>3, HandlerMoves DEF CheckWritable, TypeOK
  <2>2. AppliedOps' = AppliedOps
    BY <1>2, <2>1 DEF AppliedOps
  <2>. QED  BY <2>1, <2>2 DEF Coming, QueuedOps
<1>4. CASE ApplyInMemory(w)
  <2>1. wpc[w] # "applied" /\ wpc'[w] = "applied" /\ nw' = nw /\ queue' = queue
        /\ Range(mem') = Range(mem) \cup {CurrentOp(w)}
    BY <1>4, HandlerMoves DEF ApplyInMemory, CheckWritable, AppendAOF
  <2>2. AppliedOps' = AppliedOps \cup {CurrentOp(w)}
    <3>1. CurrentOp(w)' = CurrentOp(w)
      BY <2>1 DEF CurrentOp
    <3>. QED  BY <1>2, <2>1, <3>1 DEF AppliedOps
  <2>. QED  BY <1>4, <2>1, <2>2 DEF Coming, QueuedOps
<1>5. CASE AppendAOF(w)
  <2>1. wpc[w] = "applied" /\ wpc'[w] # "applied" /\ nw' = nw /\ mem' = mem
        /\ QueuedOps' = QueuedOps \cup {CurrentOp(w)}
    BY <1>5, HandlerMoves DEF ApplyInMemory, CheckWritable, AppendAOF
  <2>2. AppliedOps = AppliedOps' \cup {CurrentOp(w)}
    <3>1. CurrentOp(w)' = CurrentOp(w)
      BY <2>1 DEF CurrentOp
    <3>. QED  BY <1>2, <2>1, <3>1 DEF AppliedOps
  <2>. QED  BY <2>1, <2>2 DEF Coming
<1>. QED  BY <1>3, <1>4, <1>5 DEF Handler

\* Where the pending records go: flush appends them as they are.
LEMMA FlushMoves ==
    ASSUME TypeOK, Present, Flush
    PROVE  /\ open /\ ~torn /\ buf' = <<>> /\ OnFile' = OnFile \cup Range(buf)
           /\ cached' = cached \o buf /\ stored' = stored
           /\ ppc \notin FileClosed
           /\ ppc' \in {"sync", "batch", "ticksync", "snapshot", "closesync"}
<1>1. open /\ ~torn /\ ppc \notin FileClosed
  BY DEF Flush, FlushSites, Present, FileClosed
<1>2. cached' = cached \o buf /\ buf' = <<>>
  BY <1>1, ConcatEmptySeq DEF Flush, NothingToFlush, Readable, TypeOK
<1>3. Range(cached \o buf) = Range(cached) \cup Range(buf)
  BY RangeConcatenation DEF TypeOK
<1>. QED  BY <1>1, <1>2, <1>3, AfterFlushType DEF Flush, OnFile

LEMMA FsyncMoves ==
    ASSUME TypeOK, Fsync
    PROVE  /\ OnFile' = OnFile /\ Range(stored) \subseteq Range(stored')
           /\ ~hole => cached' = <<>> /\ Range(stored') = OnFile
<1>1. Range(stored \o cached) = Range(stored) \cup Range(cached)
  BY RangeConcatenation DEF TypeOK
<1>. QED  BY <1>1, RangeEmpty DEF Fsync, OnFile

LEMMA KeptNext ==
    ASSUME FileKept, TypeOK, TypeOK', Process, Process', Fresh, Up => Kept, [Next]_vars
    PROVE  Up' => Kept'
<1> SUFFICES ASSUME Up' PROVE Kept'
  OBVIOUS
<1> USE DEF memVars, loopVars, diskVars
<1>1. ASSUME UNCHANGED <<mem, stored, cached, buf, ppc, renamed, tmp>>, Coming' = Coming, Up
      PROVE  Kept'
  BY <1>1 DEF Kept, OnFile
<1>2. CASE ~Up
  <2>1. Restart \/ UNCHANGED vars
    BY <1>2, OnlyRestarts DEF PowerLoss, Exit, Up
  <2>2. CASE Restart
    <3>1. Coming' = {} /\ buf' = <<>> /\ ~renamed' /\ ppc' = "select" /\ mem' = stored' \o cached'
      BY <1>2, <2>2, RangeEmpty DEF Restart, Process, Ended, NothingRuns, Coming, QueuedOps, AppliedOps
    <3>2. Range(mem') = Range(stored') \cup Range(cached')
      BY <3>1, RangeConcatenation, SMTT(30) DEF TypeOK
    <3>. QED  BY <3>1, <3>2, RangeEmpty DEF Kept, OnFile
  <2>. QED  BY <1>2, <2>1, <2>2 DEF vars, Up
<1>3. CASE Up /\ \E w \in Writers : Handler(w)
  <2>1. PICK w \in Writers : Handler(w)
    BY <1>3
  <2>2. UNCHANGED <<stored, cached, buf, ppc, renamed, tmp>>
    BY <2>1, HandlerMoves
  <2>. QED  BY <1>3, <2>1, <2>2, HandlerComing DEF Kept, OnFile
<1>4. CASE Up /\ \A w \in Writers : ~Handler(w)
  <2>0. Kept /\ Present /\ AppliedOps' = AppliedOps /\ ~Exit /\ buf \in Seq(Op)
        /\ (queue' = queue => Coming' = Coming)
    <3>1. ~Exit
      BY ExitEnds
    <3>. QED  BY <1>4, <3>1, AppliedStay DEF Coming, QueuedOps, Process, TypeOK
  <2>1. CASE Receive
    <3>1. UNCHANGED <<mem, stored, cached, renamed, tmp>> /\ ppc' \in {"batch", "full", "dump", "close"}
          /\ open /\ ~renamed
      BY <2>0, <2>1, ReceiveOps DEF Present, FileClosed, Kept
    <3>2. Range(buf') \cup Coming' = Range(buf) \cup Coming
      <4>1. CASE TakeRecord /\ buf' = Append(buf, Head(queue).op) /\ Head(queue).op \in Op
                 /\ QueuedOps = QueuedOps' \cup {Head(queue).op}
        <5>1. Range(buf') = Range(buf) \cup {Head(queue).op}
          BY <2>0, <4>1, RangeAppend
        <5>. QED  BY <2>0, <4>1, <5>1 DEF Coming
      <4>2. CASE buf' = buf /\ QueuedOps = QueuedOps'
        BY <2>0, <4>2 DEF Coming
      <4>3. QueuedOps = QueuedOps' \cup RowOps(Head(queue))
        BY <2>1, ReceiveOps
      <4>. QED  BY <2>1, <3>1, <4>1, <4>2, <4>3, ReceiveOps
    <3>. QED  BY <2>0, <3>1, <3>2 DEF Kept, OnFile
  <2>2. CASE Vacuum \/ CloseVacuum \/ CloseVacuumDone \/ StopPersist
    BY <1>1, <1>4, <2>0, <2>2, CommandQueued DEF Coming
  <2>3. CASE EndBatch \/ Tick
    BY <2>0, <2>3 DEF EndBatch, Tick, Kept, OnFile
  <2>4. CASE Flush
    <3>1. UNCHANGED <<mem, queue, renamed>> /\ ~renamed
      BY <2>0, <2>4, FlushMoves DEF Flush, FlushSites, Kept
    <3>. QED  BY <2>0, <2>4, <3>1, FlushMoves, RangeEmpty DEF Kept
  <2>5. CASE FlushFails
    <3>1. ~ExitOnFailedWrite
      BY <2>0, <2>5 DEF FlushFails
    <3>2. UNCHANGED <<mem, queue, buf, renamed, stored, cached>> /\ ~renamed
          /\ ppc' \in {"batch", "snapshot", "stopped", "select"}
      BY <2>0, <2>5, <3>1, AfterFlushType DEF FlushFails, FlushSites, Refuse, Kept
    <3>. QED  BY <2>0, <3>2 DEF Kept, OnFile
  <2>6. CASE SyncNow
    <3>1. OnFile' = OnFile
      BY <2>6, FsyncMoves DEF SyncNow, OnFile
    <3>2. UNCHANGED <<mem, queue, buf, renamed>> /\ ~renamed /\ ppc' \in {"stopped", "select"}
      BY <2>0, <2>6 DEF SyncNow, SyncSites, AfterSync, Kept
    <3>. QED  BY <2>0, <3>1, <3>2 DEF Kept
  <2>7. CASE WriteSnapshot
    <3>1. UNCHANGED <<mem, queue, buf, renamed, stored, cached>> /\ ~renamed
          /\ ((ppc' = "presync" /\ tmp' = mem) \/ ppc' \in {"batch", "full"})
      BY <2>0, <2>7 DEF WriteSnapshot, VacuumUnchanged, AfterRow, Kept
    <3>. QED  BY <2>0, <3>1 DEF Kept, OnFile
  <2>8. CASE SyncAndClose
    <3>1. OnFile' = OnFile
      BY <2>8, FsyncMoves DEF SyncAndClose, OnFile
    <3>2. UNCHANGED <<mem, queue, buf, renamed, tmp>> /\ ~renamed /\ ppc = "presync" /\ ppc' = "rename"
      BY <2>0, <2>8 DEF SyncAndClose, VacuumUnchanged, Kept
    <3>. QED  BY <2>0, <3>1, <3>2 DEF Kept
  <2>9. CASE Rename
    <3>1. UNCHANGED <<mem, queue, buf>> /\ ppc = "rename" /\ ppc' = "dirsync"
      BY <2>9 DEF Rename, VacuumUnchanged
    <3>2. CASE renamed' /\ stored' = tmp /\ cached' = <<>>
      BY <2>0, <3>1, <3>2, RangeEmpty DEF Kept, OnFile
    <3>3. CASE ~renamed' /\ UNCHANGED <<stored, cached>>
      BY <2>0, <3>1, <3>3 DEF Kept, OnFile
    <3>. QED  BY <2>9, <3>2, <3>3 DEF Rename
  <2>10. CASE SyncDir
    BY <2>0, <2>10 DEF SyncDir, VacuumUnchanged, Kept, OnFile
  <2>11. CASE Reopen
    <3>1. UNCHANGED <<mem, queue, stored, cached>> /\ ~renamed' /\ ppc' \in {"batch", "full"}
          /\ buf' = IF renamed THEN <<>> ELSE buf
      BY <2>11 DEF Reopen, VacuumUnchanged, AfterDump, Covered, AfterRow, Fault, FileKept
    <3>. QED  BY <2>0, <3>1, RangeEmpty DEF Kept, OnFile
  <2>12. ~ (FlushTorn \/ SyncFails \/ CloseFile \/ Kill \/ PowerLoss \/ Restart)
    BY <1>4, <2>0 DEF FlushTorn, SyncFails, CloseFile, Kill, PowerLoss, Restart
  <2>13. CASE UNCHANGED vars
    BY <1>1, <1>4, <2>0, <2>13 DEF vars
  <2>. QED  BY <1>4, <2>1, <2>2, <2>3, <2>4, <2>5, <2>6, <2>7, <2>8, <2>9, <2>10, <2>11, <2>12,
               <2>13
            DEF Next, Batch, Dump, Closing
<1>. QED  BY <1>2, <1>3, <1>4

\* The invariant of a server whose file can be reopened.
Base == TypeOK /\ Process /\ Numbered /\ Fresh /\ (Up => Kept)

LEMMA BaseNext == ASSUME FileKept PROVE Base /\ [Next]_vars => Base'
<1> SUFFICES ASSUME Base, [Next]_vars PROVE Base'
  OBVIOUS
<1>1. TypeOK' /\ Process'
  BY TypeInvariant, ProcessNext DEF Base
<1>2. Numbered' /\ Fresh'
  BY <1>1, NumberedNext DEF Base
<1>. QED  BY <1>1, <1>2, KeptNext DEF Base

LEMMA BaseFirst == Init => Base
<1> SUFFICES ASSUME Init PROVE Base
  OBVIOUS
<1>1. TypeOK /\ Numbered /\ Fresh
  BY InitType, NumberedFirst
<1>2. Process
  BY DEF Init, Process, Up, Present, FileClosed, SyncSites
<1>3. Kept
  BY RangeEmpty DEF Init, Kept, OnFile, Coming, QueuedOps, AppliedOps
<1>. QED  BY <1>1, <1>2, <1>3 DEF Base

LEMMA BaseAlways == ASSUME FileKept PROVE Spec => []Base
BY BaseFirst, BaseNext, PTL DEF Spec

\* Nothing that readers can see is forgotten (setNode before appendAOF; flush keeps buf
\* after a failure; doEraseAndDump), for every policy, if no reopen fails.
THEOREM NothingIsForgotten == ASSUME FileKept PROVE Spec => []NothingForgotten
<1>1. Base => NothingForgotten
  BY FileRange DEF Base, Kept, OnFile, Coming, AppliedOps, NothingForgotten
<1>. QED  BY <1>1, BaseAlways, PTL

\* A clean shutdown keeps all that readers could see but what handlers still queue and,
\* while writes are refused, the batch that could not be stored (Close, closeCmd).
THEOREM ShutdownKeeps == ASSUME FileKept PROVE Spec => CleanShutdownKeeps
<1>1. ASSUME Base, [Next]_vars, ppc = "stopped", ppc' = "dead", ncrash' = ncrash
      PROVE  Range(mem) \subseteq
                 Range(File') \cup QueuedOps \cup (IF refused THEN Range(buf) ELSE {})
                     \cup {CurrentOp(w) : w \in {v \in Writers : wpc[v] = "applied"}}
  <2>1. Kept /\ Present /\ Up
    BY <1>1 DEF Base, Process, Up
  <2>2. refused \/ Range(buf) = {}
    BY <1>1, <2>1, RangeEmpty DEF Present
  <2>3. TypeOK' /\ OnFile' = OnFile
    <3>1. TypeOK'
      BY <1>1, TypeInvariant DEF Base
    <3>2. CloseFile
      <4>1. ~ (\E w \in Writers : Handler(w)) /\ ~ (Vacuum \/ CloseVacuum \/ CloseVacuumDone \/ StopPersist)
        BY <1>1, HandlerMoves, CommandQueued DEF Base
      <4>2. ~Receive /\ ~EndBatch /\ ~Tick /\ ~Dump /\ ~SyncNow /\ ~SyncFails
        BY <1>1, ReceiveOps
        DEF Base, EndBatch, Tick, Dump, WriteSnapshot, SyncAndClose, Rename, SyncDir, Reopen,
            SyncNow, SyncFails, SyncSites
      <4>3. ~Flush /\ ~FlushFails /\ ~FlushTorn
        BY <1>1 DEF Flush, FlushFails, FlushTorn, FlushSites
      <4>4. ~Kill /\ ~PowerLoss /\ ~Restart /\ ~ UNCHANGED vars
        BY <1>1, <2>1 DEF Kill, PowerLoss, Restart, vars, Base, TypeOK
      <4>. QED  BY <1>1, <4>1, <4>2, <4>3, <4>4 DEF Next, Batch, Closing
    <3>. QED  BY <1>1, <3>1, <3>2, FsyncMoves DEF Base, CloseFile, OnFile
  <2>4. Range(File') = OnFile'
    BY <2>3, RangeConcatenation DEF TypeOK, File, OnFile
  <2>. QED  BY <2>1, <2>2, <2>3, <2>4 DEF Kept, Coming, AppliedOps
<1>2. Base /\ [Next]_vars =>
        [(ppc = "stopped" /\ ppc' = "dead" /\ ncrash' = ncrash)
          => Range(mem) \subseteq
                 Range(File') \cup QueuedOps \cup (IF refused THEN Range(buf) ELSE {})
                     \cup {CurrentOp(w) : w \in {v \in Writers : wpc[v] = "applied"}}]_vars
  BY <1>1
<1>. QED  BY <1>2, BaseAlways, PTL DEF Spec, CleanShutdownKeeps

--------------------------------------------------------------------------------
(* Order.  A set of operations is closed in M when it holds, with each operation,  *)
(* the ones in M that its handler wrote before; a sequence follows a set when each *)
(* of its prefixes is closed together with the set.                               *)

Older(op) == {<<op[1], m>> : m \in 1..(op[2] - 1)}
Closed(S, M) == \A op \in S : Older(op) \cap M \subseteq S
Follows(S, s, M) ==
    \A i \in 1..Len(s) : Older(s[i]) \cap M \subseteq S \cup {s[j] : j \in 1..(i - 1)}
QueuedBefore(q, i) == {q[j].op : j \in {k \in 1..(i - 1) : q[k].cmd = "write"}}
RowsFollow(S, q, M) ==
    \A i \in 1..Len(q) : q[i].cmd = "write" => Older(q[i].op) \cap M \subseteq S \cup QueuedBefore(q, i)

LEMMA FollowsLess ==
    ASSUME NEW S, NEW S2, S \subseteq S2, NEW M, NEW M2, M2 \subseteq M, NEW s, Follows(S, s, M)
    PROVE  Follows(S2, s, M2)
BY DEF Follows

LEMMA RowsFollowLess ==
    ASSUME NEW S, NEW S2, S \subseteq S2, NEW M, NEW M2, M2 \subseteq M, NEW q, RowsFollow(S, q, M)
    PROVE  RowsFollow(S2, q, M2)
BY DEF RowsFollow

LEMMA FollowsEmpty == ASSUME NEW S, NEW M PROVE Follows(S, <<>>, M) /\ RowsFollow(S, <<>>, M)
BY EmptySeq DEF Follows, RowsFollow

LEMMA FollowsConcat ==
    ASSUME NEW S, NEW M, NEW T, NEW s \in Seq(T), NEW t \in Seq(T),
           Follows(S, s, M), Follows(S \cup Range(s), t, M)
    PROVE  Follows(S, s \o t, M)
<1> DEFINE u == s \o t
<1>1. /\ Len(s) \in Nat /\ Len(t) \in Nat /\ Len(u) = Len(s) + Len(t)
      /\ \A i \in 1..Len(s) : u[i] = s[i]
      /\ \A i \in (Len(s) + 1)..(Len(s) + Len(t)) : u[i] = t[i - Len(s)]
  <2>1. Len(s) \in Nat /\ Len(t) \in Nat
    BY LenProperties
  <2>. QED  BY <2>1, ConcatProperties
<1>2. Range(s) = {s[j] : j \in 1..Len(s)}
  BY RangeEquality
<1> HIDE DEF u
<1> SUFFICES ASSUME NEW i \in 1..Len(u)
             PROVE  Older(u[i]) \cap M \subseteq S \cup {u[j] : j \in 1..(i - 1)}
  BY DEF Follows, u
<1>3. CASE i <= Len(s)
  <2>1. i \in 1..Len(s) /\ \A j \in 1..(i - 1) : j \in 1..Len(s)
    BY <1>1, <1>3
  <2>2. {u[j] : j \in 1..(i - 1)} = {s[j] : j \in 1..(i - 1)}
    BY <1>1, <2>1
  <2>. QED  BY <1>1, <2>1, <2>2 DEF Follows
<1>4. CASE i > Len(s)
  <2> DEFINE k == i - Len(s)
  <2>1. k \in 1..Len(t) /\ i \in (Len(s) + 1)..(Len(s) + Len(t))
    BY <1>1, <1>4
  <2>2. Older(t[k]) \cap M \subseteq S \cup Range(s) \cup {t[j] : j \in 1..(k - 1)}
    BY <2>1 DEF Follows
  <2>3. \A j \in 1..(k - 1) : /\ j + Len(s) \in 1..(i - 1) /\ j + Len(s) - Len(s) = j
                              /\ j + Len(s) \in (Len(s) + 1)..(Len(s) + Len(t))
    BY <1>1, <2>1
  <2>4. {t[j] : j \in 1..(k - 1)} \subseteq {u[j] : j \in 1..(i - 1)}
    <3> SUFFICES ASSUME NEW j \in 1..(k - 1) PROVE t[j] \in {u[n] : n \in 1..(i - 1)}
      OBVIOUS
    <3>1. u[j + Len(s)] = t[j]
      BY <1>1, <2>3
    <3>. QED  BY <2>3, <3>1
  <2>5. Range(s) \subseteq {u[j] : j \in 1..(i - 1)}
    <3>1. \A j \in 1..Len(s) : j \in 1..(i - 1)
      BY <1>1, <1>4
    <3>. QED  BY <1>1, <1>2, <3>1
  <2>6. u[i] = t[k]
    BY <1>1, <2>1
  <2>. QED  BY <2>2, <2>4, <2>5, <2>6
<1>. QED  BY <1>1, <1>3, <1>4

LEMMA FollowsPrefix ==
    ASSUME NEW S, NEW M, NEW T, NEW s \in Seq(T), NEW n \in 0..Len(s), Follows(S, s, M)
    PROVE  Follows(S, SubSeq(s, 1, n), M)
<1>1. /\ Len(s) \in Nat /\ Len(SubSeq(s, 1, n)) = n
      /\ \A j \in 1..n : SubSeq(s, 1, n)[j] = s[j]
  <2>1. Len(s) \in Nat
    BY LenProperties
  <2>2. \A j \in 1..n : s[j] \in T
    BY <2>1, ElementOfSeq
  <2>. QED  BY <2>1, <2>2, SubSeqProperties
<1> DEFINE u == SubSeq(s, 1, n)
<1>2. Len(u) = n /\ \A j \in 1..n : u[j] = s[j]
  BY <1>1
<1> HIDE DEF u
<1> SUFFICES ASSUME NEW i \in 1..n
             PROVE  Older(u[i]) \cap M \subseteq S \cup {u[j] : j \in 1..(i - 1)}
  BY <1>2 DEF Follows, u
<1>3. i \in 1..Len(s) /\ \A j \in 1..(i - 1) : j \in 1..n
  BY <1>1
<1>4. {u[j] : j \in 1..(i - 1)} = {s[j] : j \in 1..(i - 1)}
  BY <1>2, <1>3
<1>. QED  BY <1>2, <1>3, <1>4 DEF Follows

LEMMA FollowsAppend ==
    ASSUME NEW S, NEW M, NEW T, NEW s \in Seq(T), NEW x \in T, Follows(S, s, M),
           Older(x) \cap M \subseteq S \cup Range(s)
    PROVE  Follows(S, Append(s, x), M)
<1>1. Follows(S \cup Range(s), <<x>>, M) /\ <<x>> \in Seq(T)
  <2>1. Len(<<x>>) = 1 /\ <<x>>[1] = x /\ <<x>> \in Seq(T)
    OBVIOUS
  <2>. QED  BY <2>1 DEF Follows
<1>2. Append(s, x) = s \o <<x>>
  BY AppendIsConcat
<1>. QED  BY <1>1, <1>2, FollowsConcat

\* What follows a closed set is closed with it.
LEMMA ClosedAfter ==
    ASSUME NEW S, NEW M, NEW T, NEW s \in Seq(T), Closed(S, M), Follows(S, s, M)
    PROVE  Closed(S \cup Range(s), M)
<1>1. Range(s) = {s[j] : j \in 1..Len(s)} /\ Len(s) \in Nat
  BY RangeEquality, LenProperties
<1>2. ASSUME NEW i \in 1..Len(s) PROVE Older(s[i]) \cap M \subseteq S \cup Range(s)
  <2>1. \A j \in 1..(i - 1) : j \in 1..Len(s)
    BY <1>1
  <2>2. Older(s[i]) \cap M \subseteq S \cup {s[j] : j \in 1..(i - 1)}
    BY DEF Follows
  <2>. QED  BY <1>1, <2>1, <2>2
<1>. QED  BY <1>1, <1>2 DEF Closed

LEMMA RowsAppend ==
    ASSUME NEW S, NEW M, NEW q \in Seq(Row), NEW r \in Row, RowsFollow(S, q, M),
           r.cmd = "write" => Older(r.op) \cap M \subseteq S \cup {x.op : x \in {y \in Range(q) : y.cmd = "write"}}
    PROVE  RowsFollow(S, Append(q, r), M)
<1> DEFINE u == Append(q, r)
<1>1. /\ Len(q) \in Nat /\ Len(u) = Len(q) + 1 /\ u[Len(q) + 1] = r
      /\ \A i \in 1..Len(q) : u[i] = q[i]
  BY AppendProperties, LenProperties
<1>2. Range(q) = {q[j] : j \in 1..Len(q)}
  BY RangeEquality
<1> HIDE DEF u
<1> SUFFICES ASSUME NEW i \in 1..Len(u), u[i].cmd = "write"
             PROVE  Older(u[i].op) \cap M \subseteq S \cup QueuedBefore(u, i)
  BY DEF RowsFollow, u
<1>3. QueuedBefore(u, i) = QueuedBefore(q, i)
  <2>1. \A j \in 1..(i - 1) : u[j] = q[j]
    BY <1>1
  <2>. QED  BY <2>1 DEF QueuedBefore
<1>4. CASE i \in 1..Len(q)
  BY <1>1, <1>3, <1>4 DEF RowsFollow
<1>5. CASE i = Len(q) + 1
  <2>1. {x.op : x \in {y \in Range(q) : y.cmd = "write"}} \subseteq QueuedBefore(q, i)
    <3>1. i - 1 = Len(q)
      BY <1>1, <1>5
    <3>. QED  BY <1>2, <3>1 DEF QueuedBefore
  <2>. QED  BY <1>1, <1>3, <1>5, <2>1
<1>. QED  BY <1>1, <1>4, <1>5

LEMMA RowsTail ==
    ASSUME NEW S, NEW M, NEW q \in Seq(Row), q # <<>>, RowsFollow(S, q, M)
    PROVE  /\ Head(q).cmd = "write" => Older(Head(q).op) \cap M \subseteq S
           /\ RowsFollow(S \cup RowOps(Head(q)), Tail(q), M)
<1> DEFINE u == Tail(q)
<1>1. /\ Len(q) \in Nat \ {0} /\ Len(u) = Len(q) - 1 /\ Head(q) = q[1]
      /\ \A i \in 1..Len(u) : u[i] = q[i + 1]
  <2>1. Len(q) \in Nat \ {0}
    BY EmptySeq, LenProperties
  <2>. QED  BY <2>1, HeadTailProperties
<1> HIDE DEF u
<1>2. Head(q).cmd = "write" => Older(Head(q).op) \cap M \subseteq S
  <2>1. 1 \in 1..Len(q) /\ QueuedBefore(q, 1) = {}
    BY <1>1 DEF QueuedBefore
  <2>. QED  BY <1>1, <2>1 DEF RowsFollow
<1>3. ASSUME NEW i \in 1..Len(u), u[i].cmd = "write"
      PROVE  Older(u[i].op) \cap M \subseteq S \cup RowOps(Head(q)) \cup QueuedBefore(u, i)
  <2>1. i + 1 \in 1..Len(q) /\ u[i] = q[i + 1]
    BY <1>1
  <2>2. Older(u[i].op) \cap M \subseteq S \cup QueuedBefore(q, i + 1)
    BY <1>3, <2>1 DEF RowsFollow
  <2>3. QueuedBefore(q, i + 1) \subseteq RowOps(Head(q)) \cup QueuedBefore(u, i)
    <3> SUFFICES ASSUME NEW k \in 1..(i + 1 - 1), q[k].cmd = "write"
                 PROVE  q[k].op \in RowOps(Head(q)) \cup QueuedBefore(u, i)
      BY DEF QueuedBefore
    <3>1. CASE k = 1
      BY <1>1, <3>1 DEF RowOps
    <3>2. CASE k # 1
      <4>1. k - 1 \in 1..(i - 1) /\ k - 1 \in 1..Len(u) /\ k - 1 + 1 = k
        BY <1>1, <3>2
      <4>2. u[k - 1] = q[k]
        BY <1>1, <4>1
      <4>. QED  BY <4>1, <4>2 DEF QueuedBefore
    <3>. QED  BY <3>1, <3>2
  <2>. QED  BY <2>2, <2>3
<1>. QED  BY <1>2, <1>3 DEF RowsFollow, u

(* Everything a power loss may leave is closed in what readers have seen.          *)
OrderedBy(M) ==
    /\ Closed(Range(stored), M) /\ Follows(Range(stored), cached, M)
    /\ Follows(OnFile, buf, M) /\ RowsFollow(OnFile \cup Range(buf), queue, M)
    /\ \A h \in alt : Closed(Range(h), M)
    /\ Up /\ ppc \in {"presync", "rename"} => Closed(Range(tmp), M)

Seen == IF Up THEN Range(mem) ELSE OnFile

LEMMA SurvivorsClosed ==
    ASSUME TypeOK, NEW M, OrderedBy(M), NEW h \in Survivors
    PROVE  Closed(Range(h), M)
<1>1. CASE h \in alt
  BY <1>1 DEF OrderedBy
<1>2. CASE h \notin alt
  <2>1. PICK i \in 0..(IF hole THEN 0 ELSE Len(cached)) : h = stored \o SubSeq(cached, 1, i)
    BY <1>2 DEF Survivors
  <2>2. i \in 0..Len(cached) /\ stored \in Seq(Op) /\ cached \in Seq(Op)
    BY LenProperties DEF TypeOK
  <2> DEFINE p == SubSeq(cached, 1, i)
  <2>3. p \in Seq(Op) /\ Range(h) = Range(stored) \cup Range(p)
    BY <2>1, <2>2, SeqParts
  <2>4. Follows(Range(stored), p, M)
    BY <2>2, FollowsPrefix DEF OrderedBy
  <2> HIDE DEF p
  <2>. QED  BY <2>3, <2>4, ClosedAfter DEF OrderedBy
<1>. QED  BY <1>1, <1>2

LEMMA FsyncOrder ==
    ASSUME TypeOK, NEW M, OrderedBy(M), Fsync
    PROVE  /\ Closed(Range(stored'), M) /\ Follows(Range(stored'), cached', M)
           /\ \A h \in alt' : Closed(Range(h), M)
<1>1. CASE hole
  BY <1>1 DEF Fsync, OrderedBy
<1>2. CASE ~hole
  <2>1. Range(stored') = Range(stored) \cup Range(cached) /\ cached' = <<>> /\ alt' \subseteq alt
    BY <1>2, FsyncMoves DEF Fsync, OnFile
  <2>2. cached \in Seq(Op)
    BY DEF TypeOK
  <2>3. Closed(Range(stored) \cup Range(cached), M)
    BY <2>2, ClosedAfter DEF OrderedBy
  <2>. QED  BY <2>1, <2>3, FollowsEmpty DEF OrderedBy
<1>. QED  BY <1>1, <1>2

\* A step of persist, of a vacuum or of a shutdown.
LEMMA OthersOrder ==
    ASSUME FileKept, Base, NEW M, M = Seen, OrderedBy(M), Up, Up', [Next]_vars,
           \A w \in Writers : ~Handler(w)
    PROVE  OrderedBy(M)'
<1> USE DEF memVars, loopVars, diskVars
<1>0. /\ TypeOK /\ Present /\ Kept /\ ~Exit /\ M = Range(mem)
      /\ buf \in Seq(Op) /\ cached \in Seq(Op) /\ queue \in Seq(Row)
  BY ExitEnds DEF Base, Process, Seen, TypeOK
<1>1. ASSUME UNCHANGED <<stored, cached, buf, alt, queue, tmp>>,
             ppc' \in {"presync", "rename"} => ppc \in {"presync", "rename"}
      PROVE  OrderedBy(M)'
  BY <1>1 DEF OrderedBy, OnFile
<1>2. CASE Receive
  <2>1. /\ UNCHANGED <<stored, cached, alt>> /\ ppc' \in {"batch", "full", "dump", "close"} /\ open
        /\ queue # <<>> /\ queue' = Tail(queue)
    BY <1>0, <1>2, ReceiveOps DEF Present, FileClosed
  <2>2. /\ Head(queue).cmd = "write" => Older(Head(queue).op) \cap M \subseteq OnFile \cup Range(buf)
        /\ RowsFollow(OnFile \cup Range(buf) \cup RowOps(Head(queue)), queue', M)
    BY <1>0, <2>1, RowsTail DEF OrderedBy
  <2>3. Follows(OnFile, buf', M) /\ Range(buf') = Range(buf) \cup RowOps(Head(queue))
    <3>1. CASE TakeRecord
      <4>1. /\ buf' = Append(buf, Head(queue).op) /\ Head(queue).op \in Op
            /\ RowOps(Head(queue)) = {Head(queue).op} /\ Head(queue).cmd = "write"
        BY <1>0, <1>2, <2>1, <3>1, ReceiveOps DEF TakeRecord, TakeCommand
      <4>2. Follows(OnFile, Append(buf, Head(queue).op), M)
        BY <1>0, <2>2, <4>1, FollowsAppend DEF OrderedBy
      <4>3. Range(Append(buf, Head(queue).op)) = Range(buf) \cup {Head(queue).op}
        BY <1>0, <4>1, RangeAppend
      <4>. QED  BY <4>1, <4>2, <4>3
    <3>2. CASE TakeCommand
      BY <1>0, <1>2, <3>2, ReceiveOps DEF OrderedBy, TakeRecord, TakeCommand
    <3>. QED  BY <1>2, <3>1, <3>2 DEF Receive
  <2>4. RowsFollow(OnFile \cup Range(buf'), queue', M)
    <3>1. OnFile \cup Range(buf) \cup RowOps(Head(queue)) = OnFile \cup Range(buf')
      BY <2>3
    <3>. QED  BY <2>2, <3>1
  <2>. QED  BY <2>1, <2>3, <2>4 DEF OrderedBy, OnFile
<1>3. CASE Vacuum \/ CloseVacuum \/ CloseVacuumDone \/ StopPersist
  <2>1. /\ UNCHANGED <<stored, cached, buf, alt, ppc, tmp>>
        /\ queue' = queue \/ \E r \in {DumpRow, CloseRow} : queue' = Append(queue, r)
    BY <1>0, <1>3, CommandQueued
  <2>2. ASSUME NEW r \in {DumpRow, CloseRow}
        PROVE  RowsFollow(OnFile \cup Range(buf), Append(queue, r), M)
    <3>1. r \in Row /\ r.cmd # "write"
      BY DEF Row, DumpRow, CloseRow
    <3>2. RowsFollow(OnFile \cup Range(buf), queue, M)
      BY DEF OrderedBy
    <3>. QED  BY <1>0, <3>1, <3>2, RowsAppend
  <2>3. RowsFollow(OnFile \cup Range(buf), queue', M)
    BY <2>1, <2>2 DEF OrderedBy
  <2>. QED  BY <2>1, <2>3 DEF OrderedBy, OnFile
<1>4. CASE EndBatch \/ Tick \/ UNCHANGED vars
  BY <1>1, <1>4 DEF EndBatch, Tick, vars
<1>5. CASE Flush
  <2>1. /\ buf' = <<>> /\ cached' = cached \o buf /\ OnFile' = OnFile \cup Range(buf)
        /\ UNCHANGED <<stored, queue, alt>> /\ ppc' \notin {"presync", "rename"}
    BY <1>0, <1>5, FlushMoves DEF Flush
  <2>2. Follows(Range(stored), cached \o buf, M)
    <3>1. Follows(Range(stored) \cup Range(cached), buf, M) /\ Follows(Range(stored), cached, M)
      BY DEF OrderedBy, OnFile
    <3>. QED  BY <1>0, <3>1, FollowsConcat
  <2>3. OnFile' \cup Range(buf') = OnFile \cup Range(buf)
    BY <2>1, RangeEmpty
  <2>. QED  BY <2>1, <2>2, <2>3, FollowsEmpty DEF OrderedBy
<1>6. CASE FlushFails
  <2>1. ~ExitOnFailedWrite
    BY <1>0, <1>6 DEF FlushFails
  <2>2. UNCHANGED <<stored, cached, buf, alt, queue, tmp>> /\ ppc' \notin {"presync", "rename"}
    BY <1>6, <2>1, AfterFlushType DEF FlushFails, Refuse
  <2>. QED  BY <1>1, <2>2
<1>7. CASE SyncNow \/ SyncAndClose
  <2>1. /\ UNCHANGED <<buf, queue, tmp>>
        /\ ppc' \in {"presync", "rename"} => ppc \in {"presync", "rename"}
        /\ Fsync \/ UNCHANGED <<stored, cached, alt>>
    BY <1>7 DEF SyncNow, SyncAndClose, AfterSync, VacuumUnchanged
  <2>2. CASE Fsync
    BY <1>0, <2>1, <2>2, FsyncOrder, FsyncMoves DEF OrderedBy
  <2>. QED  BY <1>1, <2>1, <2>2
<1>8. CASE WriteSnapshot
  <2>1. UNCHANGED <<stored, cached, buf, alt, queue>>
        /\ (tmp' = mem \/ ppc' \notin {"presync", "rename"})
    BY <1>8 DEF WriteSnapshot, AfterRow, VacuumUnchanged
  <2>2. Closed(Range(mem), M)
    BY <1>0 DEF Closed
  <2>. QED  BY <2>1, <2>2 DEF OrderedBy, OnFile
<1>9. CASE Rename
  <2>1. CASE ~renamed'
    BY <1>1, <1>9, <2>1 DEF Rename, VacuumUnchanged
  <2>2. CASE renamed'
    <3>1. /\ stored' = tmp /\ cached' = <<>> /\ alt' = Survivors /\ UNCHANGED <<buf, queue, tmp>>
          /\ ppc = "rename" /\ ppc' = "dirsync"
      BY <1>9, <2>2 DEF Rename, VacuumUnchanged
    <3>2. OnFile \subseteq OnFile' /\ OnFile' = Range(tmp)
      BY <1>0, <3>1, RangeEmpty DEF Kept, OnFile
    <3>3. Follows(OnFile', buf, M) /\ RowsFollow(OnFile' \cup Range(buf), queue, M)
      <4>1. Follows(OnFile, buf, M) /\ RowsFollow(OnFile \cup Range(buf), queue, M)
            /\ OnFile \cup Range(buf) \subseteq OnFile' \cup Range(buf) /\ M \subseteq M
        BY <3>2 DEF OrderedBy
      <4>. QED  BY <3>2, <4>1, FollowsLess, RowsFollowLess
    <3>4. Closed(Range(tmp), M) /\ \A h \in Survivors : Closed(Range(h), M)
      BY <1>0, <3>1, SurvivorsClosed DEF OrderedBy
    <3>. QED  BY <3>1, <3>3, <3>4, FollowsEmpty DEF OrderedBy
  <2>. QED  BY <2>1, <2>2
<1>10. CASE SyncDir
  BY <1>10 DEF SyncDir, VacuumUnchanged, OrderedBy, OnFile
<1>11. CASE Reopen
  <2>1. /\ UNCHANGED <<stored, cached, queue, alt>> /\ ppc' \notin {"presync", "rename"}
        /\ buf' = buf \/ (renamed /\ buf' = <<>>)
    BY <1>11 DEF Reopen, VacuumUnchanged, AfterDump, Covered, AfterRow
  <2>2. CASE buf' = buf
    BY <2>1, <2>2 DEF OrderedBy, OnFile
  <2>3. CASE renamed /\ buf' = <<>>
    <3>1. OnFile' = OnFile /\ OnFile \cup Range(buf') = OnFile \cup Range(buf)
      BY <1>0, <2>1, <2>3, RangeEmpty DEF Kept, OnFile
    <3>. QED  BY <2>1, <2>3, <3>1, FollowsEmpty DEF OrderedBy
  <2>. QED  BY <2>1, <2>2, <2>3
<1>12. ~ (FlushTorn \/ SyncFails \/ CloseFile \/ Kill \/ PowerLoss \/ Restart)
  BY <1>0 DEF FlushTorn, SyncFails, CloseFile, Kill, PowerLoss, Restart
<1>. QED  BY <1>2, <1>3, <1>4, <1>5, <1>6, <1>7, <1>8, <1>9, <1>10, <1>11, <1>12
          DEF Next, Batch, Dump, Closing

\* No operation that a state knows of is newer than the one its handler is at.
LEMMA NothingNewer ==
    ASSUME Base, NEW w \in Writers, NEW op \in AllOps
    PROVE  CurrentOp(w) \notin Older(op)
<1>1. op[2] <= nw[op[1]] /\ op[2] \in Nat /\ nw[w] \in Nat
  <2>1. nw \in [Writers -> 0..MaxWrites] /\ MaxWrites \in Nat /\ TypeOK
    BY ConstantsOK DEF Base, TypeOK
  <2>. QED  BY <2>1, AllOpsTyped DEF Base, Numbered
<1>2. ASSUME NEW m \in 1..(op[2] - 1), <<op[1], m>> = <<w, nw[w]>> PROVE FALSE
  <2>1. op[1] = w /\ m = nw[w]
    BY <1>2
  <2>. QED  BY <1>1, <2>1
<1>. QED  BY <1>2 DEF Older, CurrentOp

LEMMA HandlerOrder ==
    ASSUME Base, NEW M, M = Seen, OrderedBy(M), Up, NEW w \in Writers, Handler(w)
    PROVE  OrderedBy(Seen)'
<1>1. /\ UNCHANGED <<stored, cached, buf, alt, tmp, ppc>> /\ Up' /\ M = Range(mem)
      /\ TypeOK /\ Kept /\ queue \in Seq(Row)
  BY HandlerMoves DEF loopVars, diskVars, Base, Seen, TypeOK
<1> DEFINE M2 == Range(mem')
<1>2. Seen' = M2
  BY <1>1 DEF Seen
<1>3. CASE mem' = mem
  <2>1. M2 = M
    BY <1>1, <1>3
  <2>2. RowsFollow(OnFile \cup Range(buf), queue', M)
    <3>1. CASE queue' = queue
      BY <3>1 DEF OrderedBy
    <3>2. CASE AppendAOF(w)
      <4> DEFINE op == CurrentOp(w)
      <4>1. /\ op \in Op /\ queue' = Append(queue, Record(op)) /\ op \in AppliedOps
            /\ Record(op) \in Row /\ Record(op).op = op /\ Record(op).cmd = "write"
        BY <1>1, <3>2, HandlerMoves, CurrentOpType DEF AppendAOF, AppliedOps, Record
      <4>2. Older(op) \cap M \subseteq OnFile \cup Range(buf) \cup QueuedOps
        <5>1. \A v \in Writers : CurrentOp(v) \notin Older(op)
          <6> TAKE v \in Writers
          <6>1. op \in AllOps
            BY <1>1, <4>1 DEF Kept, AllOps, Coming
          <6>. QED  BY <6>1, NothingNewer
        <5>2. AppliedOps \cap Older(op) = {}
          BY <5>1 DEF AppliedOps
        <5>. QED  BY <1>1, <5>2 DEF Kept, Coming
      <4> HIDE DEF op
      <4>3. RowsFollow(OnFile \cup Range(buf), queue, M)
        BY DEF OrderedBy
      <4>4. RowsFollow(OnFile \cup Range(buf), Append(queue, Record(op)), M)
        BY <1>1, <4>1, <4>2, <4>3, RowsAppend DEF QueuedOps
      <4>. QED  BY <4>1, <4>4
    <3>. QED  BY <1>1, <3>1, <3>2, HandlerMoves DEF Handler, CheckWritable, ApplyInMemory
  <2>3. OrderedBy(M)'
    BY <1>1, <2>2 DEF OrderedBy, OnFile
  <2>. QED  BY <1>2, <2>1, <2>3
<1>4. CASE ApplyInMemory(w)
  <2> DEFINE x == CurrentOp(w)
  <2>1. M2 = M \cup {x} /\ queue' = queue
    BY <1>1, <1>4, HandlerMoves DEF ApplyInMemory, AppendAOF, CheckWritable
  <2>2. \A op \in AllOps : Older(op) \cap M2 = Older(op) \cap M
    BY <2>1, NothingNewer
  <2> HIDE DEF M2, x
  <2>3. \A S : S \subseteq AllOps /\ Closed(S, M) => Closed(S, M2)
    BY <2>2 DEF Closed
  <2>4. \A S, s : s \in Seq(Op) /\ Range(s) \subseteq AllOps /\ Follows(S, s, M) => Follows(S, s, M2)
    <3> SUFFICES ASSUME NEW S, NEW s \in Seq(Op), Range(s) \subseteq AllOps, Follows(S, s, M)
                 PROVE  Follows(S, s, M2)
      OBVIOUS
    <3>1. \A i \in 1..Len(s) : s[i] \in AllOps
      BY RangeEquality
    <3>. QED  BY <2>2, <3>1 DEF Follows
  <2>5. RowsFollow(OnFile \cup Range(buf), queue, M2)
    <3>1. \A i \in 1..Len(queue) : queue[i].cmd = "write" => queue[i].op \in AllOps
      <4>1. \A i \in 1..Len(queue) : queue[i] \in Range(queue)
        BY <1>1, RangeEquality
      <4>. QED  BY <4>1 DEF QueuedOps, AllOps, Taken
    <3>. QED  BY <2>2, <3>1 DEF OrderedBy, RowsFollow
  <2>6. /\ Range(stored) \subseteq AllOps /\ Range(cached) \subseteq AllOps /\ Range(buf) \subseteq AllOps
        /\ Range(tmp) \subseteq AllOps /\ \A h \in alt : Range(h) \subseteq AllOps
    BY DEF AllOps, FileOps
  <2>7. /\ Closed(Range(stored), M2) /\ \A h \in alt : Closed(Range(h), M2)
        /\ Up /\ ppc \in {"presync", "rename"} => Closed(Range(tmp), M2)
    BY <2>3, <2>6 DEF OrderedBy
  <2>8. Follows(Range(stored), cached, M2) /\ Follows(OnFile, buf, M2)
    BY <1>1, <2>4, <2>6 DEF OrderedBy, TypeOK
  <2>. QED  BY <1>1, <1>2, <2>1, <2>5, <2>7, <2>8 DEF OrderedBy, OnFile
<1>. QED  BY <1>3, <1>4, HandlerComing DEF Base

\* The process ends or starts.
LEMMA EndsOrder ==
    ASSUME FileKept, Base, Base', NEW M, M = Seen, OrderedBy(M), [Next]_vars, ~Up \/ ~Up'
    PROVE  OrderedBy(Seen)'
<1> USE DEF memVars, loopVars, diskVars
<1>0. /\ TypeOK /\ TypeOK' /\ Process /\ (Up => Kept /\ M = Range(mem)) /\ (~Up => M = OnFile)
      /\ OnFile \subseteq M
  BY DEF Base, Seen, Kept
<1>1. ASSUME ~Up', queue' = <<>>, buf' = <<>>, OnFile' \subseteq M,
             Closed(Range(stored'), M), Follows(Range(stored'), cached', M),
             \A h \in alt' : Closed(Range(h), M)
      PROVE  OrderedBy(Seen)'
  <2>1. Seen' = OnFile'
    BY <1>1 DEF Seen
  <2>2. Follows(Range(stored'), cached', OnFile')
    BY <1>1, FollowsLess
  <2>. QED  BY <1>1, <2>1, <2>2, FollowsEmpty DEF OrderedBy, Closed
<1>2. CASE PowerLoss
  <2>1. /\ queue' = <<>> /\ buf' = <<>> /\ ~Up' /\ cached' = <<>> /\ alt' \subseteq {<<>>}
    BY <1>2, ExitEnds DEF PowerLoss, Exit
  <2>2. Seen' = Range(stored') /\ OnFile' = Range(stored')
    BY <2>1, RangeEmpty DEF Seen, OnFile
  <2>. QED  BY <2>1, <2>2, FollowsEmpty, RangeEmpty DEF OrderedBy, Closed
<1>3. CASE Restart
  <2>0. ~Up /\ Up' /\ queue' = <<>> /\ buf' = <<>> /\ ppc' = "select"
    BY <1>0, <1>3 DEF Restart, Process, Ended, NothingRuns, Up
  <2>1. Seen' = OnFile'
    BY <1>0, <1>3, <2>0, RangeConcatenation DEF Restart, Seen, OnFile, TypeOK
  <2>2. /\ OnFile' \subseteq OnFile /\ Closed(Range(stored'), M) /\ Follows(Range(stored'), cached', M)
        /\ \A h \in alt' : Closed(Range(h), M)
    <3>1. CASE cached' = <<>> /\ UNCHANGED <<stored, alt>>
      BY <3>1, FollowsEmpty, RangeEmpty DEF OrderedBy, OnFile
    <3>2. CASE UNCHANGED <<stored, cached, alt>>
      BY <3>2 DEF OrderedBy, OnFile
    <3>3. CASE Fsync
      BY <1>0, <3>3, FsyncOrder, FsyncMoves
    <3>. QED  BY <1>3, <3>1, <3>2, <3>3 DEF Restart, ReplayedFile
  <2>3. OnFile' \subseteq M
    BY <1>0, <2>2
  <2>4. Follows(Range(stored'), cached', OnFile')
    BY <2>2, <2>3, FollowsLess
  <2>. QED  BY <2>0, <2>1, <2>2, <2>3, <2>4, FollowsEmpty DEF OrderedBy, Closed
<1>4. CASE ~Up' /\ Exit /\ UNCHANGED <<stored, cached, alt>>
  <2>1. queue' = <<>> /\ buf' = <<>> /\ OnFile' = OnFile
    BY <1>4 DEF Exit, OnFile
  <2>. QED  BY <1>0, <1>1, <1>4, <2>1 DEF OrderedBy
<1>5. CASE ~Up' /\ Exit /\ Fsync
  <2>1. queue' = <<>> /\ buf' = <<>> /\ OnFile' = OnFile
    BY <1>0, <1>5, FsyncMoves DEF Exit
  <2>. QED  BY <1>0, <1>1, <1>5, <2>1, FsyncOrder
<1>6. CASE FlushTorn
  <2>1. PICK i \in 0..Len(buf) : cached' = cached \o SubSeq(buf, 1, i)
    BY <1>6 DEF FlushTorn
  <2>2. UNCHANGED <<stored, alt>> /\ queue' = <<>> /\ buf' = <<>> /\ ~Up' /\ Up
    BY <1>6, ExitEnds DEF FlushTorn, Exit, Up, FlushSites
  <2> DEFINE p == SubSeq(buf, 1, i)
  <2>3. /\ p \in Seq(Op) /\ Range(p) \subseteq Range(buf) /\ buf \in Seq(Op) /\ cached \in Seq(Op)
        /\ Range(cached') = Range(cached) \cup Range(p)
    <3>1. buf \in Seq(Op) /\ cached \in Seq(Op)
      BY <1>0 DEF TypeOK
    <3>2. /\ p \in Seq(Op) /\ Range(p) \subseteq Range(buf)
          /\ Range(cached \o p) = Range(cached) \cup Range(p)
      BY <3>1, SeqParts
    <3>. QED  BY <2>1, <3>1, <3>2
  <2>4. OnFile' \subseteq M
    BY <1>0, <2>2, <2>3 DEF Kept, OnFile
  <2>5. Follows(Range(stored) \cup Range(cached), p, M)
    <3>1. Follows(OnFile, buf, M)
      BY DEF OrderedBy
    <3>. QED  BY <2>3, <3>1, FollowsPrefix DEF OnFile
  <2> HIDE DEF p
  <2>6. Follows(Range(stored), cached \o p, M)
    BY <2>3, <2>5, FollowsConcat DEF OrderedBy
  <2>. QED  BY <1>1, <2>1, <2>2, <2>4, <2>6 DEF OrderedBy, p
<1>7. CASE ~Up' /\ UNCHANGED vars
  BY <1>7 DEF vars, OrderedBy, Seen, OnFile, Up
<1>8. CASE Up /\ ~Up' /\ ~PowerLoss /\ ~FlushTorn /\ ~ UNCHANGED vars
  <2>1. Exit
    BY <1>8, HandlerMoves, ReceiveOps, CommandQueued, AfterFlushType, <1>0
    DEF Next, Batch, Closing, Dump, EndBatch, Tick, Flush, FlushFails, SyncNow, AfterSync,
        SyncFails, WriteSnapshot, SyncAndClose, Rename, SyncDir, Reopen, AfterRow, CloseFile, Kill,
        Restart, Up
  <2>2. Fsync \/ UNCHANGED <<stored, cached, alt>>
    BY <1>8, <2>1, HandlerMoves, ReceiveOps, CommandQueued, AfterFlushType, <1>0
    DEF Next, Batch, Closing, Dump, EndBatch, Tick, Flush, FlushFails, SyncNow, AfterSync,
        SyncFails, WriteSnapshot, SyncAndClose, Rename, SyncDir, Reopen, AfterRow, CloseFile, Kill,
        Restart, Up
  <2>. QED  BY <1>4, <1>5, <1>8, <2>1, <2>2
<1>9. CASE ~Up
  BY <1>0, <1>2, <1>3, <1>7, <1>9, OnlyRestarts DEF Up, vars
<1>. QED  BY <1>2, <1>6, <1>7, <1>8, <1>9 DEF vars, Up

LEMMA OrderedNext ==
    ASSUME FileKept, Base, OrderedBy(Seen), [Next]_vars
    PROVE  OrderedBy(Seen)'
<1>1. PICK M : M = Seen
  OBVIOUS
<1>2. OrderedBy(M) /\ Base'
  BY <1>1, BaseNext
<1>3. CASE ~Up \/ ~Up'
  BY <1>1, <1>2, <1>3, EndsOrder
<1>4. CASE Up /\ Up' /\ \E w \in Writers : Handler(w)
  BY <1>1, <1>2, <1>4, HandlerOrder
<1>5. CASE Up /\ Up' /\ \A w \in Writers : ~Handler(w)
  <2>1. OrderedBy(M)'
    BY <1>1, <1>2, <1>5, OthersOrder
  <2>2. Seen' = M
    <3>1. mem' = mem
      <4>1. ~Exit /\ ~Restart
        BY <1>5, ExitEnds DEF Restart
      <4>. QED  BY <1>5, <4>1, ReceiveOps, CommandQueued
                DEF Next, Batch, Dump, Closing, EndBatch, Tick, Flush, FlushFails, FlushTorn, SyncNow,
                    SyncFails, WriteSnapshot, SyncAndClose, Rename, SyncDir, Reopen, CloseFile, Kill,
                    PowerLoss, VacuumUnchanged, vars, memVars, Base
    <3>. QED  BY <1>1, <1>5, <3>1 DEF Seen
  <2>. QED  BY <2>1, <2>2
<1>. QED  BY <1>3, <1>4, <1>5

LEMMA OrderedFirst == Init => OrderedBy(Seen)
<1> SUFFICES ASSUME Init PROVE OrderedBy(Seen)
  OBVIOUS
<1>1. /\ stored = <<>> /\ cached = <<>> /\ buf = <<>> /\ queue = <<>> /\ alt \subseteq {<<>>}
      /\ ppc = "select"
  BY DEF Init
<1>. QED  BY <1>1, FollowsEmpty, RangeEmpty DEF OrderedBy, Closed

\* No crash leaves a hole in what a handler wrote (one channel, one writer, a snapshot
\* that overtakes the queue), for every policy, failure and crash but a failed reopen.
THEOREM CrashesLoseSuffixes == ASSUME FileKept PROVE Spec => []CrashLosesSuffix
<1>1. ASSUME Base, OrderedBy(Seen) PROVE CrashLosesSuffix
  <2> SUFFICES ASSUME Up, NEW h \in Survivors, NEW w \in Writers, NEW n \in 1..MaxWrites,
                      <<w, n>> \in Range(h), NEW m \in 1..n, <<w, m>> \in Range(mem)
               PROVE  <<w, m>> \in Range(h)
    BY DEF CrashLosesSuffix
  <2>1. PICK M : M = Range(mem)
    OBVIOUS
  <2>2. Closed(Range(h), M)
    BY <1>1, <2>1, SurvivorsClosed DEF Base, Seen
  <2>3. CASE m # n
    <3>1. m \in 1..(n - 1)
      BY <2>3
    <3>. QED  BY <2>1, <2>2, <3>1 DEF Closed, Older
  <2>. QED  BY <2>3
<1>2. Base /\ OrderedBy(Seen) => CrashLosesSuffix
  BY <1>1
<1>3. FileKept /\ Base /\ OrderedBy(Seen) /\ [Next]_vars => OrderedBy(Seen)'
  BY OrderedNext
<1>. QED  BY <1>2, <1>3, BaseAlways, OrderedFirst, PTL DEF Spec

--------------------------------------------------------------------------------
(* What everysec bounds.                                                          *)

\* The failures under which a tick's fsync covers all that was answered before it:
\* after a start, persist does not know of records that an earlier process left in the
\* page cache (AofRestartUnsynced), and a directory fsync must not fail in a vacuum
\* that covers records which a failed write left pending.
TicksTolerated ==
    /\ Tolerated /\ Policy = "everysec" /\ "kill" \notin Crashes
    /\ Faults \cap {"truncate", "fsync"} = {}
    /\ ~ {"write", "dirsync"} \subseteq Faults

Answered == acked \cap Range(mem)
Pending  == Range(buf) \cup QueuedOps

Ticked ==
    /\ waiters = {}
    /\ Up => /\ hole => ppc = "rename" /\ "presync" \in Faults
             /\ ppc \in {"snapshot", "presync"} \cup FileClosed => "write" \in Faults \/ buf = <<>>
             /\ ~unsynced => Safe(Answered \ Pending)
             /\ ppc = "rename" /\ "presync" \notin Faults => Safe(Answered \ Pending)
             /\ ppc = "dirsync" /\ renamed /\ "presync" \notin Faults => Safe(Answered \ Pending)
             /\ ppc = "reopen" /\ renamed => Safe(Answered \ QueuedOps)
    /\ ~Up => cached = <<>> /\ ~hole /\ \A h \in alt : Range(stored) \subseteq Range(h)

\* What was answered is in the file or pending, unless a crash took it.
LEMMA AnsweredKept ==
    ASSUME Base, Up
    PROVE  /\ Answered \subseteq OnFile \cup Pending
           /\ ppc \in {"presync", "rename"} => Answered \subseteq Range(tmp) \cup QueuedOps
           /\ renamed => Answered \subseteq Range(stored) \cup QueuedOps
<1>1. AppliedOps \cap acked = {}
  BY DEF Base, Fresh, Taken, AppliedOps
<1>. QED  BY <1>1 DEF Base, Kept, Coming, Answered, Pending

LEMMA TickedHandler ==
    ASSUME TicksTolerated, Base, Ticked, NEW w \in Writers, Handler(w)
    PROVE  Ticked'
<1>1. /\ UNCHANGED <<ppc, buf, waiters, unsynced, renamed, stored, cached, hole, alt>> /\ Up' /\ Up
      /\ TypeOK
  <2>1. wpc[w] # "idle" \/ Up
    BY HandlerMoves DEF Base
  <2>. QED  BY <2>1, HandlerMoves DEF loopVars, diskVars, Base, Process, Ended, NothingRuns
<1>2. Answered' \ Pending' \subseteq Answered \ Pending /\ Answered' \ QueuedOps' \subseteq Answered \ QueuedOps
  <2>1. CASE CheckWritable(w)
    BY <1>1, <2>1 DEF CheckWritable, Answered, Pending, QueuedOps
  <2>2. CASE ApplyInMemory(w)
    <3>1. CurrentOp(w) \notin acked /\ UNCHANGED <<acked, queue>>
          /\ Range(mem') = Range(mem) \cup {CurrentOp(w)}
      BY <1>1, <2>2, HandlerMoves DEF ApplyInMemory, CheckWritable, AppendAOF, Base, Fresh, Taken
    <3>. QED  BY <1>1, <3>1 DEF Answered, Pending, QueuedOps
  <2>3. CASE AppendAOF(w)
    <3>1. acked' \subseteq acked \cup {CurrentOp(w)} /\ QueuedOps' = QueuedOps \cup {CurrentOp(w)} /\ mem' = mem
      BY <1>1, <2>3, HandlerMoves DEF ApplyInMemory, CheckWritable, AppendAOF
    <3>. QED  BY <1>1, <3>1 DEF Answered, Pending
  <2>. QED  BY <2>1, <2>2, <2>3 DEF Handler
<1>. QED  BY <1>1, <1>2 DEF Ticked, Safe

LEMMA TickedOthers ==
    ASSUME TicksTolerated, Base, Base', Ticked, Up, Up', [Next]_vars, \A w \in Writers : ~Handler(w)
    PROVE  Ticked'
<1> USE DEF memVars, loopVars, diskVars
<1>0. /\ TypeOK /\ Present /\ Kept /\ ~Exit /\ ~Always /\ EntryFollowsFsync /\ FileKept
      /\ Answered \subseteq OnFile \cup Pending /\ buf \in Seq(Op)
      /\ (queue' = queue => QueuedOps' = QueuedOps)
  BY AnsweredKept, ExitEnds
  DEF Base, Process, TypeOK, TicksTolerated, Tolerated, Always, FileKept, QueuedOps
<1>1. ASSUME UNCHANGED <<mem, acked, waiters, unsynced, stored, cached, hole, alt>>, ppc # "rename",
             Pending' = Pending, ppc' \notin {"snapshot", "presync"} \cup FileClosed
      PROVE  Ticked'
  BY <1>0, <1>1 DEF Ticked, Safe, Answered, FileClosed
<1>2. CASE Receive
  <2>1. /\ UNCHANGED <<mem, acked, unsynced, renamed, stored, cached, hole, alt>> /\ open
        /\ ppc' \in {"batch", "full", "dump", "close"} /\ ppc \in {"select", "batch"}
        /\ QueuedOps = QueuedOps' \cup RowOps(Head(queue))
    BY <1>0, <1>2, ReceiveOps DEF Present, FileClosed
  <2>2. waiters' = waiters /\ Range(buf') = Range(buf) \cup RowOps(Head(queue))
    <3>1. CASE TakeRecord
      <4>1. /\ buf' = Append(buf, Head(queue).op) /\ Head(queue).op \in Op
            /\ RowOps(Head(queue)) = {Head(queue).op} /\ waiters' = waiters
        BY <1>0, <1>2, <2>1, <3>1, ReceiveOps DEF TakeRecord, TakeCommand
      <4>. QED  BY <1>0, <4>1, RangeAppend
    <3>2. CASE TakeCommand
      BY <1>0, <1>2, <3>2, ReceiveOps DEF TakeRecord, TakeCommand
    <3>. QED  BY <1>2, <3>1, <3>2 DEF Receive
  <2>3. Pending' = Pending
    BY <2>1, <2>2 DEF Pending
  <2>. QED  BY <1>1, <2>1, <2>2, <2>3 DEF FileClosed
<1>3. CASE Vacuum \/ CloseVacuum \/ CloseVacuumDone \/ StopPersist
  BY <1>0, <1>3, CommandQueued DEF Ticked, Safe, Answered, Pending
<1>4. CASE EndBatch \/ Tick
  <2>1. /\ UNCHANGED <<mem, acked, waiters, unsynced, stored, cached, hole, alt, buf, queue>>
        /\ ppc \in {"batch", "select"} /\ ppc' \in {"flush", "tick"}
    BY <1>4 DEF EndBatch, Tick
  <2>. QED  BY <1>0, <1>1, <2>1 DEF Pending, FileClosed
<1>5. CASE Flush
  <2>1. /\ UNCHANGED <<mem, acked, waiters, stored, hole, alt, renamed, queue>> /\ open /\ buf' = <<>>
        /\ ppc # "rename" /\ ppc' \in {"sync", "batch", "ticksync", "snapshot", "closesync"}
        /\ unsynced' \/ (unsynced' = unsynced /\ buf = <<>>)
    BY <1>0, <1>5, FlushMoves DEF Flush, NothingToFlush, FileClosed
  <2>2. buf = <<>> => Pending' = Pending
    BY <1>0, <2>1 DEF Pending
  <2>3. ~hole
    BY <2>1 DEF Ticked
  <2>. QED  BY <1>0, <2>1, <2>2, <2>3 DEF Ticked, Safe, Answered, FileClosed
<1>6. CASE FlushFails
  <2>1. /\ UNCHANGED <<mem, unsynced, stored, cached, hole, alt, buf, queue, renamed>>
        /\ ppc \in FlushSites /\ "write" \in Faults
        /\ ppc' \in {"batch", "snapshot", "stopped", "select"}
        /\ UNCHANGED <<waiters, acked>> \/ (waiters' = {} /\ acked' = acked \cup waiters)
    BY <1>0, <1>6, AfterFlushType
    DEF FlushFails, ExitOnFailedWrite, Refuse, Fault, ReleaseAt, Release
  <2>2. UNCHANGED <<waiters, acked>> /\ ~hole
    BY <2>1 DEF Ticked, FlushSites
  <2>. QED  BY <1>0, <2>1, <2>2 DEF Ticked, Safe, Answered, Pending, FileClosed
<1>7. CASE SyncNow
  <2>1. /\ UNCHANGED <<mem, hole, buf, queue, renamed>> /\ ppc \in SyncSites
        /\ ppc' \in {"stopped", "select"}
        /\ Fsync \/ UNCHANGED <<stored, cached, alt, unsynced>>
        /\ UNCHANGED <<waiters, acked>> \/ (waiters' = {} /\ acked' = acked \cup waiters)
    BY <1>7 DEF SyncNow, AfterSync, ReleaseAt, Release
  <2>2. UNCHANGED <<waiters, acked>> /\ ~hole
    BY <2>1 DEF Ticked, SyncSites
  <2>3. CASE Fsync
    <3>1. Range(stored') = OnFile /\ alt' = {}
      BY <1>0, <2>2, <2>3, FsyncMoves DEF Fsync
    <3>. QED  BY <1>0, <2>1, <2>2, <3>1 DEF Ticked, Safe, Answered, Pending, FileClosed
  <2>4. CASE UNCHANGED <<stored, cached, alt, unsynced>>
    BY <1>0, <2>1, <2>2, <2>4 DEF Ticked, Safe, Answered, Pending, FileClosed
  <2>. QED  BY <2>1, <2>3, <2>4
<1>8. CASE WriteSnapshot
  BY <1>0, <1>8
  DEF WriteSnapshot, AfterRow, VacuumUnchanged, Ticked, Safe, Answered, Pending, FileClosed
<1>9. CASE SyncAndClose
  <2>1. /\ UNCHANGED <<mem, acked, waiters, buf, queue, unsynced, renamed>>
        /\ ppc = "presync" /\ ppc' = "rename" /\ ~hole /\ ~renamed /\ open
        /\ \/ Fsync /\ hole' = hole
           \/ UNCHANGED <<stored, cached, alt>> /\ "presync" \in Faults
    BY <1>0, <1>9 DEF SyncAndClose, VacuumUnchanged, Ticked, Kept, Present, FileClosed, Fault
  <2>2. CASE Fsync /\ hole' = hole
    <3>1. Range(stored') = OnFile /\ alt' = {}
      BY <1>0, <2>1, <2>2, FsyncMoves DEF Fsync
    <3>. QED  BY <1>0, <2>1, <2>2, <3>1 DEF Ticked, Safe, Answered, Pending, FileClosed
  <2>3. CASE UNCHANGED <<stored, cached, alt>> /\ "presync" \in Faults
    BY <1>0, <2>1, <2>3 DEF Ticked, Safe, Answered, Pending, FileClosed
  <2>. QED  BY <2>1, <2>2, <2>3
<1>10. CASE Rename
  <2>1. /\ UNCHANGED <<mem, acked, waiters, buf, queue, unsynced>>
        /\ ppc = "rename" /\ ppc' = "dirsync"
        /\ \/ renamed' /\ stored' = tmp /\ ~hole' /\ alt' = Survivors
           \/ ~renamed' /\ UNCHANGED <<stored, cached, hole, alt>> /\ "presync" \notin Faults
    BY <1>10 DEF Rename, VacuumUnchanged, Fault, TicksTolerated, Tolerated
  <2>2. CASE renamed' /\ stored' = tmp /\ ~hole' /\ alt' = Survivors
    <3>1. Answered \ Pending \subseteq Range(stored')
      BY <2>1, <2>2, AnsweredKept DEF Pending
    <3>2. Safe(Answered \ Pending) => Safe(Answered \ Pending)'
      <4> SUFFICES ASSUME Safe(Answered \ Pending) PROVE Safe(Answered \ Pending)'
        OBVIOUS
      <4>1. \A h \in Survivors : Answered \ Pending \subseteq Range(h)
        BY <1>0, SafeSurvivors
      <4>2. Answered' = Answered /\ Pending' = Pending
        BY <1>0, <2>1 DEF Answered, Pending
      <4>. QED  BY <2>2, <3>1, <4>1, <4>2 DEF Safe
    <3>. QED  BY <1>0, <2>1, <2>2, <3>2 DEF Ticked, FileClosed
  <2>3. CASE ~renamed' /\ UNCHANGED <<stored, cached, hole, alt>> /\ "presync" \notin Faults
    BY <1>0, <2>1, <2>3 DEF Ticked, Safe, Answered, Pending, FileClosed
  <2>. QED  BY <2>1, <2>2, <2>3
<1>11. CASE SyncDir
  <2>1. /\ UNCHANGED <<mem, acked, waiters, buf, queue, unsynced, renamed, stored, cached, hole>>
        /\ ppc = "dirsync" /\ ppc' = "reopen" /\ ~hole
        /\ alt' = {} \/ (alt' = alt /\ "dirsync" \in Faults)
    BY <1>11 DEF SyncDir, VacuumUnchanged, Ticked, Fault
  <2>2. "dirsync" \in Faults => "presync" \notin Faults /\ buf = <<>>
    BY <2>1 DEF Ticked, TicksTolerated, Tolerated, FileClosed
  <2>3. renamed => Safe(Answered \ QueuedOps)'
    <3>1. renamed => Answered \ QueuedOps \subseteq Range(stored)
      BY AnsweredKept
    <3>2. CASE alt' = {}
      BY <1>0, <2>1, <3>1, <3>2 DEF Safe, Answered
    <3>3. CASE alt' = alt /\ "dirsync" \in Faults
      <4>1. Pending = QueuedOps
        BY <2>2, <3>3, RangeEmpty DEF Pending
      <4>. QED  BY <1>0, <2>1, <2>2, <3>3, <4>1 DEF Ticked, Safe, Answered
    <3>. QED  BY <2>1, <3>2, <3>3
  <2>4. ~unsynced' => Safe(Answered \ Pending)'
    BY <1>0, <2>1 DEF Ticked, Safe, Answered, Pending
  <2>. QED  BY <2>1, <2>3, <2>4 DEF Ticked, FileClosed
<1>12. CASE Reopen
  <2>1. /\ UNCHANGED <<mem, acked, waiters, queue, stored, cached, hole, alt>>
        /\ ppc = "reopen" /\ ppc' \in {"batch", "full"} /\ ~hole
        /\ IF renamed THEN buf' = <<>> ELSE UNCHANGED <<buf, unsynced>>
    BY <1>0, <1>12
    DEF Reopen, VacuumUnchanged, Ticked, Fault, FileKept, AfterDump, Covered, AfterRow
  <2>2. CASE renamed
    <3>1. Pending' = QueuedOps'
      BY <2>1, <2>2, RangeEmpty DEF Pending
    <3>. QED  BY <1>0, <2>1, <2>2, <3>1 DEF Ticked, Safe, Answered, FileClosed
  <2>3. CASE ~renamed
    BY <1>0, <2>1, <2>3 DEF Ticked, Safe, Answered, Pending, FileClosed
  <2>. QED  BY <2>2, <2>3
<1>13. ~ (FlushTorn \/ SyncFails \/ CloseFile \/ Kill \/ PowerLoss \/ Restart)
  BY <1>0 DEF FlushTorn, SyncFails, CloseFile, Kill, PowerLoss, Restart
<1>14. CASE UNCHANGED vars
  BY <1>0, <1>14 DEF vars, Ticked, Safe, Answered, Pending
<1>. QED  BY <1>2, <1>3, <1>4, <1>5, <1>6, <1>7, <1>8, <1>9, <1>10, <1>11, <1>12, <1>13, <1>14
          DEF Next, Batch, Dump, Closing

LEMMA TickedEnds ==
    ASSUME TicksTolerated, Base, Base', Ticked, ~Up \/ ~Up', [Next]_vars
    PROVE  Ticked'
<1> USE DEF memVars, loopVars, diskVars
<1>0. TypeOK /\ TypeOK' /\ Process /\ EntryFollowsFsync /\ ~Always
  BY DEF Base, TicksTolerated, Tolerated, Always
<1>1. CASE PowerLoss
  <2>1. ~Up' /\ waiters' = {} /\ cached' = <<>> /\ ~hole'
    BY <1>1, ExitEnds DEF PowerLoss, Exit
  <2>2. \A h \in alt' : Range(stored') \subseteq Range(h)
    BY <1>1 DEF PowerLoss
  <2>. QED  BY <2>1, <2>2 DEF Ticked
<1>2. CASE CloseFile
  <2>1. Up /\ open /\ ~hole
    BY <1>2 DEF CloseFile, Base, Process, Present, FileClosed, Ticked, Up
  <2>2. Fsync /\ hole' = hole /\ Exit
    BY <1>2, <2>1 DEF CloseFile, Fault, TicksTolerated
  <2>3. cached' = <<>> /\ alt' = {} /\ waiters' = {} /\ ~Up'
    BY <1>0, <2>1, <2>2, ExitEnds DEF Fsync, Exit
  <2>. QED  BY <2>1, <2>2, <2>3 DEF Ticked
<1>3. CASE ~Up /\ Restart
  <2>1. /\ ~hole /\ cached = <<>> /\ waiters' = {} /\ Up' /\ ppc' = "select" /\ ~hole'
        /\ mem' = stored' \o cached' /\ (Fsync \/ UNCHANGED <<stored, cached, alt>>)
    BY <1>3 DEF Ticked, Restart, ReplayedFile, Up
  <2>2. cached' = <<>> /\ Range(stored') = Range(stored) /\ alt' \subseteq alt
    <3>1. CASE Fsync
      BY <1>0, <2>1, <3>1, FsyncMoves, RangeEmpty DEF Fsync, OnFile
    <3>. QED  BY <2>1, <3>1
  <2>3. Range(mem') = Range(stored')
    <3>1. stored' \in Seq(Op) /\ stored' \o cached' = stored'
      BY <1>0, <2>2, ConcatEmptySeq DEF TypeOK
    <3>. QED  BY <2>1, <3>1
  <2>4. Safe(Answered \ Pending)'
    BY <1>3, <2>2, <2>3 DEF Ticked, Safe, Answered
  <2>. QED  BY <2>1, <2>2, <2>4 DEF Ticked, FileClosed
<1>4. CASE UNCHANGED vars
  BY <1>4 DEF vars, Ticked, Safe, Answered, Pending, QueuedOps, Up
<1>5. ~FlushTorn /\ ~Kill /\ ~SyncFails
  BY DEF FlushTorn, Kill, SyncFails, Fault, TicksTolerated
<1>6. CASE Up /\ ~PowerLoss /\ ~CloseFile /\ ~ UNCHANGED vars
  BY <1>0, <1>5, <1>6, HandlerMoves, ReceiveOps, CommandQueued, AfterFlushType
  DEF Next, Batch, Closing, Dump, EndBatch, Tick, Flush, FlushFails, ExitOnFailedWrite, SyncNow,
      AfterSync, WriteSnapshot, SyncAndClose, Rename, SyncDir, Reopen, AfterRow, Restart, Up
<1>. QED  BY <1>0, <1>1, <1>2, <1>3, <1>4, <1>6, OnlyRestarts

LEMMA TickedNext == ASSUME TicksTolerated PROVE Base /\ Ticked /\ [Next]_vars => Ticked'
<1> SUFFICES ASSUME Base, Ticked, [Next]_vars PROVE Ticked'
  OBVIOUS
<1>1. Base'
  BY BaseNext DEF TicksTolerated, Tolerated, FileKept
<1>. QED  BY <1>1, TickedHandler, TickedOthers, TickedEnds

LEMMA TickedFirst == Init => Ticked
<1> SUFFICES ASSUME Init PROVE Ticked
  OBVIOUS
<1>1. waiters = {} /\ ~hole /\ ppc = "select" /\ acked = {} /\ alt \subseteq {<<>>}
  BY DEF Init
<1>. QED  BY <1>1 DEF Ticked, Up, Safe, Answered, FileClosed

\* everysec bounds what a power loss takes to what came after the last tick: when the
\* tick's fsync returns, every operation that was answered and has left the queue is
\* durable (persist's ticker case, syncNow, doEraseAndDump).
THEOREM TicksMakeDurable == ASSUME TicksTolerated PROVE Spec => TickMakesDurable
<1>1. ASSUME Base, Ticked, [Next]_vars, ppc = "ticksync", ppc' = "select", NEW h \in Survivors'
      PROVE  acked \cap Range(mem) \subseteq Range(h) \cup QueuedOps
  <2>1. /\ TypeOK /\ Present /\ open /\ buf = <<>> /\ ~hole /\ Up /\ EntryFollowsFsync
        /\ Answered \subseteq OnFile \cup Pending
    BY <1>1, AnsweredKept
    DEF Base, Process, Present, FileClosed, SyncSites, Ticked, Up, TicksTolerated, Tolerated
  <2>2. SyncNow
    <3>1. ~ (\E w \in Writers : Handler(w)) /\ ~ (Vacuum \/ CloseVacuum \/ CloseVacuumDone \/ StopPersist)
      BY <1>1, <2>1, HandlerMoves, CommandQueued
    <3>2. ~Receive /\ ~EndBatch /\ ~Tick /\ ~Dump /\ ~SyncFails /\ ~CloseFile
      BY <1>1, <2>1, ReceiveOps
      DEF EndBatch, Tick, Dump, WriteSnapshot, SyncAndClose, Rename, SyncDir, Reopen, SyncFails,
          CloseFile, Exit
    <3>3. ~Flush /\ ~FlushFails /\ ~FlushTorn
      BY <1>1 DEF Flush, FlushFails, FlushTorn, FlushSites
    <3>4. ~Kill /\ ~PowerLoss /\ ~Restart /\ ~ UNCHANGED vars
      BY <1>1, <2>1 DEF Kill, PowerLoss, Exit, Restart, vars
    <3>. QED  BY <1>1, <3>1, <3>2, <3>3, <3>4 DEF Next, Batch, Closing
  <2>3. Pending = QueuedOps
    BY <2>1, RangeEmpty DEF Pending
  <2>4. CASE ~unsynced
    <3>1. Survivors' = Survivors
      BY <2>2, <2>4 DEF SyncNow, Survivors
    <3>2. Safe(Answered \ Pending)
      BY <1>1, <2>1, <2>4 DEF Ticked
    <3>. QED  BY <1>1, <2>1, <2>3, <3>1, <3>2, SafeSurvivors DEF Answered
  <2>5. CASE unsynced
    <3>1. SyncWanted(ppc)
      BY <1>1 DEF SyncWanted, TicksTolerated
    <3>2. Fsync
      BY <2>1, <2>2, <2>5, <3>1 DEF SyncNow
    <3>3. cached' = <<>> /\ Range(stored') = OnFile /\ alt' = {} /\ stored' \in Seq(Op)
      BY <2>1, <3>2, FsyncMoves, FsyncType DEF Fsync
    <3>4. h = stored'
      <4>1. PICK i \in 0..(IF hole' THEN 0 ELSE Len(cached')) : h = stored' \o SubSeq(cached', 1, i)
        BY <1>1, <3>3 DEF Survivors
      <4>2. i = 0
        BY <3>3, <4>1, EmptySeq
      <4>3. SubSeq(<<>>, 1, 0) = <<>>
        BY SubSeqEmpty, EmptySeq
      <4>. QED  BY <3>3, <4>1, <4>2, <4>3, ConcatEmptySeq
    <3>. QED  BY <2>1, <2>3, <3>3, <3>4 DEF Answered
  <2>. QED  BY <2>4, <2>5
<1>2. Base /\ Ticked /\ [Next]_vars =>
        [(ppc = "ticksync" /\ ppc' = "select")
          => \A h \in Survivors' : acked \cap Range(mem) \subseteq Range(h) \cup QueuedOps]_vars
  BY <1>1
<1>3. FileKept
  BY DEF TicksTolerated, Tolerated, FileKept
<1>4. Spec => []Base
  BY <1>3, BaseAlways
<1>. QED  BY <1>2, <1>4, TickedFirst, TickedNext, PTL DEF Spec, TickMakesDurable
================================================================================

------------------------------- MODULE FileStore -------------------------------
(* The store of a node's Raft log, term and vote (internal/cluster/filestore.go): *)
(* a checkpoint file replaced by rename, and a write-ahead log appended to after  *)
(* it.  Every operation holds the store's mutex from start to end, so operations  *)
(* do not interleave with one another; crashes and failures fall between the      *)
(* steps of one.                                                                  *)
(*                                                                                *)
(* The logs and the stable keys are one function from Item to Value.  The bounds  *)
(* lowIndex and highIndex are recomputed after every change, so they are operators. *)
EXTENDS Integers, Sequences, FiniteSetsExt

CONSTANTS
    MaxIndex,       \* bound: log indexes 1..MaxIndex
    Keys,           \* stable keys: CurrentTerm, LastVoteTerm, LastVoteCand
    Values,         \* terms of logs and values of keys
    None,
    LazySync,       \* raft.fsync: everysec
    Faults, MaxFaults,      \* failures the environment may inject, and how many
    Crashes, MaxCrashes,    \* "kill" and "power", and how many
    MaxOps                  \* bound: operations Raft asks for

FaultKinds == {"write", "shortwrite", "fsync", "fsynclost", "checkpoint",
               "rename", "dirsync"}

ASSUME StoreConstantsOK ==
    /\ MaxIndex \in Nat \ {0} /\ None \notin Values
    /\ LazySync \in BOOLEAN
    /\ Faults \subseteq FaultKinds /\ Crashes \subseteq {"kill", "power"}
    /\ MaxFaults \in Nat /\ MaxCrashes \in Nat /\ MaxOps \in Nat

VARIABLES
    (* Memory. *)
    mem,        \* s.logs and s.kv, s.kvInt
    walOpen,    \* s.walFile # nil
    dirty,      \* s.dirty
    pc,         \* the step the operation under way is at; "dead" when none can be
    op,         \* the operation under way: what it puts, whether it must be durable,
                \* and Raft's last index once it has succeeded
    raftLast,   \* the last index in Raft's own copy of its log state
    (* Disk. *)
    chk,        \* the checkpoint
    wal,        \* the records of the WAL: ok when they parse, and where they are
    torn,       \* whether a partial record follows
    chkAlt,     \* checkpoints a power loss may bring back
    walAlt,     \* WALs a power loss may bring back
    (* Ghosts and bounds. *)
    may,        \* what each item may hold after a crash, as far as Raft was told
    sure,       \* items whose last put this process has answered without an error
    nops, nfault, ncrash

memVars  == <<mem, raftLast>>
diskVars == <<chk, wal, torn, chkAlt, walAlt>>
vars == <<memVars, walOpen, dirty, pc, op, diskVars, may, sure, nops, nfault, ncrash>>

Index == 1..MaxIndex
Item  == Index \cup Keys
Value == Values \cup {None}

ASSUME KeysAreNoIndexes == Keys \cap Index = {}

Absent == [x \in Item |-> None]

Alive == pc # "dead"
Fault(k) == k \in Faults /\ nfault < MaxFaults /\ nfault' = nfault + 1
NoFault  == UNCHANGED nfault

\* recomputeBoundsLocked: 0 and 0 when there is no log.
Logs(m)      == {i \in Index : m[i] # None}
LastIndex(m) == IF Logs(m) = {} THEN 0 ELSE Max(Logs(m))

\* loadSnapshotLocked and replayWALLocked: the last record that names an item wins,
\* and the checkpoint holds what no record names.
LoadCheckpointLast(c, w) ==  \* mutant: the WAL is replayed before the checkpoint
    [x \in Item |->
        LET at == {i \in DOMAIN w : w[i].ok /\ x \in DOMAIN w[i].puts}
        IN IF c[x] # None \/ at = {} THEN c[x] ELSE w[Max(at)].puts[x]]
Load(c, w) ==
    [x \in Item |->
        LET at == {i \in DOMAIN w : w[i].ok /\ x \in DOMAIN w[i].puts}
        IN IF at = {} THEN c[x] ELSE w[Max(at)].puts[x]]

\* A bad record is dropped if nothing follows it, and an error anywhere else.
Loadable(w, t) == \A i \in DOMAIN w : ~w[i].ok => i = Len(w) /\ ~t

\* What a power loss leaves of a WAL: all that was fsynced and a prefix of the
\* rest, where the pages that a failed fsync dropped hold nothing that parses.
AfterPowerLoss(w) ==
    {[i \in 1..n |-> [w[i] EXCEPT !.ok = @ /\ w[i].at # "lost", !.at = "stored"]] :
        n \in {m \in 0..Len(w) : \A i \in (m + 1)..Len(w) : w[i].at # "stored"}}

Images == ({chk} \cup chkAlt) \X (AfterPowerLoss(wal) \cup walAlt)

--------------------------------------------------------------------------------
Idle == [puts |-> <<>>, durable |-> FALSE, last |-> 0]

Init ==
    /\ mem = Absent /\ walOpen = FALSE /\ dirty = FALSE
    /\ pc = "idle" /\ op = Idle /\ raftLast = 0
    /\ chk = Absent /\ wal = <<>> /\ torn = FALSE /\ chkAlt = {} /\ walAlt = {}
    /\ may = [x \in Item |-> {None}] /\ sure = {}
    /\ nops = 0 /\ nfault = 0 /\ ncrash = 0

(* What Raft asks for.  The change is made in memory before anything is written. *)

Begin(puts, durable, last, step) ==
    /\ pc = "idle" /\ nops < MaxOps
    /\ nops' = nops + 1
    /\ mem' = [x \in Item |-> IF x \in DOMAIN puts THEN puts[x] ELSE mem[x]]
    /\ op' = [puts |-> puts, durable |-> durable, last |-> last]
    /\ pc' = step
    /\ may' = [x \in Item |-> IF x \in DOMAIN puts THEN may[x] \cup {puts[x]} ELSE may[x]]
    /\ sure' = sure \ DOMAIN puts
    /\ UNCHANGED <<raftLast, dirty, diskVars, nfault, ncrash>>

\* Raft appends after the last log it knows of.
StoreLogs ==
    /\ \E hi \in (raftLast + 1)..MaxIndex, t \in Values :
           Begin([i \in (raftLast + 1)..hi |-> t], FALSE, hi, "append")
    /\ UNCHANGED walOpen

\* Set and SetUint64.
SetKey ==
    /\ \E k \in Keys, v \in Values : Begin([x \in {k} |-> v], TRUE, raftLast, "append")
    /\ UNCHANGED walOpen

\* DeleteRange(lo, hi): Raft drops the first logs, which a snapshot covers (it keeps
\* the 10240 that trail it), or the last ones, which conflict with the leader's.
\* compactLocked closes the WAL before it writes the checkpoint.
BeginDelete ==
    \E lo \in Logs(mem) : \E hi \in lo..raftLast :
        /\ hi = raftLast \/ lo = Min(Logs(mem))
        /\ Begin([i \in lo..hi |-> None], TRUE,
                 IF hi = raftLast THEN lo - 1 ELSE raftLast, "checkpoint")
DeleteRangeKeepsOpen == BeginDelete /\ UNCHANGED walOpen  \* mutant: appends go on in the old file
DeleteRange == BeginDelete /\ walOpen' = FALSE

--------------------------------------------------------------------------------
(* appendWALLocked.                                                               *)

\* An operation returns: with an error Raft keeps its own view of the log.
Return ==
    /\ pc' = "idle" /\ op' = Idle
    /\ UNCHANGED <<mem, nops, ncrash>>
Succeed == Return /\ raftLast' = op.last
FailUnnoticed == Succeed /\ UNCHANGED <<may, sure>>  \* mutant: the error is dropped
Fail == Return /\ UNCHANGED <<raftLast, may, sure>>

\* An fsync of the WAL settles what was answered, a checkpoint all of memory.
Settle(S) == may' = [x \in Item |-> IF x \in S THEN {mem[x]} ELSE may[x]]

\* Raft takes an answer without an error for durable, but for log appends under
\* everysec.
Owed == op.durable \/ ~LazySync
Answer == /\ sure' = sure \cup DOMAIN op.puts
          /\ IF Owed THEN Settle(DOMAIN op.puts) ELSE UNCHANGED may

\* The file is opened, perhaps created, and its directory fsynced.
OpenWAL ==
    /\ pc = "append" /\ ~walOpen
    /\ \/ /\ NoFault
          /\ walOpen' = TRUE /\ chkAlt' = {} /\ walAlt' = {}
          /\ UNCHANGED <<memVars, pc, op, may, sure, nops, ncrash>>
       \/ Fault("dirsync") /\ Fail /\ UNCHANGED <<walOpen, chkAlt, walAlt>>
    /\ UNCHANGED <<dirty, chk, wal, torn>>

\* A write that failed part of the way is not cut off the file.
WriteFails ==
    \E k \in {"write", "shortwrite"} : Fault(k) /\ torn' = (torn \/ k = "shortwrite")

\* Whether the record is fsynced before the operation returns.
MustSyncLogsOnly == ~LazySync  \* mutant: everysec defers the fsync of term and vote
MustSync == op.durable \/ ~LazySync

\* A record that follows a partial one is read as one bad line.
Write ==
    /\ pc = "append" /\ walOpen
    /\ \/ /\ NoFault
          /\ wal' = Append(wal, [puts |-> op.puts, ok |-> ~torn, at |-> "cached"])
          /\ torn' = FALSE
          /\ IF MustSync
             THEN /\ pc' = "sync"
                  /\ UNCHANGED <<memVars, op, dirty, may, sure, nops, ncrash>>
             ELSE /\ Succeed
                  /\ Answer
                  /\ dirty' = TRUE
       \/ WriteFails /\ Fail /\ UNCHANGED <<wal, dirty>>
    /\ UNCHANGED <<walOpen, chk, chkAlt, walAlt>>

Stored(w) == [i \in DOMAIN w |-> IF w[i].at = "cached" THEN [w[i] EXCEPT !.at = "stored"] ELSE w[i]]
Lost(w)   == [i \in DOMAIN w |-> IF w[i].at = "cached" THEN [w[i] EXCEPT !.at = "lost"] ELSE w[i]]

\* A failed fsync leaves the pages to be written later, or drops them.
FsyncFails ==
    \E k \in {"fsync", "fsynclost"} :
        Fault(k) /\ wal' = IF k = "fsynclost" THEN Lost(wal) ELSE wal

SyncWAL ==
    /\ pc = "sync"
    /\ \/ /\ NoFault
          /\ wal' = Stored(wal) /\ dirty' = FALSE
          /\ Succeed
          /\ sure' = sure \cup DOMAIN op.puts /\ Settle(sure')
       \/ FsyncFails /\ Fail /\ UNCHANGED dirty
    /\ UNCHANGED <<walOpen, chk, torn, chkAlt, walAlt>>

--------------------------------------------------------------------------------
(* compactLocked.                                                                 *)

\* atomicWriteJSON up to its rename: all of memory, fsynced before the rename.
WriteCheckpoint ==
    /\ pc = "checkpoint"
    /\ \/ /\ NoFault
          /\ chk' = mem /\ chkAlt' = chkAlt \cup {chk}
          /\ pc' = "checkpointdir"
          /\ UNCHANGED <<memVars, op, may, sure, nops, ncrash>>
       \/ Fault("checkpoint") /\ Fail /\ UNCHANGED <<chk, chkAlt>>
    /\ UNCHANGED <<walOpen, dirty, wal, torn, walAlt>>

SyncCheckpointDirNot ==  \* mutant: the rename of the checkpoint is not fsynced
    /\ pc = "checkpointdir" /\ pc' = "truncate"
    /\ UNCHANGED <<memVars, op, may, sure, nops, ncrash, nfault, walOpen, dirty, diskVars>>
SyncCheckpointDir ==
    /\ pc = "checkpointdir"
    /\ \/ /\ NoFault
          /\ chkAlt' = {} /\ walAlt' = {}
          /\ pc' = "truncate"
          /\ UNCHANGED <<memVars, op, may, sure, nops, ncrash>>
       \/ Fault("dirsync") /\ Fail /\ UNCHANGED <<chkAlt, walAlt>>
    /\ UNCHANGED <<walOpen, dirty, chk, wal, torn>>

\* The WAL is replaced by an empty file, again by rename.
TruncateWAL ==
    /\ pc = "truncate"
    /\ \/ /\ NoFault
          /\ wal' = <<>> /\ torn' = FALSE /\ walAlt' = walAlt \cup AfterPowerLoss(wal)
          /\ pc' = "waldir"
          /\ UNCHANGED <<memVars, op, may, sure, nops, ncrash>>
       \/ Fault("rename") /\ Fail /\ UNCHANGED <<wal, torn, walAlt>>
    /\ UNCHANGED <<walOpen, dirty, chk, chkAlt>>

SyncWALDir ==
    /\ pc = "waldir"
    /\ \/ /\ NoFault
          /\ chkAlt' = {} /\ walAlt' = {} /\ dirty' = FALSE
          /\ Succeed
          /\ sure' = Item /\ Settle(sure')
       \/ Fault("dirsync") /\ Fail /\ UNCHANGED <<chkAlt, walAlt, dirty>>
    /\ UNCHANGED <<walOpen, chk, wal, torn>>

--------------------------------------------------------------------------------
(* The background loop, Close and restarts.                                       *)

\* syncIfDirty: an error is logged and the next tick tries again.
SyncIfDirtyOnce ==  \* mutant: a failed fsync is not tried again
    /\ LazySync /\ pc = "idle" /\ dirty /\ walOpen
    /\ \/ NoFault /\ wal' = Stored(wal) /\ Settle(sure)
       \/ FsyncFails /\ UNCHANGED may
    /\ dirty' = FALSE
    /\ UNCHANGED <<memVars, sure, walOpen, pc, op, chk, torn, chkAlt, walAlt, nops, ncrash>>
SyncIfDirty ==
    /\ LazySync /\ pc = "idle" /\ dirty /\ walOpen
    /\ \/ NoFault /\ wal' = Stored(wal) /\ dirty' = FALSE /\ Settle(sure)
       \/ FsyncFails /\ UNCHANGED <<dirty, may>>
    /\ UNCHANGED <<memVars, sure, walOpen, pc, op, chk, torn, chkAlt, walAlt, nops, ncrash>>

\* The process is gone, and memory with it.
Stop ==
    /\ pc' = "dead" /\ op' = Idle /\ mem' = Absent /\ raftLast' = 0
    /\ walOpen' = FALSE /\ dirty' = FALSE /\ sure' = {}

\* Close fsyncs what is pending if the WAL is open.
CloseUnsynced ==  \* mutant: Close only closes
    /\ pc = "idle" /\ Stop
    /\ UNCHANGED <<diskVars, may, nops, ncrash, nfault>>
Close ==
    /\ pc = "idle"
    /\ IF walOpen /\ dirty
       THEN \/ NoFault /\ wal' = Stored(wal) /\ Settle(sure)
            \/ FsyncFails /\ UNCHANGED may
       ELSE NoFault /\ UNCHANGED <<wal, may>>
    /\ Stop
    /\ UNCHANGED <<chk, torn, chkAlt, walAlt, nops, ncrash>>

\* kill -9, or a panic of Raft: the files stay as they are, but for a record being
\* written.
Kill ==
    /\ Alive /\ "kill" \in Crashes /\ ncrash < MaxCrashes
    /\ ncrash' = ncrash + 1
    /\ torn' \in IF pc = "append" /\ walOpen THEN {torn, TRUE} ELSE {torn}
    /\ Stop
    /\ UNCHANGED <<chk, wal, chkAlt, walAlt, may, nops, nfault>>

PowerLoss ==
    /\ "power" \in Crashes /\ ncrash < MaxCrashes
    /\ ncrash' = ncrash + 1
    /\ \E img \in Images : chk' = img[1] /\ wal' = img[2]
    /\ torn' \in {FALSE, \A i \in DOMAIN wal' : wal'[i].ok}
    /\ chkAlt' = {} /\ walAlt' = {}
    /\ Stop
    /\ UNCHANGED <<may, nops, nfault>>

\* load.  A last record that is partial or does not parse is cut off and the WAL
\* fsynced.  A WAL that does not load keeps the node down.
CutTail(w) == IF w # <<>> /\ ~w[Len(w)].ok THEN SubSeq(w, 1, Len(w) - 1) ELSE w

Restart ==
    /\ ~Alive /\ Loadable(wal, torn)
    /\ wal' = IF torn \/ CutTail(wal) # wal THEN Stored(CutTail(wal)) ELSE wal
    /\ torn' = FALSE
    /\ mem' = Load(chk, wal) /\ raftLast' = LastIndex(mem')
    /\ pc' = "idle"
    /\ UNCHANGED <<walOpen, dirty, op, chk, chkAlt, walAlt, sure, nops, nfault, ncrash>>
    /\ may' = [x \in Item |-> {Load(img[1], img[2])[x] : img \in Images'} \cup {mem'[x]}]

--------------------------------------------------------------------------------
Ask    == StoreLogs \/ SetKey \/ DeleteRange
AppendStep == OpenWAL \/ Write \/ SyncWAL
Compact == WriteCheckpoint \/ SyncCheckpointDir \/ TruncateWAL \/ SyncWALDir
Next == Ask \/ AppendStep \/ Compact \/ SyncIfDirty \/ Close \/ Kill \/ PowerLoss \/ Restart

Spec == Init /\ [][Next]_vars

--------------------------------------------------------------------------------
(* Properties.                                                                    *)

Puts == UNION {[S -> Value] : S \in SUBSET Item}
Record == [puts : Puts, ok : BOOLEAN, at : {"cached", "stored", "lost"}]

MemoryTypes ==
    /\ mem \in [Item -> Value] /\ walOpen \in BOOLEAN /\ dirty \in BOOLEAN
    /\ pc \in {"idle", "append", "sync", "checkpoint", "checkpointdir", "truncate",
               "waldir", "dead"}
    /\ raftLast \in 0..MaxIndex /\ op \in [puts : Puts, durable : BOOLEAN, last : 0..MaxIndex]
    /\ pc = "sync" => walOpen
    /\ pc \in {"checkpoint", "checkpointdir", "truncate", "waldir"} => ~walOpen
DiskTypes ==
    /\ chk \in [Item -> Value] /\ wal \in Seq(Record) /\ torn \in BOOLEAN
    /\ chkAlt \subseteq [Item -> Value] /\ walAlt \subseteq Seq(Record)
GhostTypes ==
    /\ may \in [Item -> SUBSET Value] /\ sure \subseteq Item
    /\ nops \in 0..MaxOps /\ nfault \in 0..MaxFaults /\ ncrash \in 0..MaxCrashes
TypeOK == MemoryTypes /\ DiskTypes /\ GhostTypes

\* filestore.go:271, "Raft treats a stored term or vote as durable once this
\* returns", and logs too unless raft.fsync is everysec: whatever a power loss leaves
\* of the files, at any step of any operation, can be loaded, and what it loads is
\* the last value that was answered for, or one put since.
SurvivesCrash ==
    \A img \in Images :
        /\ Loadable(img[2], FALSE)
        /\ \A x \in Item : Load(img[1], img[2])[x] \in may[x]

\* Raft reads every index between its first and its last log when it starts, and
\* NewRaft panics at a gap.  While memory is the log that Raft knows, no append, fsync,
\* failure or crash opens one in what a start may load; only the two file
\* replacements of a DeleteRange can.
NoGap(m) == \A i, j \in Logs(m) : \A k \in i..j : k \in Logs(m)
LoadsWithoutGap ==
    \A img \in Images : Loadable(img[2], FALSE) => NoGap(Load(img[1], img[2]))

\* Memory has no gap, no log of an append that failed, which Raft was not told of
\* (filestore.go:510), and whatever a start may load, of which a DeleteRange that
\* failed has dropped some (filestore.go:290).
KnowsLog ==
    /\ NoGap(mem)
    /\ \A i \in Logs(mem) : i <= raftLast \/ i <= op.last
    /\ \A img \in Images : Logs(Load(img[1], img[2])) \subseteq Logs(mem)
OnlyDeleteOpensGap ==
    [][LoadsWithoutGap /\ (Alive => KnowsLog) /\ pc \notin {"checkpoint", "truncate"}
          => LoadsWithoutGap']_vars

\* filestore.go:510: memory without a gap is not enough.  It may have logs that are in
\* no file, or lack logs that are, and an append then goes where the files have a gap.
GaplessIsEnough ==
    [][LoadsWithoutGap /\ NoGap(mem) /\ pc \notin {"checkpoint", "truncate"}
          => LoadsWithoutGap']_vars

\* filestore.go:413, "The data is fsynced before the rename and the rename before
\* returning, so the WAL can be truncated after it": a crash between the two leaves
\* no gap either.
DeleteLeavesNoGap == LoadsWithoutGap

\* What a start has read, and Raft acts upon, no later power loss takes back.
LoadedIsDurable ==
    [][pc = "dead" /\ pc' = "idle"
          => \A img \in Images' : Load(img[1], img[2]) = mem']_vars

\* Close leaves nothing that was answered to the page cache (unless its own fsync
\* fails).
CloseKeeps ==
    [][(pc = "idle" /\ pc' = "dead" /\ UNCHANGED <<ncrash, nfault>>)
          => \A img \in Images', x \in sure : Load(img[1], img[2])[x] = mem[x]]_vars

\* The store implements the registers Raft asks for.
Registers == INSTANCE StableStore WITH up <- Alive, value <- mem
Implements == Registers!Spec

(* The ticker fires again and again, and an operation that has started returns.   *)
FairSpec == Spec /\ WF_vars(SyncIfDirty) /\ WF_vars(AppendStep) /\ WF_vars(Compact)

\* filestore.go:34, under everysec "a background loop fsyncs them within a second":
\* what was answered and is only in the page cache does not stay there, unless the
\* process dies.
Pending == \E img \in Images, x \in sure : Load(img[1], img[2])[x] # mem[x]
PendingSynced == Pending ~> ~Pending
================================================================================

------------------------------- MODULE PeerQueue -------------------------------
(* The queue of writes for one peer (internal/peers/sync.go, workerState): writers *)
(* append to it in memory and to a WAL, under db.fsync always they share fsyncs of *)
(* it, a worker sends batches to the peer and appends acks, and a checkpoint       *)
(* rewrites the WAL from memory.  w.mu is held from the action that takes it until *)
(* the call returns; syncTo lets go of it around its fsync.                        *)
(*                                                                                 *)
(* Writes are numbered as they are queued.  What the peer does with them, and what *)
(* it rejects, is not this module's: a batch is taken from its start, and an answer *)
(* may be lost.                                                                    *)
EXTENDS Integers, Sequences, Functions

CONSTANTS
    Writers,            \* request handlers in dispatch
    MaxOps,             \* bound: writes queued in a behaviour
    Policy,             \* db.fsync: "always", "everysec" or "no"
    CheckpointEvery,    \* walCheckpointEvery (512 in the code)
    MaxBatch,           \* maxBatchOps (256 in the code)
    Faults, MaxFaults,      \* failures the environment may inject, and how many
    Crashes, MaxCrashes     \* "kill", "power", "tear" (a power loss that may leave
                            \* part of a record), and how many

FaultKinds == {"open", "write", "shortwrite", "fsync", "checkpoint", "dirsync"}

ASSUME QueueConstantsOK ==
    /\ Writers \cap {"loop", "run"} = {}
    /\ MaxOps \in Nat /\ CheckpointEvery \in Nat \ {0} /\ MaxBatch \in Nat \ {0}
    /\ Policy \in {"always", "everysec", "no"}
    /\ Faults \subseteq FaultKinds /\ Crashes \subseteq {"kill", "power", "tear"}
    /\ MaxFaults \in Nat /\ MaxCrashes \in Nat

VARIABLES
    (* The worker's memory. *)
    pending,    \* w.pending
    open,       \* w.walFile # nil
    writes,     \* w.writes
    needCkpt,   \* w.needCheckpoint
    synced,     \* w.synced, as the number of a write (w.seq is nops)
    token,      \* whether w.ch holds a signal
    pc,         \* where each goroutine is; "down" for run when no process runs
    step,       \* where checkpointLocked is, for the goroutine that runs it
    want,       \* the record each caller of syncTo waits for
    target,     \* what the fsync under way covers
    stale,      \* its file has been closed by a checkpoint since
    batch,      \* the ops run has peeked and sends, then those the peer took
    (* Disk. *)
    stored,     \* the part of the WAL that survives power loss
    cached,     \* what follows it in the page cache only
    torn,       \* whether a partial record follows
    hole,       \* a failed fsync dropped the pages of `cached`
    alt,        \* WALs a power loss may bring back
    (* Ghosts and bounds. *)
    base,       \* writes queued before this process started
    nops,       \* writes queued so far
    answered,   \* writes answered with nothing logged
    taken,      \* writes the peer has taken
    nfault, ncrash

queueVars == <<pending, open, writes, needCkpt, synced>>
syncVars  == <<want, target>>
diskVars  == <<stored, cached, torn, hole, alt>>
vars == <<queueVars, token, pc, step, syncVars, stale, batch, diskVars, base, nops,
          answered, taken, nfault, ncrash>>

Caller == Writers \cup {"loop", "run"}

\* WAL records: a number is the write it queues ("E"), Ack one ack ("A"), and Bad a
\* line that does not parse.
Ack == 0
Bad == -1

Up == pc["run"] # "down"
Always == Policy = "always"
Fault(k) == k \in Faults /\ nfault < MaxFaults /\ nfault' = nfault + 1
NoFault == UNCHANGED nfault

\* Calls that hold w.mu while checkpointLocked runs, and those that hold syncMu.
Locking == {"enqueue", "sync", "tick", "ack", "load"}
MuFree     == \A c \in Caller : pc[c] \notin Locking
SyncMuFree == \A c \in Caller : pc[c] \notin {"fsync", "synced", "failed", "sync"}

File == stored \o cached
Survivors ==
    alt \cup {stored \o SubSeq(cached, 1, n) : n \in IF hole THEN {0} ELSE 0..Len(cached)}

\* loadWAL: the ops queued and not acked, up to the end or to a line it rejects.
ReadLine(q, r) ==
    IF ~q.ok \/ r = Bad THEN [q EXCEPT !.ok = FALSE]
    ELSE IF r = Ack THEN [q EXCEPT !.ops = IF @ = <<>> THEN @ ELSE Tail(@)]
    ELSE [q EXCEPT !.ops = Append(@, r)]
Replay(f) ==
    LET read[i \in 0..Len(f)] == IF i = 0 THEN [ops |-> <<>>, ok |-> TRUE]
                                 ELSE ReadLine(read[i - 1], f[i])
    IN read[Len(f)]

\* reclaimableLocked
Reclaimable(w, p) ==
    LET dead == w - Len(p) IN dead >= CheckpointEvery /\ dead >= Len(p)

--------------------------------------------------------------------------------
Init ==
    /\ pending = <<>> /\ open = TRUE /\ writes = 0 /\ needCkpt = FALSE /\ synced = 0
    /\ token = TRUE /\ step = "none" /\ pc = [c \in Caller |-> "idle"]
    /\ want = [c \in Caller |-> 0] /\ target = 0 /\ stale = FALSE /\ batch = <<>>
    /\ stored = <<>> /\ cached = <<>> /\ torn = FALSE /\ hole = FALSE /\ alt = {}
    /\ base = 0 /\ nops = 0 /\ answered = {} /\ taken = {}
    /\ nfault = 0 /\ ncrash = 0

(* How a call returns.  dispatch logs an error and goes on; after an ack that was  *)
(* not written run waits for the next signal.                                      *)

AfterCall(from, err) ==
    CASE from = "enqueue" /\ ~err /\ Always -> "want"
      [] from = "ack" /\ ~err               -> "peek"
      [] OTHER                              -> "idle"

Return(c, from, err) ==
    /\ pc' = [pc EXCEPT ![c] = AfterCall(from, err)]
    /\ step' = IF pc[c] \in Locking THEN "none" ELSE step
    /\ answered' = IF c \in Writers /\ ~err /\ (from = "sync" \/ ~Always)
                   THEN answered \cup {want[c]'} ELSE answered

\* checkpointLocked closes the file first.
StartCheckpointKeepingFile(c, from) ==  \* mutant: appends and fsyncs go to the old file
    /\ pc' = [pc EXCEPT ![c] = from] /\ step' = "write"
    /\ UNCHANGED <<open, stale, needCkpt, answered>>
StartCheckpoint(c, from) ==
    /\ pc' = [pc EXCEPT ![c] = from] /\ step' = "write"
    /\ open' = FALSE /\ stale' = TRUE
    /\ UNCHANGED <<needCkpt, answered>>

\* appendLocked, called with pending' already set: a failed write leaves the file
\* behind memory, so the next call rewrites it.
NotBroken == UNCHANGED needCkpt  \* mutant: the next record is appended as if nothing failed
Broken == needCkpt' = TRUE

AppendLocked(c, from, recs) ==
    \/ /\ needCkpt /\ NoFault
       /\ StartCheckpoint(c, from)
       /\ UNCHANGED <<writes, cached, torn>>
    \/ /\ ~needCkpt /\ NoFault
       /\ cached' = cached \o IF torn THEN <<Bad>> \o Tail(recs) ELSE recs
       /\ torn' = FALSE /\ writes' = writes + Len(recs)
       /\ IF Reclaimable(writes', pending')
          THEN StartCheckpoint(c, from)
          ELSE open' = TRUE /\ Return(c, from, FALSE) /\ UNCHANGED <<needCkpt, stale>>
    \/ /\ ~needCkpt /\ Broken
       /\ \/ ~open /\ Fault("open") /\ UNCHANGED <<open, cached, torn>>
          \/ Fault("write") /\ open' = TRUE /\ UNCHANGED <<cached, torn>>
          \/ /\ Fault("shortwrite") /\ open' = TRUE /\ torn' = TRUE
             /\ \E n \in 0..(Len(recs) - 1) : cached' = cached \o SubSeq(recs, 1, n)
       /\ Return(c, from, TRUE) /\ UNCHANGED <<writes, stale>>

--------------------------------------------------------------------------------
(* dispatch: enqueue, and under always syncTo.                                     *)

Enqueue(w) ==
    /\ Up /\ pc[w] = "idle" /\ MuFree /\ nops < MaxOps
    /\ nops' = nops + 1
    /\ want' = [want EXCEPT ![w] = nops']
    /\ pending' = Append(pending, nops')
    /\ token' = TRUE
    /\ AppendLocked(w, "enqueue", <<nops'>>)
    /\ UNCHANGED <<synced, target, batch, stored, hole, alt, base, taken, ncrash>>

\* syncTo up to its fsync.  Callers that find synced behind wait for syncMu.
SyncTo(c) ==
    /\ pc[c] = "want"
    /\ UNCHANGED <<pending, writes, synced, token, want, batch, diskVars, base, nops,
                   taken, nfault, ncrash>>
    /\ \/ /\ synced >= want[c]
          /\ Return(c, "sync", FALSE) /\ UNCHANGED <<open, needCkpt, target, stale>>
       \/ /\ synced < want[c] /\ SyncMuFree /\ MuFree
          /\ IF needCkpt \/ ~open
             THEN StartCheckpoint(c, "sync") /\ UNCHANGED target
             ELSE /\ pc' = [pc EXCEPT ![c] = "fsync"]
                  /\ target' = nops /\ stale' = FALSE
                  /\ UNCHANGED <<open, needCkpt, step, answered>>

\* The fsync, without w.mu.  It makes the file's directory entry durable, too (see
\* EntryFollowsFsync in Aof).  One of a file that a checkpoint has closed fails.
FsyncWAL(c) ==
    /\ pc[c] = "fsync"
    /\ \/ /\ ~stale /\ NoFault
          /\ stored' = (IF hole THEN Append(stored, Bad) ELSE File) /\ cached' = <<>>
          /\ alt' = {}
          /\ pc' = [pc EXCEPT ![c] = "synced"] /\ UNCHANGED hole
       \/ /\ ~stale /\ Fault("fsync")
          /\ hole' \in BOOLEAN /\ UNCHANGED <<stored, cached, alt>>
          /\ pc' = [pc EXCEPT ![c] = "failed"]
       \/ /\ stale /\ NoFault
          /\ pc' = [pc EXCEPT ![c] = "failed"] /\ UNCHANGED <<stored, cached, hole, alt>>
    /\ UNCHANGED <<queueVars, token, step, syncVars, stale, batch, torn, base, nops,
                   answered, taken, ncrash>>

MarkSyncedLate(s) == synced' = nops  \* mutant: what was queued during the fsync, too
MarkSynced(s) == synced' = IF s > synced THEN s ELSE synced

FsyncDone(c) ==
    /\ pc[c] = "synced"
    /\ UNCHANGED <<pending, open, writes, needCkpt, token, syncVars, stale, batch, diskVars,
                   base, nops, taken, nfault, ncrash>>
    /\ MarkSynced(target)
    /\ Return(c, "sync", FALSE)

\* After a failed fsync the queue is written to a new file, unless a checkpoint has
\* closed this one meanwhile.
FsyncRetried(c) ==  \* mutant: the next fsync of the same file will do
    /\ pc[c] = "failed" /\ pc' = [pc EXCEPT ![c] = "want"]
    /\ UNCHANGED <<queueVars, token, step, syncVars, stale, batch, diskVars, base, nops,
                   answered, taken, nfault, ncrash>>
FsyncFailed(c) ==
    /\ pc[c] = "failed" /\ MuFree
    /\ UNCHANGED <<pending, writes, synced, token, syncVars, batch, diskVars, base, nops,
                   taken, nfault, ncrash>>
    /\ IF synced >= want[c] \/ stale
       THEN Return(c, "sync", FALSE) /\ UNCHANGED <<open, needCkpt, stale>>
       ELSE StartCheckpoint(c, "sync")

\* syncAll, for this worker.
SyncAllUnbroken ==  \* mutant: a WAL that a failed write left behind waits for a write
    /\ pc["loop"] = "idle" /\ MuFree /\ ~needCkpt
    /\ Policy = "everysec" /\ synced < nops
    /\ want' = [want EXCEPT !["loop"] = nops]
    /\ pc' = [pc EXCEPT !["loop"] = "want"]
    /\ UNCHANGED <<queueVars, token, step, target, stale, batch, diskVars, base, nops,
                   answered, taken, nfault, ncrash>>
SyncAll ==
    /\ Up /\ pc["loop"] = "idle" /\ MuFree
    /\ IF needCkpt
       THEN StartCheckpoint("loop", "tick") /\ UNCHANGED want
       ELSE /\ Policy = "everysec" /\ synced < nops
            /\ want' = [want EXCEPT !["loop"] = nops]
            /\ pc' = [pc EXCEPT !["loop"] = "want"]
            /\ UNCHANGED <<open, needCkpt, step, stale, answered>>
    /\ UNCHANGED <<pending, writes, synced, token, target, batch, diskVars, base, nops,
                   taken, nfault, ncrash>>

--------------------------------------------------------------------------------
(* checkpointLocked, by the goroutine c that holds w.mu.                           *)

CkptFails(c, k) == Fault(k) /\ needCkpt' = TRUE /\ Return(c, pc[c], TRUE)

CkptUnchanged ==
    UNCHANGED <<pending, token, syncVars, stale, batch, base, nops, taken, ncrash>>

\* The pending ops in a new file, fsynced and renamed into place.
WriteCheckpoint(c) ==
    /\ pc[c] \in Locking /\ step = "write"
    /\ CkptUnchanged
    /\ \/ /\ NoFault
          /\ stored' = pending /\ cached' = <<>> /\ torn' = FALSE /\ hole' = FALSE
          /\ alt' = Survivors
          /\ step' = "dir" /\ UNCHANGED <<pc, needCkpt, answered>>
       \/ CkptFails(c, "checkpoint") /\ UNCHANGED diskVars
    /\ UNCHANGED <<open, writes, synced>>

SyncDir(c) ==
    /\ pc[c] \in Locking /\ step = "dir"
    /\ CkptUnchanged
    /\ \/ /\ NoFault
          /\ alt' = {}
          /\ writes' = Len(pending) /\ MarkSynced(nops)
          /\ step' = "open" /\ UNCHANGED <<pc, needCkpt, answered>>
       \/ CkptFails(c, "dirsync") /\ UNCHANGED <<alt, writes, synced>>
    /\ UNCHANGED <<open, stored, cached, torn, hole>>

OpenNew(c) ==
    /\ pc[c] \in Locking /\ step = "open"
    /\ CkptUnchanged
    /\ \/ NoFault /\ open' = TRUE /\ needCkpt' = FALSE /\ Return(c, pc[c], FALSE)
       \/ CkptFails(c, "open") /\ UNCHANGED open
    /\ UNCHANGED <<writes, synced, diskVars>>

--------------------------------------------------------------------------------
(* run.                                                                            *)

RunAt(from, to) == pc["run"] = from /\ pc' = [pc EXCEPT !["run"] = to]
RunUnchanged == UNCHANGED <<step, syncVars, stale, base, nops, ncrash>>

Wake ==
    /\ token /\ token' = FALSE
    /\ RunAt("idle", "peek")
    /\ UNCHANGED <<queueVars, batch, diskVars, answered, taken, nfault>>
    /\ RunUnchanged

PeekBatch ==
    /\ MuFree
    /\ RunAt("peek", IF pending = <<>> THEN "idle" ELSE "send")
    /\ batch' = SubSeq(pending, 1, IF Len(pending) < MaxBatch THEN Len(pending) ELSE MaxBatch)
    /\ UNCHANGED <<queueVars, token, diskVars, answered, taken, nfault>>
    /\ RunUnchanged

\* deliver and send: the peer takes the start of the batch.
Deliver ==
    /\ RunAt("send", "took")
    /\ \E n \in 1..Len(batch) : batch' = SubSeq(batch, 1, n)
    /\ taken' = taken \cup Range(batch')
    /\ UNCHANGED <<queueVars, token, diskVars, answered, nfault>>
    /\ RunUnchanged

\* The answer does not arrive: the whole batch is sent again.
ReplyLost ==
    /\ RunAt("send", "send")
    /\ \E n \in 1..Len(batch) : taken' = taken \cup Range(SubSeq(batch, 1, n))
    /\ UNCHANGED <<queueVars, token, batch, diskVars, answered, nfault>>
    /\ RunUnchanged

\* What ackN drops.
AckedWholePeek(p) ==  \* mutant: the peer's answer is taken for the whole batch
    SubSeq(p, MaxBatch + 1, Len(p))
Unacked(p) == SubSeq(p, Len(batch) + 1, Len(p))

AckN ==
    /\ pc["run"] = "took" /\ MuFree
    /\ pending' = Unacked(pending)
    /\ batch' = <<>>
    /\ AppendLocked("run", "ack", [i \in 1..(Len(pending) - Len(pending')) |-> Ack])
    /\ UNCHANGED <<synced, token, syncVars, stored, hole, alt, base, nops, taken, ncrash>>

--------------------------------------------------------------------------------
(* Crashes and workerFor.                                                          *)

Crash ==
    /\ ncrash < MaxCrashes /\ ncrash' = ncrash + 1
    /\ pending' = <<>> /\ open' = FALSE /\ writes' = 0 /\ needCkpt' = FALSE /\ synced' = 0
    /\ token' = FALSE /\ step' = "none" /\ batch' = <<>> /\ target' = 0 /\ stale' = FALSE
    /\ pc' = [c \in Caller |-> IF c = "run" THEN "down" ELSE "idle"]
    /\ want' = [c \in Caller |-> 0]
    /\ UNCHANGED <<base, nops, answered, taken, nfault>>

\* A clean stop, too: main does not stop the workers.
Kill == "kill" \in Crashes /\ Up /\ Crash /\ UNCHANGED diskVars

PowerLoss ==
    /\ Crashes \cap {"power", "tear"} # {} /\ Crash
    /\ stored' \in Survivors /\ cached' = <<>>
    /\ hole' = FALSE /\ alt' = {}
    /\ torn' \in {FALSE, "tear" \in Crashes /\ Len(stored') < Len(File)}

\* loadWAL skips a partial record at the end and leaves it in the file; a line it
\* rejects ends it with the file not opened.
SignalNever == UNCHANGED token  \* mutant: the worker waits for the first write
SignalAtStart == token' = TRUE

Restart ==
    /\ ~Up
    /\ cached' = IF hole THEN <<>> ELSE cached
    /\ hole' = FALSE
    /\ LET f == stored \o cached'
           r == Replay(f)
           reclaim == r.ok /\ Reclaimable(Len(f), r.ops)
       IN /\ pending' = r.ops
          /\ writes' = IF r.ok THEN Len(f) ELSE 0
          /\ \/ open' = (r.ok /\ ~reclaim) /\ NoFault
             \/ r.ok /\ Fault("open") /\ open' = FALSE
          /\ IF reclaim /\ nfault' = nfault
             THEN pc' = [pc EXCEPT !["run"] = "load"] /\ step' = "write"
             ELSE pc' = [pc EXCEPT !["run"] = "idle"] /\ UNCHANGED step
    /\ SignalAtStart
    /\ synced' = nops /\ base' = nops
    /\ UNCHANGED <<needCkpt, syncVars, stale, batch, stored, torn, alt, nops, answered,
                   taken, ncrash>>

--------------------------------------------------------------------------------
Sync(c) == SyncTo(c) \/ FsyncWAL(c) \/ FsyncDone(c) \/ FsyncFailed(c)
Checkpoint(c) == WriteCheckpoint(c) \/ SyncDir(c) \/ OpenNew(c)
RunStep == Wake \/ PeekBatch \/ AckN

Next ==
    \/ \E w \in Writers : Enqueue(w)
    \/ \E c \in Caller : Sync(c) \/ Checkpoint(c)
    \/ SyncAll
    \/ RunStep \/ Deliver \/ ReplyLost
    \/ Kill \/ PowerLoss \/ Restart

Spec == Init /\ [][Next]_vars

--------------------------------------------------------------------------------
(* Properties.                                                                     *)

TypeOK ==
    /\ pending \in Seq(1..nops) /\ open \in BOOLEAN /\ needCkpt \in BOOLEAN
    /\ writes \in Nat /\ synced \in 0..nops /\ token \in BOOLEAN
    /\ pc \in [Caller -> Locking \cup {"idle", "want", "fsync", "synced", "failed",
                                       "peek", "send", "took", "down"}]
    /\ step \in {"none", "write", "dir", "open"}
    /\ (step = "none") = MuFree
    /\ ~MuFree => ~open
    /\ want \in [Caller -> 0..nops] /\ target \in 0..nops /\ stale \in BOOLEAN
    /\ batch \in Seq(1..nops)
    /\ stored \in Seq((Bad)..nops) /\ cached \in Seq((Bad)..nops)
    /\ torn \in BOOLEAN /\ hole \in BOOLEAN /\ alt \subseteq Seq((Bad)..nops)
    /\ base \in 0..nops /\ nops \in 0..MaxOps
    /\ answered \subseteq 1..nops /\ taken \subseteq 1..nops
    /\ nfault \in 0..MaxFaults /\ ncrash \in 0..MaxCrashes

\* README.md:375, "each write is queued ... before the client gets its reply ... The
\* queue is fsynced as db.fsync says": under always, a write that was answered with
\* nothing logged is, unless the peer has it, in the queue that a start loads from
\* whatever a power loss leaves (enqueue, syncTo, checkpointLocked).
AnsweredDurable ==
    Always => \A f \in Survivors : answered \subseteq taken \cup Range(Replay(f).ops)

\* README.md:375, "sent to every peer in the background, in order": the peer first
\* takes a write only after every write answered before it, also across restarts.
TakenInOrder ==
    [][\A k \in taken' \ taken : \A j \in 1..(k - 1) : j \in answered => j \in taken']_vars

\* sync.go:614, "the next call rewrites the file from pending instead": as long as no
\* checkpoint is due the WAL spells exactly the queue, whatever failed before.
WALInStep ==
    (Up /\ MuFree /\ ~needCkpt /\ ~hole) => Replay(File) = [ops |-> pending, ok |-> TRUE]

\* w.synced, "highest seq known to be on disk": every write up to it that is still
\* queued is in what a power loss leaves.
SyncedOnDisk ==
    Up => \A f \in Survivors : \A op \in Range(pending) :
              op \in (base + 1)..synced => op \in Range(Replay(f).ops)

--------------------------------------------------------------------------------
(* Liveness.  A goroutine that holds a lock goes on, the ticker fires again and     *)
(* again, and syncMu is not withheld from one caller for ever.                      *)

SyncFairness ==
    /\ \A c \in Caller : WF_vars(Checkpoint(c)) /\ SF_vars(Sync(c))
    /\ SF_vars(SyncAll)
RunFairness == SF_vars(Wake \/ PeekBatch) /\ SF_vars(AckN)

FairSpec == Spec /\ SyncFairness /\ RunFairness
ReachableSpec == FairSpec /\ SF_vars(Deliver)

\* README.md:376, "The queue is fsynced as db.fsync says": under everysec a queued
\* write reaches the disk with no further write, also one whose append failed, unless
\* the peer takes it or the process dies first (syncAll).
EventuallyOnDisk ==
    \A op \in 1..MaxOps :
        (Up /\ op \in Range(pending))
            ~> (~Up \/ op \in taken \/ \A f \in Survivors : op \in Range(Replay(f).ops))

\* README.md:377, "A peer that cannot be reached is retried until it comes back": the
\* queue drains to a peer that can be reached (run, deliver, signal).
QueueDrains == (pending # <<>>) ~> (pending = <<>>)
================================================================================

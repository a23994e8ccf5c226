---------------------------------- MODULE Aof ----------------------------------
(* The durable document of internal/db/db.go: request handlers change the       *)
(* document in memory and queue a record, one persist goroutine appends the     *)
(* queued records to data.aof in batches, a vacuum replaces the file by one     *)
(* snapshot, and a restart replays the file.                                    *)
(*                                                                              *)
(* A document is abstracted to the history of operations that produced it, so   *)
(* "the snapshot of memory" is memory's history and "replaying the file" is the *)
(* history the file spells: its snapshot followed by its records.  Set, SetRaw,  *)
(* Del and Clone differ only in the record they log, which is kept opaque.      *)
EXTENDS Naturals, Sequences, Functions

CONSTANTS
    Writers,        \* concurrent request handlers (HTTP, TCP, peers port)
    MaxWrites,      \* bound: writes each handler attempts
    Policy,         \* db.fsync: "always", "everysec" or "no"
    QueueCap,       \* capacity of the channel `persists` (1024 in the code)
    BufCap,         \* records that fill the 64 KiB batch buffer
    EntryFollowsFsync, \* whether fsyncing a file also makes its directory entry
                    \* durable, as journaling file systems do and POSIX does not ask
    Faults,         \* the kinds of I/O failure the environment may inject
    MaxFaults,      \* bound: failures injected in a behaviour
    Crashes,        \* "kill" (kill -9) and/or "power" (power loss)
    MaxCrashes,     \* bound: crashes in a behaviour
    MaxVacuums,     \* bound: POST /vacuum requests
    CanShutDown     \* whether the operator may stop the server cleanly

FaultKinds == {"write", "truncate", "fsync", "snapshot", "presync", "rename",
               "dirsync", "reopen"}

ASSUME ConstantsOK ==
    /\ MaxWrites \in Nat /\ QueueCap \in Nat \ {0} /\ BufCap \in Nat \ {0}
    /\ MaxFaults \in Nat /\ MaxCrashes \in Nat /\ MaxVacuums \in Nat
    /\ Policy \in {"always", "everysec", "no"}
    /\ EntryFollowsFsync \in BOOLEAN
    /\ Faults \subseteq FaultKinds
    /\ Crashes \subseteq {"kill", "power"}
    /\ CanShutDown \in BOOLEAN

VARIABLES
    (* The process's memory. *)
    mem,            \* configRoot: the history of the document
    wpc,            \* where each handler is in Set/Del/Clone
    queue,          \* the channel `persists`
    ppc,            \* where the persist goroutine is; "dead" when no process runs
    buf,            \* records taken off the queue and not yet written
    waiters,        \* operations whose done channel persist still has to close
    open,           \* db # nil
    unsynced,       \* written since the last fsync
    refused,        \* writesRefused
    renamed,        \* renameErr = nil of the vacuum in progress
    cpc,            \* where main's deferred db.Close(true) is
    (* The disk. *)
    stored,         \* the part of data.aof that survives power loss
    cached,         \* what follows it in the page cache only
    torn,           \* whether a partial record follows
    hole,           \* a failed fsync dropped the pages of `cached`
    tmp,            \* data.aof.tmp, fsynced
    alt,            \* older files a power loss may bring back under data.aof
    (* Ghosts and bounds. *)
    nw,             \* number of the write each handler is at
    acked,          \* operations answered with success
    nfault, ncrash, nvac

memVars   == <<mem, wpc, nw, acked>>
loopVars  == <<buf, waiters, unsynced, refused>>
diskVars  == <<stored, cached, torn, hole, tmp, alt>>
boundVars == <<nfault, ncrash, nvac>>
vars == <<memVars, queue, ppc, loopVars, open, renamed, cpc, diskVars, boundVars>>

Op == Writers \X (1..MaxWrites)
CurrentOp(w) == <<w, nw[w]>>

Record(op) == [cmd |-> "write", op |-> op]
DumpRow    == [cmd |-> "dump"]
CloseRow   == [cmd |-> "close"]
Row == [cmd : {"write"}, op : Op] \cup {DumpRow, CloseRow}

QueuedOps == {r.op : r \in {q \in Range(queue) : q.cmd = "write"}}

Up == ppc # "dead"

\* The history a replay of the file spells, and every history that a power loss
\* now may leave in it.
File == stored \o cached
Survivors ==
    {stored \o SubSeq(cached, 1, i) : i \in 0..(IF hole THEN 0 ELSE Len(cached))}
        \cup alt

\* What an fsync that reports success makes durable: nothing that an earlier,
\* failed one dropped.
Fsync ==
    IF hole THEN UNCHANGED <<stored, cached, alt>>
    ELSE /\ stored' = stored \o cached
         /\ cached' = <<>>
         /\ alt' = IF EntryFollowsFsync THEN {} ELSE alt

Always == Policy = "always"

NoFault   == UNCHANGED nfault
Fault(k)  == k \in Faults /\ nfault < MaxFaults /\ nfault' = nfault + 1

Init ==
    /\ mem = <<>> /\ wpc = [w \in Writers |-> "idle"] /\ nw = [w \in Writers |-> 0]
    /\ acked = {}
    /\ queue = <<>> /\ ppc = "select" /\ buf = <<>> /\ waiters = {}
    /\ open = TRUE /\ unsynced = FALSE /\ refused = FALSE /\ renamed = FALSE
    /\ cpc = "serving"
    /\ stored = <<>> /\ cached = <<>> /\ torn = FALSE /\ hole = FALSE
    /\ tmp = <<>> /\ alt \in {{}, {<<>>}}  \* data.aof was there, or is just created
    /\ nfault = 0 /\ ncrash = 0 /\ nvac = 0

--------------------------------------------------------------------------------
(* Request handlers: Set, SetRaw, Del and Clone.                                *)

\* checkWritable.  A refused write is answered with an error and changes nothing.
CheckWritable(w) ==
    /\ Up /\ wpc[w] = "idle" /\ nw[w] < MaxWrites
    /\ ~refused
    /\ nw' = [nw EXCEPT ![w] = @ + 1]
    /\ wpc' = [wpc EXCEPT ![w] = "checked"]
    /\ UNCHANGED <<mem, acked, queue, ppc, loopVars, open, renamed, cpc, diskVars,
                   boundVars>>

\* setNode, delonly: the change is visible to readers from here on.
ApplyInMemory(w) ==
    /\ wpc[w] = "checked"
    /\ mem' = Append(mem, CurrentOp(w))
    /\ wpc' = [wpc EXCEPT ![w] = "applied"]
    /\ UNCHANGED <<nw, acked, queue, ppc, loopVars, open, renamed, cpc, diskVars,
                   boundVars>>

\* appendAOF: blocks while the channel is full.  Under always the handler goes on
\* to wait for the record's done channel, otherwise it answers at once.
AppendAOFUnbounded(w) ==  \* mutant: a full channel does not block the handler
    /\ wpc[w] = "applied"
    /\ queue' = Append(queue, Record(CurrentOp(w)))
    /\ wpc' = [wpc EXCEPT ![w] = IF Always THEN "waiting" ELSE "idle"]
    /\ acked' = IF Always THEN acked ELSE acked \cup {CurrentOp(w)}
    /\ UNCHANGED <<mem, nw, ppc, loopVars, open, renamed, cpc, diskVars, boundVars>>
AppendAOF(w) ==
    /\ wpc[w] = "applied" /\ Len(queue) < QueueCap
    /\ queue' = Append(queue, Record(CurrentOp(w)))
    /\ IF Always
       THEN wpc' = [wpc EXCEPT ![w] = "waiting"] /\ UNCHANGED acked
       ELSE wpc' = [wpc EXCEPT ![w] = "idle"] /\ acked' = acked \cup {CurrentOp(w)}
    /\ UNCHANGED <<mem, nw, ppc, loopVars, open, renamed, cpc, diskVars, boundVars>>

\* POST /vacuum.  Its own wait under always changes nothing here.  It is not subject to checkWritable.
Vacuum ==
    /\ Up /\ nvac < MaxVacuums /\ Len(queue) < QueueCap
    /\ nvac' = nvac + 1
    /\ queue' = Append(queue, DumpRow)
    /\ UNCHANGED <<memVars, ppc, loopVars, open, renamed, cpc, diskVars, nfault, ncrash>>

--------------------------------------------------------------------------------
(* persist: the writer goroutine.                                               *)

\* write's tail: a batch whose buffer is full is flushed before the next row.
AfterRow(b) == IF Len(b) >= BufCap THEN "full" ELSE "batch"

\* `case row := <-persists` at the head of a batch, and the inner select that
\* drains what is already queued.
TakeRow ==
    /\ ppc \in {"select", "batch"} /\ queue # <<>>
    /\ queue' = Tail(queue)
    /\ UNCHANGED <<memVars, unsynced, refused, open, renamed, cpc, diskVars, boundVars>>

TakeRecordAlone ==  \* mutant: one waiter is remembered, not one for each record
    /\ TakeRow /\ Head(queue).cmd = "write"
    /\ buf' = IF open THEN Append(buf, Head(queue).op) ELSE buf
    /\ waiters' = IF Always THEN {Head(queue).op} ELSE waiters
    /\ ppc' = AfterRow(buf')
TakeRecord ==
    /\ TakeRow /\ Head(queue).cmd = "write"
    /\ buf' = IF open THEN Append(buf, Head(queue).op) ELSE buf
    /\ waiters' = IF Always THEN waiters \cup {Head(queue).op} ELSE waiters
    /\ ppc' = AfterRow(buf')

TakeCommandUnflushed ==  \* mutant: the close command stops without a flush
    /\ TakeRow /\ Head(queue).cmd # "write"
    /\ ppc' = IF Head(queue) = CloseRow THEN "stopped" ELSE Head(queue).cmd
    /\ UNCHANGED <<buf, waiters>>
TakeCommand ==
    /\ TakeRow /\ Head(queue).cmd # "write"
    /\ ppc' = Head(queue).cmd
    /\ UNCHANGED <<buf, waiters>>

\* The inner select's default case: nothing more is queued.
EndBatch ==
    /\ ppc = "batch" /\ queue = <<>>
    /\ ppc' = "flush"
    /\ UNCHANGED <<memVars, queue, loopVars, open, renamed, cpc, diskVars, boundVars>>

TickWithoutRetry ==  \* mutant: the ticker only fsyncs
    /\ ppc = "select"
    /\ ppc' = "ticksync"
    /\ UNCHANGED <<memVars, queue, loopVars, open, renamed, cpc, diskVars, boundVars>>
Tick ==
    /\ ppc = "select"
    /\ ppc' = "tick"
    /\ UNCHANGED <<memVars, queue, loopVars, open, renamed, cpc, diskVars, boundVars>>

\* The five calls of flush and where the loop goes after each.
FlushSites == {"flush", "full", "tick", "dump", "close"}
AfterFlushLeavingBatch(site) ==  \* mutant: a full buffer ends the batch unreleased
    CASE site = "flush" -> "sync"
      [] site = "full"  -> "select"
      [] site = "tick"  -> "ticksync"
      [] site = "dump"  -> "snapshot"
      [] site = "close" -> "closesync"
AfterFlush(site) ==
    CASE site = "flush" -> "sync"
      [] site = "full"  -> "batch"
      [] site = "tick"  -> "ticksync"
      [] site = "dump"  -> "snapshot"
      [] site = "close" -> "closesync"
AfterFailedFlush(site) ==
    CASE site = "full"  -> "batch"
      [] site = "dump"  -> "snapshot"
      [] site = "close" -> "stopped"
      [] OTHER          -> "select"

NothingToFlush == buf = <<>> \/ ~open

\* What a write adds to the file: a record that starts after a partial one runs on
\* from it, and no replay can read it.
Readable(b) == IF torn THEN Tail(b) ELSE b

Flush ==
    /\ ppc \in FlushSites
    /\ IF NothingToFlush
       THEN UNCHANGED <<cached, torn, buf, unsynced, refused>>
       ELSE /\ cached' = cached \o Readable(buf)
            /\ torn' = FALSE
            /\ buf' = <<>>
            /\ unsynced' = TRUE
            /\ refused' = FALSE
    /\ ppc' = AfterFlush(ppc)
    /\ UNCHANGED <<memVars, queue, waiters, open, renamed, cpc, stored, hole, tmp, alt,
                   boundVars>>

\* The process ends: fatalf, a crash, or the return of main.
Exit ==
    /\ ppc' = "dead"
    /\ mem' = <<>> /\ wpc' = [w \in Writers |-> "idle"] /\ UNCHANGED <<nw, acked>>
    /\ queue' = <<>> /\ buf' = <<>> /\ waiters' = {}
    /\ open' = FALSE /\ unsynced' = FALSE /\ refused' = FALSE /\ renamed' = FALSE
    /\ cpc' = "serving"

\* release closes the done channels, which lets those handlers answer.
Release ==
    /\ acked' = acked \cup waiters
    /\ waiters' = {}
    /\ wpc' = [w \in Writers |-> IF CurrentOp(w) \in waiters THEN "idle" ELSE wpc[w]]
ReleaseAt(sites) ==
    IF ppc \in sites THEN Release ELSE UNCHANGED <<acked, waiters, wpc>>

\* failed, when it does not exit: writes are refused and buf is kept for a retry.
RefuseForgetting ==  \* mutant: the records of the failed write are dropped
    refused' = TRUE /\ buf' = <<>>
Refuse == refused' = TRUE /\ UNCHANGED buf

\* failed exits under always: the waiting handlers must not be answered.
ExitNever == FALSE  \* mutant: always, too, refuses writes
ExitOnFailedWrite == Always

\* A write that fails, or that is short and is cut back off the file.
FlushFails ==
    /\ ppc \in FlushSites /\ ~NothingToFlush
    /\ Fault("write")
    /\ IF ExitOnFailedWrite
       THEN Exit
       ELSE /\ Refuse
            /\ ReleaseAt({"flush", "close"})
            /\ ppc' = AfterFailedFlush(ppc)
            /\ UNCHANGED <<mem, nw, queue, unsynced, open, renamed, cpc>>
    /\ UNCHANGED <<diskVars, ncrash, nvac>>

\* The process stops with part of buf in the file: the partial record could not be
\* cut off (fatalf), or the process was killed between the write and the cut.
FlushTorn ==
    /\ ppc \in FlushSites /\ ~NothingToFlush
    /\ \/ Fault("truncate") /\ UNCHANGED ncrash
       \/ "kill" \in Crashes /\ ncrash < MaxCrashes /\ ncrash' = ncrash + 1 /\ NoFault
    /\ \E i \in 0..Len(buf) : cached' = cached \o SubSeq(buf, 1, i)
    /\ torn' \in BOOLEAN
    /\ Exit
    /\ UNCHANGED <<stored, hole, tmp, alt, nvac>>

--------------------------------------------------------------------------------
(* syncNow, and the release that follows it at the end of a batch.               *)

SyncSites == {"sync", "ticksync", "closesync"}
AfterSync(site) == IF site = "closesync" THEN "stopped" ELSE "select"

\* Which of the three calls of syncNow the policy asks for.
SyncWantedNotOnTick(site) ==  \* mutant: everysec never fsyncs
    site = "closesync" \/ (site = "sync" /\ Always)
SyncWanted(site) ==
    \/ site = "sync" /\ Always
    \/ site = "ticksync" /\ Policy = "everysec"
    \/ site = "closesync"

SyncNow ==
    /\ ppc \in SyncSites
    /\ IF SyncWanted(ppc) /\ unsynced /\ open
       THEN Fsync /\ unsynced' = FALSE
       ELSE UNCHANGED <<stored, cached, alt, unsynced>>
    /\ ReleaseAt({"sync", "closesync"})
    /\ ppc' = AfterSync(ppc)
    /\ UNCHANGED <<mem, nw, queue, buf, refused, open, renamed, cpc, torn, hole, tmp,
                   boundVars>>

SyncFails ==
    /\ ppc \in SyncSites /\ SyncWanted(ppc) /\ unsynced /\ open
    /\ Fault("fsync")
    /\ hole' \in {hole, TRUE}
    /\ Exit
    /\ UNCHANGED <<stored, cached, torn, tmp, alt, ncrash, nvac>>

--------------------------------------------------------------------------------
(* doEraseAndDump, one action for each point between which a handler can move,  *)
(* the process can die or a call can fail.                                      *)

VacuumUnchanged == UNCHANGED <<memVars, queue, waiters, cpc, ncrash, nvac>>

\* writeSnapshotFile: the document as it is now, fsynced in the temp file.
WriteSnapshot ==
    /\ ppc = "snapshot"
    /\ \/ NoFault /\ tmp' = mem /\ ppc' = "presync"
       \/ Fault("snapshot") /\ UNCHANGED tmp /\ ppc' = AfterRow(buf)
    /\ VacuumUnchanged
    /\ UNCHANGED <<buf, unsynced, refused, open, renamed, stored, cached, torn, hole, alt>>

\* db.Sync, whose error is only logged, and db.Close.
SyncAndClose ==
    /\ ppc = "presync"
    /\ \/ NoFault /\ (IF open THEN Fsync ELSE UNCHANGED <<stored, cached, alt>>) /\ UNCHANGED hole
       \/ open /\ Fault("presync") /\ UNCHANGED <<stored, cached, alt>> /\ hole' \in {hole, TRUE}
    /\ open' = FALSE
    /\ ppc' = "rename"
    /\ VacuumUnchanged
    /\ UNCHANGED <<buf, unsynced, refused, renamed, torn, tmp>>

\* os.Link keeps the old file as a backup; os.Rename replaces it.  Until the
\* directory is fsynced a power loss may still bring the old file back.
Rename ==
    /\ ppc = "rename"
    /\ \/ /\ NoFault
          /\ stored' = tmp /\ cached' = <<>> /\ hole' = FALSE
          /\ alt' = Survivors
          /\ renamed' = TRUE
       \/ /\ Fault("rename")
          /\ renamed' = FALSE
          /\ UNCHANGED <<stored, cached, hole, alt>>
    /\ ppc' = "dirsync"
    /\ VacuumUnchanged
    /\ UNCHANGED <<buf, unsynced, refused, open, torn, tmp>>

\* syncDir, whose errors are only logged.
SyncDir ==
    /\ ppc = "dirsync"
    /\ \/ NoFault /\ alt' = {}
       \/ Fault("dirsync") /\ UNCHANGED alt
    /\ ppc' = "reopen"
    /\ VacuumUnchanged
    /\ UNCHANGED <<buf, unsynced, refused, open, renamed, stored, cached, torn, hole, tmp>>

\* What persist forgets after a vacuum that worked: the snapshot covers the
\* records a failed write left pending.
CoveredStillRefusing ==  \* mutant: only a flush ends the refusal
    buf' = <<>> /\ unsynced' = FALSE /\ UNCHANGED refused
Covered == buf' = <<>> /\ unsynced' = FALSE /\ refused' = FALSE
AfterAnyDump == Covered  \* mutant: doEraseAndDump's error is ignored
AfterDump == IF renamed THEN Covered ELSE UNCHANGED <<buf, unsynced, refused>>

\* reopen, and what persist does with doEraseAndDump's result.
Reopen ==
    /\ ppc = "reopen"
    /\ \/ NoFault /\ open' = TRUE /\ AfterDump
       \/ Fault("reopen") /\ UNCHANGED <<open, buf, unsynced, refused>>
    /\ renamed' = FALSE
    /\ ppc' = AfterRow(buf')
    /\ VacuumUnchanged
    /\ UNCHANGED diskVars

--------------------------------------------------------------------------------
(* Close(true) and stopPersist, deferred by main.                               *)

InRow == {"dump", "snapshot", "presync", "rename", "dirsync", "reopen", "close",
          "closesync"}
WaitGroupZero == queue = <<>> /\ ppc \notin InRow

\* wg.Wait, then Vacuum: under always its appendAOF waits for the release.
CloseVacuum ==
    /\ CanShutDown /\ Up /\ cpc = "serving" /\ WaitGroupZero
    /\ queue' = Append(queue, DumpRow)
    /\ cpc' = IF Always THEN "dumping" ELSE "dumped"
    /\ UNCHANGED <<memVars, ppc, loopVars, open, renamed, diskVars, boundVars>>

CloseVacuumDone ==
    /\ cpc = "dumping" /\ ppc = "select" /\ DumpRow \notin Range(queue)
    /\ cpc' = "dumped"
    /\ UNCHANGED <<memVars, queue, ppc, loopVars, open, renamed, diskVars, boundVars>>

\* wg.Wait again, then stopPersist queues the close command.
StopPersist ==
    /\ cpc = "dumped" /\ WaitGroupZero
    /\ queue' = Append(queue, CloseRow)
    /\ cpc' = "closing"
    /\ UNCHANGED <<memVars, ppc, loopVars, open, renamed, diskVars, boundVars>>

\* The goroutine has returned: the last fsync, and main returns.
CloseFile ==
    /\ cpc = "closing" /\ ppc = "stopped"
    /\ \/ NoFault /\ (IF open THEN Fsync ELSE UNCHANGED <<stored, cached, alt>>) /\ UNCHANGED hole
       \/ open /\ Fault("fsync") /\ UNCHANGED <<stored, cached, alt>> /\ hole' \in {hole, TRUE}
    /\ Exit
    /\ UNCHANGED <<torn, tmp, ncrash, nvac>>

--------------------------------------------------------------------------------
(* Crashes and Init.                                                            *)

Kill ==
    /\ "kill" \in Crashes /\ Up /\ ncrash < MaxCrashes
    /\ ncrash' = ncrash + 1
    /\ Exit
    /\ UNCHANGED <<diskVars, nfault, nvac>>

PowerLoss ==
    /\ "power" \in Crashes /\ ncrash < MaxCrashes
    /\ ncrash' = ncrash + 1
    /\ stored' \in Survivors
    /\ cached' = <<>> /\ hole' = FALSE
    /\ alt' = IF stored' = <<>> THEN {<<>>} ELSE {}  \* Init may have to create it
    /\ torn' \in BOOLEAN
    /\ Exit
    /\ UNCHANGED <<tmp, nfault, nvac>>

\* What replayAOF leaves of the file: a partial record at its end is cut off and
\* the file fsynced.  Pages dropped by a failed fsync are read back from the disk.
ReplayedWithTornTail ==  \* mutant: the partial record is skipped, not cut off
    /\ UNCHANGED <<torn, stored, alt>> /\ hole' = FALSE
    /\ cached' = IF hole THEN <<>> ELSE cached
ReplayedFile ==
    /\ torn' = FALSE /\ hole' = FALSE
    /\ IF hole THEN cached' = <<>> /\ UNCHANGED <<stored, alt>>
       ELSE IF torn THEN Fsync
       ELSE UNCHANGED <<stored, cached, alt>>

\* Init: reopen, replayAOF, and a new persist goroutine.
Restart ==
    /\ ~Up
    /\ ReplayedFile
    /\ mem' = stored' \o cached'
    /\ ppc' = "select" /\ open' = TRUE
    /\ UNCHANGED <<wpc, nw, acked, queue, loopVars, renamed, cpc, tmp, boundVars>>

--------------------------------------------------------------------------------
Handler(w) == CheckWritable(w) \/ ApplyInMemory(w) \/ AppendAOF(w)

Batch  == EndBatch \/ Flush \/ FlushFails \/ SyncNow \/ SyncFails
Dump   == WriteSnapshot \/ SyncAndClose \/ Rename \/ SyncDir \/ Reopen
Receive == TakeRecord \/ TakeCommand
Closing == CloseVacuum \/ CloseVacuumDone \/ StopPersist \/ CloseFile

Next ==
    \/ \E w \in Writers : Handler(w)
    \/ Vacuum
    \/ Receive \/ Tick \/ Batch \/ FlushTorn \/ Dump
    \/ Closing
    \/ Kill \/ PowerLoss \/ Restart

Spec == Init /\ [][Next]_vars

--------------------------------------------------------------------------------
(* Properties.                                                                  *)

TypeOK ==
    /\ mem \in Seq(Op) /\ acked \subseteq Op
    /\ wpc \in [Writers -> {"idle", "checked", "applied", "waiting"}]
    /\ nw \in [Writers -> 0..MaxWrites]
    /\ \A w \in Writers : wpc[w] # "idle" => nw[w] > 0
    /\ queue \in Seq(Row) /\ Len(queue) <= QueueCap
    /\ ppc \in FlushSites \cup SyncSites \cup InRow
               \cup {"select", "batch", "stopped", "dead"}
    /\ buf \in Seq(Op) /\ waiters \subseteq Op
    /\ open \in BOOLEAN /\ unsynced \in BOOLEAN /\ refused \in BOOLEAN
    /\ renamed \in BOOLEAN
    /\ cpc \in {"serving", "dumping", "dumped", "closing"}
    /\ stored \in Seq(Op) /\ cached \in Seq(Op) /\ tmp \in Seq(Op)
    /\ alt \subseteq Seq(Op)
    /\ torn \in BOOLEAN /\ hole \in BOOLEAN
    /\ nfault \in 0..MaxFaults /\ ncrash \in 0..MaxCrashes /\ nvac \in 0..MaxVacuums

\* README.md:203, "Under `always` a successful PUT/DELETE/clone means the record is
\* on disk": whatever a power loss leaves of the file, now or in the middle of a
\* vacuum, it spells every operation answered with success (appendAOF, release).
AckedDurable == Always => \A h \in Survivors : acked \subseteq Range(h)

\* README.md:197-201, as a client sees it: once the server runs again, a write that
\* was answered with success before the crash is in the document.
AckedVisible == Up => acked \subseteq Range(mem)

\* Nothing that readers can see is forgotten: an operation in memory is in the file,
\* in the batch buffer kept for a retry, in the queue, or still in its handler
\* (setNode before appendAOF; flush keeps buf after a failure).
NothingForgotten ==
    Up => Range(mem) \subseteq
              Range(File) \cup Range(buf) \cup QueuedOps
                  \cup {CurrentOp(w) : w \in {v \in Writers : wpc[v] = "applied"}}

\* Under always no handler waits for a record that nobody will release: its record is
\* queued, or persist has taken it and remembers its done channel (appendAOF's
\* <-row.done against full batches, failed writes, vacuums and shutdown).
NoWaiterForgotten ==
    Always => \A w \in Writers : wpc[w] = "waiting" => CurrentOp(w) \in QueuedOps \cup waiters

\* No crash leaves a hole in what a handler wrote: if a later write of a handler
\* is in a file that a power loss may leave, so is every earlier one that readers
\* have seen since the start (one channel, one writer, writes in order).
CrashLosesSuffix ==
    Up => \A h \in Survivors, w \in Writers :
              \A n \in 1..MaxWrites : <<w, n>> \in Range(h) =>
                  \A m \in 1..n : <<w, m>> \in Range(mem) => <<w, m>> \in Range(h)

\* Refusing writes is never a dead end: there are pending records and a file to
\* write them to, so the next tick's flush retries (flush returns early, leaving
\* writesRefused set, when there is nothing to write).  While a vacuum has the file
\* closed the flag may wait for it.
RefusedCanRecover ==
    refused => buf # <<>> /\ (open \/ ppc \in InRow)

\* README.md:200: everysec bounds what a power loss takes to what came after the
\* last tick.  When the tick's fsync returns, every operation that was answered and
\* has left the queue is durable (persist's ticker case).
TickMakesDurable ==
    [][(ppc = "ticksync" /\ ppc' = "select")
          => \A h \in Survivors' : acked \cap Range(mem) \subseteq Range(h) \cup QueuedOps]_vars

\* README.md:240: a clean shutdown keeps everything readers could see, except what
\* handlers still queue behind the close command and, while writes are refused, the
\* batch that could not be stored (Close, doEraseAndDump, closeCmd).
CleanShutdownKeeps ==
    [][(ppc = "stopped" /\ ppc' = "dead" /\ ncrash' = ncrash)
          => Range(mem) \subseteq
                 Range(File') \cup QueuedOps \cup (IF refused THEN Range(buf) ELSE {})
                     \cup {CurrentOp(w) : w \in {v \in Writers : wpc[v] = "applied"}}]_vars

--------------------------------------------------------------------------------
(* Liveness.  The persist goroutine never stops while it has a step to take, main *)
(* closes the file once it has returned, and handlers past checkWritable finish. *)
(* Go's select picks at random among ready cases and the ticker fires again and  *)
(* again, so neither the queue nor the ticker is passed over for ever.           *)

Fairness ==
    /\ WF_vars(Batch) /\ WF_vars(Dump) /\ WF_vars(CloseFile)
    /\ SF_vars(Receive) /\ SF_vars(Tick)
    /\ \A w \in Writers : WF_vars(ApplyInMemory(w)) /\ SF_vars(AppendAOF(w))

FairSpec == Spec /\ Fairness

\* Under always a handler that waits for its record is answered, or the process
\* exits (appendAOF's <-row.done; release, failed, syncNow).
WaiterAnswered ==
    \A w \in Writers : (wpc[w] = "waiting") ~> (wpc[w] # "waiting")

\* README.md:229-231, "it retries every second and accepts writes again once the
\* pending records are stored" (failures are finite: nfault).
RefusalEnds == refused ~> ~refused

\* Under everysec what is acknowledged becomes durable with no further request,
\* unless the process dies first.
EventuallyDurable ==
    \A op \in Op : (Up /\ op \in acked /\ op \in Range(mem))
                     ~> (~Up \/ \A h \in Survivors : op \in Range(h))
================================================================================

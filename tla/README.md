# simpleconf in TLA+

simpleconf keeps one JSON document in memory, serves it over HTTP and over a
line protocol, and keeps it on disk and on other nodes in one of two ways:

- without Raft: an append-only file under `db.dir`, and for every other node a
  queue of writes on disk, sent in the background ("peers");
- with Raft: a Raft log, whose store `internal/cluster` implements itself.

These modules model the parts of it that are hard to test: what survives a
crash, a failed write or a failed fsync, what concurrent handlers and
background goroutines may do to one another, and what ends up on the peers.

## Inventory

| Part (under `src/`) | State | Operations | Hard behaviour | Module |
| --- | --- | --- | --- | --- |
| `internal/db/db.go`, append-only file | document, channel `persists`, batch, `waiters`, `unsynced`, `writesRefused`, data.aof and data.aof.tmp | Set, Del, Clone, Vacuum, Close, the persist goroutine, Init | group commit, failed and torn writes, fsync failure, vacuum, kill, power loss | `Aof` |
| `internal/db/db.go`, `tree.go`, document | `configRoot`, a tree of ordered objects, arrays and scalars; a cached rendering | set, delete, look up, clone by path; Get, Replace, replay | clone and rendering race with writes; records replayed over a snapshot | `Tree`, `Document` |
| `internal/peers/sync.go`, queue | `pending`, WAL file, `seq`, `synced`, `needCheckpoint`, signal channel | enqueue, syncTo, syncAll, checkpoint, ackN, run, loadWAL | group commit against checkpoints, failed appends, crashes, stalls | `PeerQueue` |
| `internal/peers/proto.go`, peers protocol | connection of the worker, goroutine per connection at the peer | sendBatch, applyBatch, serveTCP | lost answers, slow peers, refusals, resends | `PeerLink` |
| `internal/peers/sync.go`, Restore | none | Restore at each start without Raft, before the ports open | queued writes older or newer than the copy; an empty document that is not a new node's; text of an older version | parts of `Document`, `PeerLink` |
| `internal/cluster/filestore.go` | logs, keys, WAL, checkpoint, `dirty` | StoreLogs, DeleteRange, Set, background fsync, Close, load | two files replaced in turn, failed writes and fsyncs, crashes | `FileStore`, `StableStore` |
| `internal/cluster/cluster.go` | default manager, write hook, FSM | Apply*, Start, Shutdown, FSM apply, snapshot, restore | snapshots written while logs are applied; leadership | `StateMachine`, `Forward`; hook in `PeerLink` |
| `internal/cluster/forward.go` | pool of connections, `unsupported`, `closed` | forwardTCP, roundTrip, serveForward, close | time-outs and resends of a write, a leader that changes, stops or is old | `Forward` |
| `internal/wire/wire.go` | `handled`, `handler`, `closed` | serve, route, Accept, Close | close against route; accept errors | `Mux` |
| `internal/tcpapi/server.go` | `exit`, `wg`, `listener` | Listen, handle, Shutdown | shutdown against accept and against idle clients | `TcpServer` |
| `cmd/simpleconf/main.go` | none | start and stop order | what still runs while the parts close | `Server`, partly in `Aof` |

Not modelled, and not planned: the HTTP routes (`internal/httpapi`,
`internal/peers/peers.go`), which call the operations above; configuration; the
benchmark client; encodings; `hashicorp/raft`, a library.

How they meet: a handler calls `cluster.Apply*`. Without Raft that changes the
document, puts a record in the channel `persists` and, under `db.fsync:
always`, waits for it (`Aof`); then the hook `localWriteHook` queues the write
for each peer and, under `always`, waits for the queue's fsync (`PeerQueue`); a
worker sends the queue (`PeerLink`). With Raft the append-only file is off and
Raft keeps its log, term and vote in `FileStore`; a write goes to the leader
(`Forward`), which shares the Raft port with Raft itself (`Mux`), and every node
applies the committed log to its document (`StateMachine`). When the process
stops, main stops its servers one after the other (`Server`).

What makes each correct: an answer means what `db.fsync` says of it (README.md,
197-203), a crash never loses what it says is kept and never leaves a file that
does not load, a failure either ends the process or is healed, peers end with
the document of the sender, and nothing waits for ever.

## Modules

| Module | Of | Composed with |
| --- | --- | --- |
| `Aof` | `internal/db/db.go` | `MCAof` (TLC), `AofProofs` (TLAPS) |
| `FileStore` | `internal/cluster/filestore.go` | implements `StableStore`; `MCFileStore`, `FileStoreProofs` |
| `StableStore` | what Raft asks of its store: durable registers | |
| `PeerQueue` | the queue in `internal/peers/sync.go` | `MCPeerQueue`, `MCPeerQueueLive`, `PeerQueueProofs` |
| `Tree` | the algorithms of `internal/db/tree.go`: walks as recursive functions of the path, text as one step of each conversion | used by `Document` |
| `Document` | the values of the document, in memory and in the file | `TreeReference`, `MCDocument` (TLC), `DocumentProofs` |
| `StateMachine` | the FSM in `internal/cluster/cluster.go` over a committed log | `MCNode`, `NodeProofs` |
| `Forward` | `internal/cluster/forward.go` and `Manager.apply` | `MCForward`, `ForwardProofs` |
| `Mux`, `TcpServer` | `internal/wire/wire.go`, `internal/tcpapi/server.go` | composed by `Server` |
| `Server` | the end of `cmd/simpleconf/main.go` | `MCNode`, `NodeProofs` |
| `PeerLink` | the way of a write from one node's handlers to a peer's document | `MCPeerLink`, `PeerLinkProofs` |
| `Induction` | induction over the natural numbers, stated with sets | used by the proofs |

A definition marked `mutant:` stands next to the definition it is a broken form
of. It is part of no behaviour; it documents which mistake the properties
catch: each property fails when the mutant named for it in `PROJECT.json` takes
the place of the definition.

### The disk

All the modules share one view of files. A file is what a power loss keeps
(`stored`) followed by what only the page cache holds (`cached`); a power loss
keeps a prefix of the cached part. A write that stores a part of its bytes, or
a power loss in the middle of a record, leaves a partial record (`torn`). An
fsync that fails may drop the pages (`hole`): the process reads them back, a
crash loses them, and a later fsync succeeds without them. A rename not yet
followed by an fsync of the directory leaves the older file as one a power loss
may bring back (`alt`). `kill -9` keeps the page cache and ends the process.
The operators that model files, fsync and crashes are marked external in the
map: they are the operating system's.

### Aof

A document is the history of the operations that made it. So `mem` is a
sequence of operations; a snapshot in the file is the history it was taken
from, a record is one operation, and a replay is the concatenation.

- A handler goes `idle`, `checked` (`checkWritable`), `applied` (the change in
  memory), then `appendAOF`: the record enters the channel, if it has room, and
  under `always` the handler is `waiting` until persist releases it.
- The persist goroutine is `ppc`: `select`, `batch` (draining the channel), a
  flush, a sync or a step of a vacuum. One action stands for one call of the
  code that another goroutine or a crash can fall behind: a write, an fsync, a
  rename, a fsync of the directory, a reopen. What follows each call depends on
  the site that called it (`AfterFlush`, `AfterSync`).
- A failed write (`FlushFails`, `FlushTorn`) exits under `always` and otherwise
  refuses writes and keeps the batch.
- `POST /vacuum` and the vacuum of a clean `Close` are rows of the channel.
- `Kill` and `PowerLoss` may come at any step; `Restart` is `Init` with
  `replayAOF`.

Its bounds: writes per handler, failures, crashes, vacuums, the capacity of the
channel (1024 in the code, 2 here) and the records that fill the batch buffer
(64 KiB in the code, 2 records here). Two handlers with two writes each, or
three with one each and a shutdown, and capacity 2 make the channel full with a
handler blocked on it, the buffer full in the middle of a drain, and group
commit with two waiters.

### FileStore

Logs and stable keys are one function from items to values, `mem`; the WAL is a
sequence of records, each a function of the items it changes, and a load is the
checkpoint overlaid by the records in order. Every operation holds the store's
mutex throughout, so operations do not interleave; each is split at its calls
of the file system, where it may fail or the process may end. Raft's use of the
store is external: it appends after its last log, deletes a suffix from a
conflict on, or a prefix after a snapshot (never all: it keeps trailing logs),
and sets terms and votes. `may` holds, for each item, what the store may answer
after a crash as far as Raft was told: the last value answered for, and every
value put since. `StableStore` says that abstractly, and `Implements` checks
that the files and their replay do it.

### PeerQueue

One peer's queue. Writes are numbered as they are queued, so `w.seq` is the
number of the last; a WAL record is a number (`E`), `Ack` (`A`), or `Bad` (a
line that does not parse). Each handler, the everysec loop and the worker are
callers with a program counter; `w.mu` is held across a checkpoint (`MuFree`),
`syncMu` across an fsync (`SyncMuFree`), and the fsync itself runs without
`w.mu`. A checkpoint is three steps: file written and renamed, directory
fsynced, file opened. The peer takes any non-empty start of a batch, and an
answer may be lost (`ReplyLost`). A stop of the process is a `Kill`: nothing
stops the workers in main, and nothing is flushed.

`"tear"` is a power loss that leaves part of a record; the passing runs are
without it, since `PeerQueueTorn` shows what it does. `w.seq` and `w.synced`
restart at 0 in the code; here they go on from the number of writes so far,
which says the same, as only their order is used. An fsync of the WAL is taken
to cover its directory entry.

### PeerLink

The queue is the sequence of all writes queued so far, and `acked` how many the
worker has dropped. A write is two steps (`WriteLocally`, `QueueWrite`), as in
`ApplySetRaw`. `Send` puts a batch on the connection or on a new one, where the
peer's goroutine applies it one write at a time, until it is done, the budget
is spent or a write is refused. The answer, the batch or the connection may be
lost at any time (`LoseAnswer`, `PeerDrops`); when `SlowPeer` is set also while
the peer is still applying. After a restart of the sender `acked` may be any
smaller number, as acks are not fsynced. A peer restarts with what it has
applied (`db.fsync: always`) or, empty or replaced, with the sender's document.

A start of the sender is two steps. `SenderRestarts` loads the queue, whose
worker sends at once (`Configure`). `Restore` then opens the ports, until when
no handler writes and no peer can copy from this node (`starting`); if the
document has no key it may be the peer's from then on. `db.Empty` says that of
a new node and of one whose keys were all deleted, and of the latter the
deletions may still be in its queue: they go to the peer, and what they delete
stays in the copy. `revived` has those keys until they are written again, and
`EndsTheSame` and `SameAsLocal` leave them out; `NothingRevived` does not, and
fails (see below). That `Restore`'s vacuum is written before the next kill is
assumed: before, a start finds the empty document again.

Documents map keys to values. The writes are set, delete and clone of a whole
key. A peer that speaks only HTTP is a peer with batches of one.

### Tree and Document

A node is a record: a scalar, an array, or an object with its keys in order, its
values and the index from key to position that `treeObj` keeps. Setting and
deleting are the walks of `tree.go`, as functions of how far along the path they
are, with what it does on the way: a scalar on a path gives way to an object, an
array is padded, `-1` appends, a name in an array is refused. The two copies of
each walk in the code (for paths with and without escapes) are one. Numbers in a
path go up to 11 (`Names`); an array may be longer, and what is past that has no
name.

`appendTree` and `parseTree` recurse on what they are given. `Tree` has one step
of each, with what is done below as a parameter (`RenderStep`, `ParseStep`), and
`Document` takes the two, `Render` and `Parse`, as constants. `TreeReference`
has the two recursive operators that are their own step, which the run gives for
the constants; the proofs assume of the constants no more than that. `Canonical`
is what parsing does to a scalar's text: the run has a number that is stored in
another form than it was sent in. `TreeReference` also says what the walks
should do of the flat set of a tree's places, a path and what is there
(`Places`, `RefSet`, `RefDel`).

`Document` has what `Aof` abstracts to a history. A handler changes the tree and
then queues its record, so the two orders may differ; a clone reads under one
lock and writes under another; a vacuum takes its snapshot when persist gets to
it, while records it covers are still queued; Get takes the cached rendering
when it is not stale. A restart replays the file. A record is in the file as
soon as persist takes it, because batches, failed writes and fsyncs are `Aof`'s:
a crash here keeps any start of the records. `astray` names the top-level keys
for which the file may have another value, and when (see `ReplayRebuilds`).
`Replace` keeps the peer's text as the cached rendering. It may be any JSON: an
older version spells numbers its own way, so the text need not be what this
version renders, and `SnapshotFresh` says of it that it shows at every path what
the tree has.

### StateMachine

A document is the sequence of the logs that changed it; a refused command and a
vacuum change nothing. Raft commits one log, applies it, takes a snapshot from
the FSM and lets another goroutine write it out (`Persist`) while logs are
applied, drops logs that a snapshot covers, installs a snapshot on a node whose
next log is gone, and starts a node from its newest snapshot (`db.DisableAOF`:
there is no file). The logs themselves are `FileStore`'s.

### Forward

A call is one run of `Manager.apply`, named by its write and its hop: hop 1 is
the client's, and what `forwardHTTP` asks another node is a call of the next
hop. A connection has two ends: the client's is busy, idle in the pool or
closed; the server's reads, proposes, waits or is gone; requests and replies
are under way in between, and the network may lose the connection (`lost`: only
a deadline ends it) or reset it (`gone`). Raft is external: a leader, nodes that
believe they are the leader, who each takes for the leader, what is proposed and
what is committed. A new leader commits any start of what the last one was
still replicating; a proposal is answered when it has been applied or when its
node loses its leadership. `old` nodes run v0.6: they close the connection at
its first byte and forward over HTTP alone. Every node knows the HTTP address of
all, and forwards (`raft.forward`).

### Mux, TcpServer, Server

One program counter for each goroutine: serve and one per connection in `Mux`,
Listen and one per connection in `TcpServer`, main in `Server`. A connection's
goroutine in `Mux` is between Accept and its first byte (`route`), before the
critical section (`match`), served (`handling`) or about to be closed. Accept
errors may come without Close or Shutdown; one of them that is not a time-out
ends serve, and makes Listen return, after which main panics. `Server` takes
main's deferred calls in reverse order while all these goroutines run on.
`app.Shutdown` and the rest of `raft.Shutdown` are single steps: fiber and Raft
are libraries. Without Raft (`RaftEnabled = FALSE`) the `Mux` is the peers
port's, which nothing closes.

## Runs

Passing runs. "F" is the number of failures injected in one behaviour, "C" the
number of crashes.

| Run | Bounds | What it shows |
| --- | --- | --- |
| `AofAlways` | `always`; 3 handlers x 1 write, F 1, C 2, one vacuum, shutdown | `AckedDurable`, `AckedVisible`: what was answered is in every file a power loss may leave and in every restarted document. `NoWaiterForgotten`: the record of a handler that waits is in the channel or in persist's hands, whatever failed in between |
| `AofEverysec` | `everysec`; 2 x 2, F 2, a power loss, one vacuum | `NothingForgotten`: what readers saw is in the file, the batch or the queue after failed writes and vacuums. `CrashLosesSuffix`: a crash takes the latest of each handler's writes. `RefusedCanRecover`. `TickMakesDurable`: a tick's fsync covers everything answered that has left the channel |
| `AofLiveEverysec` | `everysec`; 2 x 1, F 2, a vacuum, a clean stop, fair | `RefusalEnds`, `EventuallyDurable`, and `CleanShutdownKeeps`: the file has what readers saw, up to what handlers queue behind the close row |
| `FileStoreAlways` | `raft.fsync: always`; 3 logs, 1 key, 2 values, 4 operations, F 1, C 2 | `SurvivesCrash`: every image a crash may leave loads, with the value answered last. `Implements`: durable registers |
| `FileStoreLazy` | `everysec`; 3 logs, 1 key, 1 value, 5 operations, F 2, a power loss, fair | `SurvivesCrash` for what everysec makes durable, `PendingSynced` and `CloseKeeps` for the rest. `OnlyDeleteOpensGap`: while memory is the log Raft knows, no append, failure or crash leaves a gap in what a start may load |
| `PeerQueueAlways` | `always`; 2 writers, 3 writes, F 1, C 1 | `AnsweredDurable`, `TakenInOrder`, `WALInStep`, `SyncedOnDisk`: answered writes stay queued on disk; the peer takes them in order |
| `PeerQueueLive` | either `everysec`; 1 writer, 2 writes, any failure, F 2; or `always`, 2 writes, a failed fsync, a kill, peer reachable; fair | `EventuallyOnDisk`: each queued write reaches the disk. `QueueDrains` to a peer that can be reached |
| `PeerLinkEnds` | 1 writer, 3 sets and deletes on 2 keys, 3 connections, one refusal, two restarts of either node, fair | `EndsTheSame`, `SameAsLocal` at the keys no start has brought back, and `QueueDrains` as long as the sender can connect |
| `Document` | 2 handlers, 2 of 13 writes, 3 files to start from, an older peer's document, a vacuum, C 1 | `ReplayRebuilds`: the file and what is queued rebuild what readers see. `SnapshotFresh`: the cached text shows what the tree has, also one that a peer has sent. `TreeMeetsReference`: each set and delete, in every document reached, does what `RefSet` and `RefDel` say, and a document survives being rendered and parsed. `DocTypeOK` with the index of every object |
| `Forward` | 2 nodes, 2 writes at the one that does not lead, 3 connections, 2 hops, 1 election, 1 answer late, 1 lost or reset connection or stopped node, the leader new or old, fair | `AnswerIsOwn`: an answer is read from a connection that carries nothing else. `OKIsCommitted`. `EveryWriteAnswered` |
| `Node` | 2 nodes, 4 logs, 2 snapshots, a restart; or 2 connections to the Raft port, 1 to the TCP API with 2 commands | `SameDocument`: every node has the document of the log it has applied. `StopNeverPanics`, `ClosedMeansClosed`: see below |

`PeerQueueLive` and `Node` are two instances each in one run: a behaviour picks
one in its first state and keeps it.

`StopNeverPanics` is about main's `log.Panic` on what Listen returns, which would
skip the deferred calls that close the store and the document: Shutdown must not
cause it at whatever step Listen is. `ClosedMeansClosed` is about a connection
that gets to the handler while `Mux.Close` runs, or after.

Two of anything that races, a batch of two in a queue of three, one more write
after each failure or crash: the properties are about one item and what another
one, a failure or a crash does to it, so that a third of each adds states and
no new case. What a power loss leaves is part of the state (`Survivors`,
`Images`), so a property about it is checked at every step, also in a run that
takes no crash step. The runs of `PeerQueue`, `PeerLink`, `Document`,
`Forward` and `Node` turn the deadlock check off: their writes are bounded, and a node with nothing to do stands
still. In the other runs something can always go on, and TLC checks it.

### Where the code departs from what it says

`FileStoreShortWrite` expects a violation of `SurvivesCrash`: a short write is
left in the WAL, the next record continues its line, is fsynced and answered,
and is dropped by the next start. `PROJECT.json` quotes the comment that this
contradicts.

The passing runs leave out what breaks a property, and each of the
configurations below puts one such thing back: `tlc -config <name>.cfg
MC<module>` ends with the violation.

| Configuration | Property | What happens |
| --- | --- | --- |
| `AofReopenFails` | `AckedDurable` | after a vacuum whose reopen fails, `always` answers writes that are in no file (`db.go:727`) |
| `AofNewFile` | `AckedDurable` | where fsync of a file does not cover its directory entry, a new data.aof can vanish (`db.go:685`) |
| `AofLostFsync` | `AckedDurable` | a vacuum's failed fsync is only logged; if the rename fails too, records are lost (`db.go:706`) |
| `AofRestartUnsynced` | `TickMakesDurable` | a replayed tail is not fsynced by any tick (`db.go:836`) |
| `FileStoreFsyncLost` | `SurvivesCrash` | a vote is answered over a hole left by a failed background fsync (`filestore.go:348`) |
| `FileStoreKilled` | `LoadedIsDurable` | a term read after a kill can be taken back by a power loss (`filestore.go:161`) |
| `FileStoreNotSynced` | `PendingSynced` | after a failed DeleteRange the loop passes the dirty WAL over (`filestore.go:345`) |
| `PeerQueueTorn` | `AnsweredDurable` | the partial record loadWAL skips swallows the next one (`sync.go:374`) |
| `PeerQueueFalseSync` | `AnsweredDurable` | syncTo reports success for a file a failed checkpoint closed (`sync.go:577`) |
| `PeerQueueStalls` | `QueueDrains` | after a failed ack the worker sleeps with writes queued (`sync.go:428`) |
| `PeerQueueRestart` | `EventuallyOnDisk` | a replayed queue is not fsynced by any tick (`sync.go:331`) |
| `PeerLinkClone` | `EndsTheSame` | a batch whose answer was lost is sent again in full, and a clone in it copies a value its source got later |
| `PeerLinkSlow` | `EndsTheSame` | the old connection's goroutine applies a write after the resent batch (`sync.go:483`) |
| `PeerLinkRace` | `SameAsLocal` | two handlers write in one order and queue in the other (`cluster.go:345`) |
| `DocumentAppend` | `AlwaysRebuilds` | an append whose record is queued behind a snapshot that has it is applied twice by a restart (`db.go:782`) |
| `ForwardTwice` | `CommittedOnce` | a write whose answer is late on a pooled connection is sent again and committed twice; `forward.go:206` speaks of a connection the leader has closed (`forward.go:218`) |
| `ForwardRelay` | `ForwardedOnce` | over HTTP a node that is not the leader forwards a write again; `forward.go:69` says a write is forwarded at most once (`cluster.go:527`) |

The rest are a listed configuration with this property in the place of its own:

| Configuration | Property | What happens |
| --- | --- | --- |
| `AofEverysec`, `Crashes <- Kills` | `AckedVisible` | a write answered while its record is in the channel is lost by `kill -9` (`db.go:558`) |
| `FileStoreLazy` | `GaplessIsEnough` | logs of failed appends stay in memory and a later DeleteRange checkpoints one; an append below it leaves a gap in the files that memory does not have (`filestore.go:510`) |
| `FileStoreAlways` | `DeleteLeavesNoGap` | a crash inside DeleteRange leaves a gap in the log (`filestore.go:290`) |
| `PeerLinkEnds`, two `Writers` | `EndsTheSame` | the queue spells another document than the sender has (`PeerLinkRace`), and a peer that starts with a copy of the sender's differs from one that was sent the queue |
| `PeerLinkEnds` | `NothingRevived` | the only key is set and delivered, then deleted; the sender restarts with the deletion queued, finds its document empty and copies the peer's; the deletion then reaches the peer alone (`sync.go:144`) |
| `Document` | `SnapshotIsRendered` | a restore keeps the peer's text: until the next write the whole document shows a number as an older version stored it, and its path shows the canonical one (`db.go:494`) |
| `Document` | `CloneIsOneStep` | the source of a clone changes between the two locks, and the target gets a value it no longer has (`db.go:502`) |
| `DocumentAppend`, two handlers, `MaxVacuums = 0` | `AlwaysRebuilds` | two handlers change a key in one order and queue their records in the other; a restart has the other value (`db.go:545`) |
| `Document`, `MaxVacuums = 0` | `AlwaysRebuilds` | the vacuum of a restore fails, and the file lacks the document (`sync.go:160`) |
| `Forward` | `CommittedOnce` | a fresh connection reset after its write was proposed is taken for a leader without forwarding, and the write is sent again over HTTP (`forward.go:229`) |
| `Node` | `KeepsAccepting` | an accept error that is not a time-out ends serve and leaves the port open: nothing is accepted until a restart (`wire.go:100`) |
| `Node`, `RaftEnabled = FALSE` | `NoWriteAfterClose` | a handler of the TCP API applies a command after `db.Close` (`server.go:64`) |

`AofLiveEverysec` with `Policy = "always"`, `Faults <- AnyFault`, `MaxFaults = 1`
and `WaiterAnswered` passes: every handler that waits is answered, or the
process exits.

`Kills` in `PeerLink` does the same for a kill between a write and its hook,
after which the write is in no queue; the README lets nodes differ after a
crash that loses a queue, so no configuration states a property against it.

## Fairness

Go runs a goroutine that can go on: weak fairness of its steps. A `select` with
several ready cases picks one at random and a mutex goes to every waiter in
turn (Go's mutex hands over to a starving waiter), so a case that is ready again
and again, or a waiter, is not passed over for ever: strong fairness of
receiving from the channel, of the ticker, of a lock. The tickers fire for ever.
`Forward` has weak fairness of each call, of the server's end of each connection
(goroutines that can go on), of Raft's commits while there is a leader, and of
a replaced leader's finding out; no election need happen.
No fairness is given to clients, to crashes, to failures (which are also
finite), to an answer of the peer except in `ReachableSpec` ("a peer that can be
reached"), or to vacuums and stops.

## Proofs

Every theorem holds for every value of the constants that the module's own
assumptions allow: any number of handlers, writes, nodes, connections, failures
and crashes. Where the code survives only some failures the theorem assumes
which, and the assumption is one that a configuration above shows to be needed.
Each module has `TypeCorrect`, `Spec => []TypeOK`, which assumes nothing
further; `Server` has it as a part of `ServerInvariant`, and `Document` as
`DocumentIsTyped`, with the hypotheses named there.

The theorems have one shape. The property alone is not inductive; what the code
keeps and never says is added to it as named parts, `IInv` or another name; one
lemma for each group of actions shows that a step keeps them, with one case for
each action; the last step puts these together.

### AofProofs

`AlwaysDurable`: `Spec => []AckedDurable`, assuming `Tolerated`; `AlwaysVisible`:
under `always` and `Tolerated`, `Spec => []AckedVisible`. `Tolerated` names the
failures the code does survive: an fsync of the file covers its directory entry;
a reopen after a vacuum does not fail; and, if the fsync at the start of a
vacuum may fail, the rename and the directory fsync after it do not.
`AofNewFile`, `AofReopenFails` and `AofLostFsync` show that none of the three
can be dropped.

`AckedDurable` alone does not say why the next release is safe. `IInv` adds
three parts. `SeenInMemory`: records reach the channel, the batch and the file
only after memory, so a snapshot of memory covers every waiter and every
answered operation. `FileState`: outside a vacuum the file is open, no pages are
missing, and outside a batch nothing is buffered, as a failed write ends the
process under `always`. `WaitersKept`: every waiter is in the file or in the
batch, and those in the file are in every file a power loss may leave as soon as
`unsynced` is false. Then: `SyncNow` makes the whole file durable and releases
the waiters in it; a sync site with `unsynced` false has nothing to make
durable; a rename keeps the old files in `alt`, which `Safe` ranges over, and
the renamed snapshot covers all; a restart loads one of the files `Safe` speaks
of.

The rest is about both policies.

| Theorem | Property | Assumes | Argument |
| --- | --- | --- | --- |
| `WaitersAreRemembered` | `NoWaiterForgotten` | nothing | a handler's record and its place among the waiters move together |
| `RefusalCanEnd` | `RefusedCanRecover` | `FileKept` | `Process`: which of file, batch and refusal go with each step of persist, and what an ended process leaves |
| `NothingIsForgotten` | `NothingForgotten` | `FileKept` | `Kept`: memory is the file, the batch and what is coming, also in the middle of a vacuum |
| `ShutdownKeeps` | `CleanShutdownKeeps` | `FileKept` | the same, at the end of the process |
| `CrashesLoseSuffixes` | `CrashLosesSuffix` | `FileKept` | `OrderedBy`: file, batch and channel each continue the writes of a handler in its order, and what a crash may leave is closed under "earlier write of the same handler" |
| `TicksMakeDurable` | `TickMakesDurable` | `TicksTolerated` | `Ticked`: when `unsynced` is false, all that was answered and has left the channel is safe |

`FileKept` is that no reopen fails: after one that does, records are in no file
(`AofReopenFails`). `Numbered` and `Fresh` say that a handler's operations are
numbered as it makes them and are made once. `TicksTolerated` is `everysec`,
`Tolerated`, no kill (`AofRestartUnsynced`), no failing truncate or fsync, and
not failing writes together with failing directory fsyncs; TLC finds a
violation with each of them put back.

### FileStoreProofs

`CrashSurvived` (`SurvivesCrash`) and `RegistersImplemented` (`Implements`)
assume `Tolerated`: no short write stays in the WAL (`FileStoreShortWrite`), no
fsync drops pages (`FileStoreFsyncLost`). `IInv` has four parts. `Files`: every
record parses, alternatives exist only while the WAL is closed, and from its
rename on the checkpoint is memory. `Answered`: what was answered without an
error is what the files load as they are. `Kept`: any checkpoint a power loss
may leave, under any WAL it may leave, loads what `may` allows; the proof needs
that of all pairs, although only some occur. `Steady`: unless the store is
dirty, no crash takes back what this process answered. The lemmas say what a
replay makes of a WAL (`LoadAppend`, `LoadOver`, `SameLoad`) and what a power
loss leaves of one (`SurvivorSound`, `StoredSurvives`, `AppendSurvives`). In the
refinement a put in the store is a put of the register, a fsync settles it, and
a clean stop may settle some puts on its way (`StableStore!Crash`).

`ClosedIsDurable` (`CloseKeeps`) also assumes that compactions succeed: a dirty
WAL closed by one that failed is passed over (`FileStoreNotSynced`).

`NoOtherGap` (`OnlyDeleteOpensGap`) rests on `LogInv`. `LastInFiles` is its
reason: if memory has Raft's last log so have the files, as it was put there by
the append, the deletion or the start that made it the last, and only a
`DeleteRange`, which takes it from memory too, takes it out. So an append, which
starts after that log, leaves none out. Stated for any memory without a gap,
this property is false, and the proof is what showed it: logs of failed appends
stay in memory, a later `DeleteRange` checkpoints them, and an append then fills
in below them (`GaplessIsEnough`). `KnowsLog` says which memory it holds for.

### PeerQueueProofs

`WALIsTheQueue` (`WALInStep`) and `SyncedSurvives` (`SyncedOnDisk`) assume
`NeverTorn`: no crash leaves a part of a record (`PeerQueueTorn`).
`AnswersSurvive` (`AnsweredDurable`) also assumes that checkpoints do not fail
(`PeerQueueFalseSync`), and `TakesInOrder` (`TakenInOrder`) `always` with both.
`Shape` says who holds `w.mu` and `syncMu` at each step. `WAL` says that
whatever a power loss leaves parses and spells ascending writes (`Whole`), that
memory and file agree while no checkpoint is due (`InStep`), and what an fsync
under way will have covered when it returns, although writes, acks and
checkpoints go on without it (`Fsyncs`). `Durable` adds the answers: a write
goes from the queue only when the peer has taken it, and a caller whose file was
replaced finds its write in the checkpoint. Replaying is a recursive function of
the lines; that it has the values it should, for WALs of every length, is proved
by `Induction`.

### PeerLinkProofs

`PeerEndsTheSame` (`EndsTheSame`) assumes `Prompt` (the peer's goroutine is done
before the sender gives up on it, and no clones: `PeerLinkSlow`,
`PeerLinkClone`), and that nothing restarts or else `InOrder`: one handler at a
time, none killed between its write and its hook. `PeerSameAsLocal`
(`SameAsLocal`) assumes `Prompt` and `InOrder` (`PeerLinkRace`; with two
handlers and a restart `EndsTheSame` fails as well). Both are for any number of
restarts of either node, each of which may restore from the other, and speak of
the keys that are not `revived`: at one that is, the sender differs from its
queue, and a peer that then copies the sender's document does too.

The invariant is `Reaches`: where the peer's document differs from what the
queue spells, a write of that key is still to come, or to come again, or in the
hand of a handler. That is why it does no harm to send a batch twice or to fall
back to any earlier ack. `Alone` says that only the connection waited for
applies writes, and `Own` that the sender's document is its queue and the write
in hand. Both parts are about one key at a time, so that `Restore`, which starts
from a document with no keys, changes `Own` only where it brings a key back. What a queue spells (`Spell`) is a recursive function, and the lemmas
about it are proved by `Induction`.

### ForwardProofs

`NoOthersAnswer` (`AnswerIsOwn`) and `SuccessIsCommitted` (`OKIsCommitted`)
assume nothing: they hold over any elections, late answers, resends, resets and
stopped nodes. The code nowhere says whose answer a connection carries. It
follows from four things that the invariant has together: a connection carries
one write at most, as request, served or answered (`ConnFits`); it is idle only
when it carries none; no two calls hold one connection (`Apart`); and what is on
a held connection is of the call that holds it (`Holds`). `TrueReplies` and
`TrueAnswers` say that an answer of success, under way or read, is of a
committed write; a new leader may drop writes from its predecessor's tail, but
not committed ones.

### NodeProofs

`NodesHaveTheLog` (`SameDocument`) and its corollary `NodesAgree`: nodes that
have applied as many logs have the same document. `SnapshotsTrue` is what a
restart needs: a snapshot, on disk or still being written out while logs are
applied, is of the log up to its own index, and no node has applied less than
its snapshots cover.

The end of a process: `ClosedStaysClosed` (`ClosedMeansClosed`) and
`ShutdownNeverPanics` (`StopNeverPanics`), for any number of connections, over
every interleaving of main's deferred calls with serve, Listen and the
connections. `ExitFirst` is the reason for the second: Shutdown sets `exit` before it closes the listener, so an
Accept that fails because of it finds `exit` set. Two facts that no run checks
come with the invariant: `OneMoreCommand`, a connection of the TCP API applies
at most one more command once Shutdown has begun; and `ExitClosesAll`, when main
exits, what its deferred calls close is closed.

### DocumentProofs

`SnapshotIsFresh` (`SnapshotFresh`), `DocumentIsTyped` (`DocTypeOK`) and
`ReplayRebuildsDocument` (`ReplayRebuilds`) assume
`AppendTree` and `ParseTree`: `Render` of a tree is `RenderStep` of it, and
`Parse` of a text is `ParseStep` of it. They hold for documents, paths and values
of any size and depth, any number of handlers, vacuums, crashes and restores.

A tree is a node in a set whose members have their children in it (`IsTree`),
which says "well formed at every depth" without recursion. Two trees are `Same`
when one relation holds between them that goes down to their children and does
not look at the order of keys: readers of a path cannot tell the two apart
(`SameSeen`). What a record does to a tree is walked along its path by
`Induction`, and four facts about it carry the rest:

- `Carried`: a record takes trees that are the same to trees that are the same.
- `ReadBack`: parsing what was rendered gives the same tree. A snapshot in the
  file so stands for the tree it was taken of, and the copy a clone's record
  holds for the value it put in memory.
- `Settled`: of two repeatable records, the one, then the other, then the one
  again leave what the other and then the one leave. So the records that are
  queued behind a snapshot, and are in it, do no harm when they are replayed over
  it (`AgainAfter`). An append, or the deletion of an element, is not repeatable,
  and its key goes astray (`Twice`).
- Records of different top-level keys do not touch one another.

The invariant adds three parts to the properties. `DocTyped` has the shape of
every tree, text and record, wherever one is held. `SnapSame` is that the cached
text, unless it is marked stale, reads as a tree that is `Same` as the document:
by `ReadBack` where it was rendered, and by itself where it is a peer's. `DocKept` is for each key that is
not astray: one handler at most has changed it and not yet queued its record,
and the file replayed with what is queued, followed by that record, has in this
key what memory has. A change by a second handler makes the key astray
(`Races`), which is why one owed record is enough; a vacuum replaces a replay
from the old file by one from the rendered tree, and is where `Settled` is
needed; after a crash the restart makes memory from the file, so the two agree by
definition, whatever was lost.

### What is only model-checked

- Liveness: `RefusalEnds`, `EventuallyDurable`, `PendingSynced`,
  `EventuallyOnDisk`, `QueueDrains` (twice) and `EveryWriteAnswered`. Fairness
  and `ENABLED` are out of the prover's reach.
- `TreeMeetsReference`. The reference recurses on trees (`Places`), as an
  operator, and the prover knows nothing of a `RECURSIVE` operator. What the
  proofs need of the walks they prove for themselves.
- That the operators the run gives for `Render` and `Parse` are their own steps,
  which `DocumentProofs` assumes of the constants: `RenderTree` and `ParseText`
  are by their definitions, and the prover takes neither.
- The configurations that end with a violation.

### What the models leave out

- `Tree`: an index above 11 and spellings such as `01`, which the code takes for
  indices, are refused.
- The order of keys. `Seen` and `Same` do not look at it, so nothing is said of
  `tree.go:10`: of two new keys set at the same time, a replay may show the other
  first.
- What pages a failed fsync leaves. After a kill `Aof` and `PeerQueue` read a file
  without them, `FileStore` with them; both may be.
- A stat of data.aof that fails when the file is opened again (`statSize`).
- A kill between a restore and the end of its vacuum in `PeerLink` (`Document` has
  it for the file), and the queues of more than one peer.

`Induction` has induction over the natural numbers with a set in the place of a
predicate, which is what makes `Replay` and `Spell` provable: they are recursive
functions over sequences, not recursive operators.

## Plan

What would come next, in this order:

1. `AofLoop`: the drain loop and the ticker with handlers that never stop.
2. `Restore`: three nodes, queues between them, a node that starts empty.
3. `RaftCluster`: `Forward` and `StateMachine` composed over one log, so that an
   answer is also about the document of the node that gave it, and what becomes
   of the ignored result of the FSM. Its proof composes `SuccessIsCommitted` and
   `NodesHaveTheLog`.
4. The memory of `FileStore` against Raft's own view after a failed append.
5. `RefSet` and `RefDel` over trees given as the set of their places, which needs
   no recursion, with a proof that `SetPath` and `DelPath` meet them.

-------------------------------- MODULE Document --------------------------------
(* The values of the document (internal/db/db.go), where Aof has its histories:   *)
(* request handlers change the tree in memory and queue what they did, persist    *)
(* writes it to the file or replaces the file by the rendered tree, a start       *)
(* replays the file, and a node that starts with no document takes a peer's.      *)
(*                                                                                *)
(* A record is in the file as soon as persist takes it: batches, failed writes    *)
(* and fsyncs are Aof's.  A path is split already; a query (#, *, ?) is answered  *)
(* from the rendered document by a library and is a Get of the whole document.    *)
EXTENDS Tree

CONSTANTS
    Render(_), Parse(_),    \* appendTree and parseTree, whose steps are in Tree
    Texts,          \* the JSON values that come from outside, with the values in them
    Paths,          \* paths that readers look at
    Handlers,       \* concurrent request handlers (HTTP, TCP, peers port)
    Sets,           \* the <<path, JSON value>> a client may put
    Dels,           \* the paths it may delete
    Clones,         \* the <<from, to>> paths it may clone
    Files,          \* documents that data.aof may hold at the first start
    PeerDocs,       \* what a peer may answer a restore with: any JSON, as an older one spells it
    MaxWrites, MaxVacuums, MaxCrashes   \* bounds: of a behaviour

Path == Seq(STRING) \ {<<>>}

\* The text that is stored is stored as it is; a value is made of other values; and
\* what comes from outside is text.
ASSUME CanonicalAssumption ==
    \A t \in DOMAIN Canonical :
        Canonical[t] \in DOMAIN Canonical /\ Canonical[Canonical[t]] = Canonical[t]
ASSUME NullAssumption == "null" \in DOMAIN Canonical /\ Canonical["null"] = "null"
ASSUME TextsAssumption ==
    \A j \in Texts :
        \/ j.kind = "leaf" /\ j = Leaf(j.text) /\ j.text \in DOMAIN Canonical
        \/ j.kind = "items" /\ j = JSONArr(j.items) /\ j.items \in Seq(Texts)
        \/ j.kind = "members" /\ j = JSONObj(j.members) /\ j.members \in Seq(STRING \X Texts)
ASSUME InputsAssumption ==
    /\ Sets \subseteq Path \X Texts /\ Dels \subseteq Path /\ Clones \subseteq Path \X Path
    /\ Files \subseteq Texts /\ PeerDocs \subseteq Texts /\ Paths \subseteq Path
ASSUME HandlersAssumption == IsFiniteSet(Handlers)

VARIABLES
    root,           \* configRoot
    snap,           \* configSnapshot
    stale,          \* configStale
    pc,             \* where each handler is
    row,            \* the record it will queue
    copied,         \* what a clone has read, as JSON
    queue,          \* the channel `persists`
    base, recs,     \* data.aof: the document it starts with, and the records after it
    phase,          \* "down", "starting" or "serving"
    astray,         \* ghost: top-level keys the file may have a different value for
    nw, nvac, ncrash

docVars     == <<root, snap, stale>>
handlerVars == <<pc, row, copied>>
fileVars    == <<base, recs>>
boundVars   == <<nw, nvac, ncrash>>
vars == <<docVars, handlerVars, queue, fileVars, phase, astray, boundVars>>

SetRow(path, raw) == [cmd |-> "set", path |-> path, raw |-> raw]
DelRow(path)      == [cmd |-> "del", path |-> path]
DumpRow           == [cmd |-> "dump"]

Top(r) == Head(r.path)

\* parseTreeRaw of a whole document, which must be an object.
ParseDoc(raw) == LET n == Parse(raw) IN IF n.kind = "obj" THEN n ELSE NewObj

\* replayAOF: a record that the tree refuses is skipped.
ReplayRow(n, r) ==
    CASE r.cmd = "set" -> LET m == SetPath(n, r.path, Parse(r.raw))
                          IN IF m = Refused THEN n ELSE m
      [] r.cmd = "del" -> DelPath(n, r.path)
      [] OTHER -> n
ReplayFrom(doc, rows) ==
    LET n[i \in 0..Len(rows)] == IF i = 0 THEN doc ELSE ReplayRow(n[i - 1], rows[i])
    IN n[Len(rows)]
Replay(doc, rows) == ReplayFrom(ParseDoc(doc), rows)

\* setNode and delonly: the tree changes and the rendered document is out of date.
Change(n)  == root' = n /\ stale' = TRUE /\ UNCHANGED snap
NoHandlers == /\ pc = [h \in Handlers |-> "idle"] /\ row = [h \in Handlers |-> DumpRow]
              /\ copied = [h \in Handlers |-> Null]

Init ==
    /\ base \in Files /\ recs = <<>>
    /\ root = ParseDoc(base) /\ snap = JSONObj(<<>>) /\ stale = TRUE
    /\ NoHandlers /\ queue = <<>>
    /\ phase = "starting" /\ astray = {}
    /\ nw = 0 /\ nvac = 0 /\ ncrash = 0

--------------------------------------------------------------------------------
(* Request handlers.                                                             *)

Pending == {h \in Handlers : pc[h] = "applied"}

\* The file takes the records of one key in the order they are queued, which is not
\* the order of the changes when another handler has changed the key and not queued.
Races(r) == IF \E h \in Pending : Top(row[h]) = Top(r) THEN {Top(r)} ELSE {}

Applied(h, r) ==
    /\ pc' = [pc EXCEPT ![h] = "applied"] /\ row' = [row EXCEPT ![h] = r]
    /\ astray' = astray \cup Races(r)
    /\ UNCHANGED <<queue, fileVars, phase, nvac, ncrash>>

Begin(h) == phase = "serving" /\ pc[h] = "idle" /\ nw < MaxWrites /\ nw' = nw + 1

\* Set and SetRaw.  The text of the record is rendered before the node is published.
\* A path that the tree refuses is answered with an error, and changes nothing.
Set(h) ==
    \E s \in Sets :
        /\ Begin(h)
        /\ LET v == Parse(s[2])
               n == SetPath(root, s[1], v)
           IN n # Refused /\ Change(n) /\ Applied(h, SetRow(s[1], Render(v)))
        /\ UNCHANGED copied

Del(h) ==
    \E path \in Dels :
        /\ Begin(h) /\ Change(DelPath(root, path)) /\ Applied(h, DelRow(path))
        /\ UNCHANGED copied

\* Clone reads the source under one lock and writes the target under another.  With
\* no source, or a target that the tree refuses, it queues nothing and answers OK.
CloneRead(h) ==
    \E c \in Clones :
        /\ Begin(h) /\ Lookup(root, c[1]) # Absent
        /\ copied' = [copied EXCEPT ![h] = Render(Lookup(root, c[1]))]
        /\ row' = [row EXCEPT ![h] = SetRow(c[2], copied'[h])]
        /\ pc' = [pc EXCEPT ![h] = "copied"]
        /\ UNCHANGED <<docVars, queue, fileVars, phase, astray, nvac, ncrash>>

CloneWrite(h) ==
    /\ pc[h] = "copied"
    /\ copied' = [copied EXCEPT ![h] = Null]
    /\ LET n == SetPath(root, row[h].path, Parse(row[h].raw))
       IN \/ n # Refused /\ Change(n) /\ Applied(h, row[h])
          \/ /\ n = Refused
             /\ pc' = [pc EXCEPT ![h] = "idle"] /\ row' = [row EXCEPT ![h] = DumpRow]
             /\ UNCHANGED <<docVars, queue, fileVars, phase, astray, nvac, ncrash>>
    /\ UNCHANGED nw

\* appendAOF.  When the handler is answered is Aof's.
AppendAOF(h) ==
    /\ pc[h] = "applied"
    /\ queue' = Append(queue, row[h])
    /\ pc' = [pc EXCEPT ![h] = "idle"] /\ row' = [row EXCEPT ![h] = DumpRow]
    /\ UNCHANGED <<docVars, copied, fileVars, phase, astray, boundVars>>

Vacuum ==
    /\ phase = "serving" /\ nvac < MaxVacuums /\ nvac' = nvac + 1
    /\ queue' = Append(queue, DumpRow)
    /\ UNCHANGED <<docVars, handlerVars, fileVars, phase, astray, nw, ncrash>>

\* snapshot, with its second look at configStale: Get of the whole document.
SnapshotOf(n, s, dirty) == IF dirty THEN Render(n) ELSE s
TakeSnapshot == snap' = SnapshotOf(root, snap, stale) /\ stale' = FALSE /\ UNCHANGED root

Get ==
    /\ phase = "serving" /\ stale /\ TakeSnapshot
    /\ UNCHANGED <<handlerVars, queue, fileVars, phase, astray, boundVars>>

--------------------------------------------------------------------------------
(* persist.                                                                      *)

Persist ==
    /\ phase # "down" /\ queue # <<>> /\ queue' = Tail(queue)
    /\ UNCHANGED <<handlerVars, phase, boundVars>>

Record ==
    /\ Persist /\ Head(queue) # DumpRow
    /\ recs' = Append(recs, Head(queue))
    /\ UNCHANGED <<docVars, base, astray>>

\* Records queued behind a snapshot that holds their change are replayed over it.
\* It does no harm to repeat most of them.
Held == {queue[i] : i \in 2..Len(queue)} \cup {row[h] : h \in Pending}
Repeatable(r) ==
    /\ "-1" \notin ToSet(r.path)
    /\ r.cmd = "del" => ~IsIndex(Last(r.path))
Twice == {Top(r) : r \in {q \in Held : q # DumpRow /\ ~Repeatable(q)}}

\* doEraseAndDump: the document as it is now takes the place of the file.
DumpKeepingRecords ==  \* mutant: the old records follow the new snapshot
    /\ Persist /\ Head(queue) = DumpRow
    /\ TakeSnapshot
    /\ base' = snap'
    /\ astray' = Twice \cup (IF Held \subseteq {DumpRow} THEN {} ELSE astray)
    /\ UNCHANGED recs
Dump ==
    /\ Persist /\ Head(queue) = DumpRow
    /\ TakeSnapshot
    /\ base' = snap' /\ recs' = <<>>
    /\ astray' = Twice \cup (IF Held \subseteq {DumpRow} THEN {} ELSE astray)

\* It may have rendered the document before it fails.
DumpFails ==
    /\ Persist /\ Head(queue) = DumpRow
    /\ TakeSnapshot \/ UNCHANGED docVars
    /\ UNCHANGED <<fileVars, astray>>

--------------------------------------------------------------------------------
(* Stop and start.                                                               *)

\* What is not durable of the file goes with the queue.
Crash ==
    /\ phase # "down" /\ ncrash < MaxCrashes /\ ncrash' = ncrash + 1
    /\ phase' = "down"
    /\ \E i \in 0..Len(recs) : recs' = SubSeq(recs, 1, i)
    /\ root' = NewObj /\ snap' = JSONObj(<<>>) /\ stale' = FALSE
    /\ pc' = [h \in Handlers |-> "idle"] /\ row' = [h \in Handlers |-> DumpRow]
    /\ copied' = [h \in Handlers |-> Null]
    /\ queue' = <<>> /\ astray' = {}
    /\ UNCHANGED <<base, nw, nvac>>

\* Init: reopen and replayAOF.
Start ==
    /\ phase = "down" /\ phase' = "starting"
    /\ Change(Replay(base, recs))
    /\ UNCHANGED <<handlerVars, queue, fileVars, astray, boundVars>>

Empty == root.keys = <<>>

\* Restore: Replace and a vacuum.  The document has the peer's text as its rendering,
\* which need not be how this version renders it.
ReplaceKeepingSnapshot(raw) ==  \* mutant: the rendering of the old document is kept
    root' = ParseDoc(raw) /\ stale' = FALSE /\ UNCHANGED snap
Replace(raw) == root' = ParseDoc(raw) /\ snap' = raw /\ stale' = FALSE

Restore ==
    /\ phase = "starting" /\ Empty
    /\ \E raw \in PeerDocs : Replace(raw)
    /\ queue' = Append(queue, DumpRow)
    /\ astray' = ToSet(root'.keys)
    /\ phase' = "serving"
    /\ UNCHANGED <<handlerVars, fileVars, boundVars>>

\* The local document is kept, or no peer has answered.
Serve ==
    /\ phase = "starting" /\ phase' = "serving"
    /\ UNCHANGED <<docVars, handlerVars, queue, fileVars, astray, boundVars>>

Handler(h) == Set(h) \/ Del(h) \/ CloneRead(h) \/ CloneWrite(h) \/ AppendAOF(h)
Next ==
    \/ \E h \in Handlers : Handler(h)
    \/ Vacuum \/ Get \/ Record \/ Dump \/ DumpFails
    \/ Crash \/ Start \/ Restore \/ Serve
Spec == Init /\ [][Next]_vars

--------------------------------------------------------------------------------
(* Properties.                                                                   *)

JSON(n) == n.kind \in {"leaf", "members", "items"}

\* The tree is an object, the index of each object in it names the places of its keys
\* (treeObj.put and del renumber them), and the handlers and records are well formed.
DocTypeOK ==
    /\ root.kind = "obj" /\ InStep(root)
    /\ \A path \in Paths : InStep(Lookup(root, path))
    /\ JSON(snap) /\ JSON(base) /\ stale \in BOOLEAN
    /\ pc \in [Handlers -> {"idle", "copied", "applied"}]
    /\ \A h \in Handlers : JSON(copied[h]) /\ (pc[h] # "idle" => row[h].cmd \in {"set", "del"})
    /\ DumpRow \notin ToSet(recs)
    /\ phase \in {"down", "starting", "serving"}

\* A reader of the whole document, and of what a query finds in it, is shown at every path
\* what a reader of the path is: configStale against every writer, and Replace, whose
\* text is a peer's.
SnapshotFresh ==
    ~stale /\ phase # "down" =>
        LET n == ParseDoc(snap)
        IN \A path \in Paths : Seen(n, path) = Seen(root, path)

\* The text itself is how the tree is rendered; see the README for how this fails.
SnapshotIsRendered == ~stale /\ phase # "down" => snap = Render(root)

\* The file, with what is queued for it, rebuilds what readers see at every path: across
\* vacuums that work or fail, refused paths, clones, crashes and restores.  Left out are
\* the keys that two handlers are changing, those with an append queued behind a snapshot
\* that holds it, and a restored document until it is written.
Coming == queue \o SetToSeq({row[h] : h \in Pending})
Rebuilt == Replay(base, recs \o Coming)
ReplayRebuilds ==
    phase = "serving" =>
        LET n == Rebuilt
        IN \A path \in Paths : Head(path) \notin astray => Seen(n, path) = Seen(root, path)

\* With nothing left out; see the README for how this fails.
AlwaysRebuilds ==
    (phase = "serving" /\ queue = <<>> /\ Pending = {}) =>
        LET n == Rebuilt IN \A path \in Paths : Seen(n, path) = Seen(root, path)

\* A clone gives its target the value that the source has at that moment; see the
\* README for how this fails.
CloneIsOneStep ==
    [][\A h \in Handlers : pc[h] = "copied" /\ pc'[h] = "applied"
          => \E c \in Clones : c[2] = row[h].path /\ Lookup(root, c[1]) # Absent
                                  /\ Render(Lookup(root, c[1])) = copied[h]]_vars
================================================================================

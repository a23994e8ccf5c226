---------------------------- MODULE PeerQueueProofs ----------------------------
(* That the WAL of a peer's queue stays in step with the queue, that what was      *)
(* fsynced is on the disk, and that under db.fsync always no write is lost that was *)
(* answered, for every number of writers, writes, failures and crashes.            *)
EXTENDS PeerQueue, Induction, SequenceTheorems

--------------------------------------------------------------------------------
(* The invariants.                                                                *)

Loads(f) == Replay(f).ops
Ascending(s) == \A i, j \in 1..Len(s) : i < j => s[i] < s[j]
HoldsSyncMu == {"fsync", "synced", "failed", "sync"}

(* Types and locks, for any failures and crashes.                                 *)
Locks ==
    /\ \A c, d \in Caller : pc[c] \in Locking /\ pc[d] \in Locking => c = d
    /\ \A c, d \in Caller : pc[c] \in HoldsSyncMu /\ pc[d] \in HoldsSyncMu => c = d
    /\ ~Up => \A c \in Caller \ {"run"} : pc[c] = "idle"
Peeked ==
    pc["run"] \in {"send", "took"} =>
        /\ Len(batch) \in 1..Len(pending) /\ batch = SubSeq(pending, 1, Len(batch))
Waiting == \A c \in Writers : pc[c] \in Locking \cup {"want", "fsync", "synced", "failed"} =>
                                want[c] > base
Shape == TypeOK /\ Locks /\ Waiting /\ Peeked

(* The WAL.  A line that does not parse can only come of a record that was written *)
(* in part and left there by a crash.                                             *)
NeverTorn == "tear" \notin Crashes /\ ~ ("shortwrite" \in Faults /\ "kill" \in Crashes)

Whole ==
    /\ \A f \in Survivors : Replay(f).ok /\ Ascending(Loads(f))
    /\ Ascending(pending)
    /\ torn => Up /\ needCkpt /\ "shortwrite" \in Faults
InStep ==
    /\ Up /\ step = "none" /\ ~needCkpt => Replay(File) = [ops |-> pending, ok |-> TRUE]
    /\ step \in {"dir", "open"} => stored = pending /\ cached = <<>> /\ ~hole /\ ~torn

\* The queued writes up to n are in whatever a power loss leaves.
OnDisk(n) == \A op \in Range(pending) : op \in (base + 1)..n =>
                \A f \in Survivors : op \in Range(Loads(f))
FsyncCovers == \A op \in Range(pending) : op \in (base + 1)..target => op \in Range(Loads(File))

Fsyncs ==
    /\ \A c \in Caller :
          /\ pc[c] = "fsync" => ~hole /\ want[c] <= target
          /\ pc[c] \in {"fsync", "failed"} /\ ~stale => step = "none" /\ synced < want[c]
          /\ pc[c] = "fsync" /\ ~stale => FsyncCovers
          /\ pc[c] = "synced" => want[c] <= target /\ OnDisk(target)
    /\ Up /\ hole => \/ step = "write" \/ needCkpt
                     \/ \E c \in Caller : pc[c] = "failed" /\ ~stale
    /\ Up => OnDisk(synced)

WAL == Whole /\ InStep /\ Fsyncs

(* The answers under db.fsync always.  An fsync of a file that a checkpoint has     *)
(* closed is taken for done, so the checkpoint must not have failed.               *)
CheckpointsLast == Faults \cap {"checkpoint", "dirsync"} = {}

Queued ==
    /\ Up => answered \subseteq taken \cup Range(pending)
    /\ Up => \A op \in (base + 1)..nops : op \in taken \cup Range(pending)
    /\ pc["run"] = "took" => Range(batch) \subseteq taken
Waits ==
    /\ \A c \in Caller : stale /\ pc[c] \in {"fsync", "failed"} =>
                             synced >= want[c] \/ step \in {"write", "dir"}
    /\ step = "open" => synced = nops
Durable == Queued /\ Waits /\ \A f \in Survivors : answered \subseteq taken \cup Range(Loads(f))

--------------------------------------------------------------------------------
(* Replay, which is a recursive function, line by line.                            *)

Lines == Int
Queue == [ops : Seq(Lines), ok : BOOLEAN]
Empty == [ops |-> <<>>, ok |-> TRUE]
Reads(f, g) == g = [i \in 0..Len(f) |-> IF i = 0 THEN Empty ELSE ReadLine(g[i - 1], f[i])]

LEMMA ReadTypes == ASSUME NEW q \in Queue, NEW r \in Lines PROVE ReadLine(q, r) \in Queue
<1>1. Append(q.ops, r) \in Seq(Lines)
  BY DEF Queue
<1>2. q.ops # <<>> => Tail(q.ops) \in Seq(Lines)
  BY DEF Queue
<1>. QED  BY <1>1, <1>2 DEF ReadLine, Queue

LEMMA ReadAck ==
    ASSUME NEW s, s # <<>>
    PROVE  ReadLine([ops |-> s, ok |-> TRUE], Ack) = [ops |-> Tail(s), ok |-> TRUE]
<1> DEFINE q == [ops |-> s, ok |-> TRUE]
<1>1. q.ok /\ q.ops # <<>>
  OBVIOUS
<1>2. Ack # Bad
  BY DEF Ack, Bad
<1>3. ReadLine(q, Ack) = [q EXCEPT !.ops = Tail(q.ops)]
  <2> HIDE DEF q
  <2>. QED  BY <1>1, <1>2 DEF ReadLine
<1>4. \A x, t, b : [[ops |-> x, ok |-> b] EXCEPT !.ops = t] = [ops |-> t, ok |-> b]
  OBVIOUS
<1>. QED  BY <1>3, <1>4

\* There is a function that reads f line by line.
LEMMA ReadsExists ==
    ASSUME NEW f \in Seq(Lines)
    PROVE  \E g : Reads(f, g) /\ g \in [0..Len(f) -> Queue]
<1> DEFINE Is(n, g) == /\ g \in [0..n -> Queue] /\ g[0] = Empty
                       /\ \A i \in 1..n : g[i] = ReadLine(g[i - 1], f[i])
           S == {n \in Nat : n <= Len(f) => \E g : Is(n, g)}
<1>1. 0 \in S
  <2>1. Empty \in Queue
    BY DEF Empty, Queue
  <2>2. Is(0, [i \in 0..0 |-> Empty])
    BY <2>1
  <2>. QED  BY <2>2
<1>2. ASSUME NEW n \in Nat, n \in S PROVE n + 1 \in S
  <2> SUFFICES ASSUME n + 1 <= Len(f) PROVE \E g : Is(n + 1, g)
    OBVIOUS
  <2>1. PICK g : Is(n, g)
    BY <1>2
  <2> DEFINE h == [i \in 0..(n + 1) |-> IF i <= n THEN g[i] ELSE ReadLine(g[n], f[n + 1])]
  <2>2. ReadLine(g[n], f[n + 1]) \in Queue
    BY <2>1, ReadTypes DEF Lines
  <2>3. h \in [0..(n + 1) -> Queue] /\ h[0] = Empty
    BY <2>1, <2>2
  <2>4. \A i \in 1..(n + 1) : h[i] = ReadLine(h[i - 1], f[i])
    <3> TAKE i \in 1..(n + 1)
    <3>1. i - 1 \in 0..(n + 1) /\ i - 1 <= n /\ h[i - 1] = g[i - 1]
      OBVIOUS
    <3>2. CASE i <= n
      BY <2>1, <3>1, <3>2
    <3>3. CASE i = n + 1
      BY <3>1, <3>3
    <3>. QED  BY <3>2, <3>3
  <2>. QED  BY <2>3, <2>4
<1>3. Len(f) \in S
  <2> HIDE DEF S
  <2>. QED  BY <1>1, <1>2, SetInduction
<1>4. PICK g : Is(Len(f), g)
  BY <1>3
<1>5. Reads(f, g)
  <2> DEFINE h == [i \in 0..Len(f) |-> IF i = 0 THEN Empty ELSE ReadLine(g[i - 1], f[i])]
  <2>1. \A i \in 0..Len(f) : g[i] = h[i]
    BY <1>4
  <2>2. g = [i \in 0..Len(f) |-> g[i]]
    BY <1>4
  <2>. QED  BY <2>1, <2>2 DEF Reads
<1>. QED  BY <1>4, <1>5

LEMMA ReadsFirst ==
    ASSUME NEW f \in Seq(Lines), NEW g, Reads(f, g)
    PROVE  g[0] = Empty /\ \A i \in 1..Len(f) : g[i] = ReadLine(g[i - 1], f[i])
<1> DEFINE h == [i \in 0..Len(f) |-> IF i = 0 THEN Empty ELSE ReadLine(g[i - 1], f[i])]
<1>1. g = h
  BY DEF Reads
<1>2. h[0] = Empty /\ \A i \in 1..Len(f) : h[i] = ReadLine(g[i - 1], f[i])
  OBVIOUS
<1> HIDE DEF h
<1>. QED  BY <1>1, <1>2

\* What has been read of a file depends on the lines read.
LEMMA ReadsSame ==
    ASSUME NEW f \in Seq(Lines), NEW g, Reads(f, g), NEW e \in Seq(Lines), NEW h, Reads(e, h),
           NEW m \in Nat, m <= Len(f), m <= Len(e), \A i \in 1..m : e[i] = f[i]
    PROVE  g[m] = h[m]
<1> DEFINE S == {n \in Nat : n <= m => g[n] = h[n]}
<1>1. 0 \in S
  BY ReadsFirst
<1>2. ASSUME NEW n \in Nat, n \in S PROVE n + 1 \in S
  <2> SUFFICES ASSUME n + 1 <= m PROVE g[n + 1] = h[n + 1]
    OBVIOUS
  <2>1. n + 1 \in 1..Len(f) /\ n + 1 \in 1..Len(e) /\ (n + 1) - 1 = n
    OBVIOUS
  <2>2. g[n + 1] = ReadLine(g[n], f[n + 1]) /\ h[n + 1] = ReadLine(h[n], e[n + 1])
    BY <2>1, ReadsFirst
  <2>. QED  BY <1>2, <2>2
<1>3. m \in S
  <2> HIDE DEF S
  <2>. QED  BY <1>1, <1>2, SetInduction
<1>. QED  BY <1>3

LEMMA ReplayIs ==
    ASSUME NEW f \in Seq(Lines), NEW g, Reads(f, g)
    PROVE  Replay(f) = g[Len(f)]
<1> DEFINE h == CHOOSE read : Reads(f, read)
<1>1. Reads(f, h)
  OBVIOUS
<1>2. Replay(f) = h[Len(f)]
  BY DEF Replay, Reads, Empty
<1> HIDE DEF h
<1>. QED  BY <1>1, <1>2, ReadsSame

LEMMA ReplayTypes == ASSUME NEW f \in Seq(Lines) PROVE Replay(f) \in Queue
BY ReadsExists, ReplayIs

LEMMA ReplayEmpty == Replay(<<>>) = Empty
<1>1. <<>> \in Seq(Lines) /\ Len(<<>>) = 0
  OBVIOUS
<1>2. PICK g : Reads(<<>>, g)
  BY <1>1, ReadsExists
<1>. QED  BY <1>1, <1>2, ReplayIs, ReadsFirst

LEMMA ReplayAppend ==
    ASSUME NEW f \in Seq(Lines), NEW r \in Lines
    PROVE  Replay(Append(f, r)) = ReadLine(Replay(f), r)
<1> DEFINE e == Append(f, r)
<1>1. e \in Seq(Lines) /\ Len(e) = Len(f) + 1 /\ e[Len(f) + 1] = r /\ \A i \in 1..Len(f) : e[i] = f[i]
  OBVIOUS
<1> HIDE DEF e
<1>2. PICK g : Reads(f, g)
  BY ReadsExists
<1>3. PICK h : Reads(e, h)
  BY <1>1, ReadsExists
<1>4. g[Len(f)] = h[Len(f)]
  BY <1>1, <1>2, <1>3, ReadsSame
<1>5. Len(f) + 1 \in 1..Len(e) /\ (Len(f) + 1) - 1 = Len(f)
  BY <1>1
<1>6. h[Len(f) + 1] = ReadLine(h[Len(f)], r)
  BY <1>1, <1>3, <1>5, ReadsFirst
<1>. QED  BY <1>1, <1>2, <1>3, <1>4, <1>6, ReplayIs DEF e

--------------------------------------------------------------------------------
(* What a start loads from files of the kinds there are.                           *)

LEMMA Prefixes ==
    ASSUME NEW T, NEW f \in Seq(T)
    PROVE  /\ SubSeq(f, 1, 0) = <<>> /\ SubSeq(f, 1, Len(f)) = f
           /\ \A n \in 0..Len(f) : SubSeq(f, 1, n) \in Seq(T) /\ Len(SubSeq(f, 1, n)) = n
           /\ \A n \in Nat : n + 1 <= Len(f) =>
                  SubSeq(f, 1, n + 1) = Append(SubSeq(f, 1, n), f[n + 1])
<1>1. SubSeq(f, 1, 0) = <<>> /\ SubSeq(f, 1, Len(f)) = f
  BY SubSeqEmpty, SubSeqFull
<1>2. \A n \in 0..Len(f) : /\ SubSeq(f, 1, n) \in Seq(T) /\ Len(SubSeq(f, 1, n)) = n
                           /\ \A i \in 1..n : SubSeq(f, 1, n)[i] = f[i]
  <2> TAKE n \in 0..Len(f)
  <2>1. \A i \in 1..n : f[i] \in T
    OBVIOUS
  <2>. QED  BY <2>1, SubSeqProperties
<1>3. ASSUME NEW n \in Nat, n + 1 <= Len(f)
      PROVE  SubSeq(f, 1, n + 1) = Append(SubSeq(f, 1, n), f[n + 1])
  <2> DEFINE a == SubSeq(f, 1, n + 1)
             b == SubSeq(f, 1, n)
             c == Append(b, f[n + 1])
  <2>1. f[n + 1] \in T
    BY <1>3
  <2>2. /\ a \in Seq(T) /\ Len(a) = n + 1 /\ \A i \in 1..(n + 1) : a[i] = f[i]
        /\ b \in Seq(T) /\ Len(b) = n /\ \A i \in 1..n : b[i] = f[i]
    BY <1>2, <1>3
  <2> HIDE DEF a, b
  <2>3. c \in Seq(T) /\ Len(c) = n + 1 /\ \A i \in 1..n : c[i] = b[i]
    BY <2>1, <2>2
  <2>4. c[n + 1] = f[n + 1]
    BY <2>1, <2>2
  <2>5. \A i \in 1..(n + 1) : a[i] = c[i]
    BY <2>2, <2>3, <2>4
  <2> HIDE DEF c
  <2>6. a = c
    BY <2>2, <2>3, <2>5, SeqEqual
  <2>. QED  BY <2>6 DEF a, b, c
<1>. QED  BY <1>1, <1>2, <1>3

LEMMA PrefixElements ==
    ASSUME NEW T, NEW f \in Seq(T), NEW n \in 0..Len(f)
    PROVE  /\ SubSeq(f, 1, n) \in Seq(T) /\ Len(SubSeq(f, 1, n)) = n
           /\ \A i \in 1..n : SubSeq(f, 1, n)[i] = f[i]
<1>1. \A i \in 1..n : f[i] \in T
  BY ElementOfSeq
<1>. QED  BY <1>1, SubSeqProperties

LEMMA PrefixOfAppend ==
    ASSUME NEW T, NEW f \in Seq(T), NEW r, NEW n \in 0..Len(f)
    PROVE  SubSeq(Append(f, r), 1, n) = SubSeq(f, 1, n)
<1> DEFINE U == T \cup {r}
           e == Append(f, r)
<1>1. f \in Seq(U) /\ r \in U
  BY SeqMonotonic
<1>2. e \in Seq(U) /\ Len(e) = Len(f) + 1 /\ \A i \in 1..Len(f) : e[i] = f[i]
  BY <1>1
<1> HIDE DEF e, U
<1>3. \A i \in 1..n : e[i] \in U /\ f[i] \in U /\ e[i] = f[i]
  BY <1>1, <1>2
<1>4. /\ SubSeq(e, 1, n) \in Seq(U) /\ Len(SubSeq(e, 1, n)) = n
      /\ \A i \in 1..n : SubSeq(e, 1, n)[i] = e[i]
      /\ SubSeq(f, 1, n) \in Seq(U) /\ Len(SubSeq(f, 1, n)) = n
      /\ \A i \in 1..n : SubSeq(f, 1, n)[i] = f[i]
  BY <1>3, SubSeqProperties
<1>5. SubSeq(e, 1, n) = SubSeq(f, 1, n)
  BY <1>3, <1>4, SeqEqual
<1>. QED  BY <1>5 DEF e

LEMMA PrefixOfConcat ==
    ASSUME NEW T, NEW f \in Seq(T), NEW g \in Seq(T)
    PROVE  /\ \A n \in 0..Len(f) : SubSeq(f \o g, 1, n) = SubSeq(f, 1, n)
           /\ \A n \in (Len(f) + 1)..(Len(f) + Len(g)) :
                  SubSeq(f \o g, 1, n) = f \o SubSeq(g, 1, n - Len(f))
<1> DEFINE e == f \o g
<1>1. /\ e \in Seq(T) /\ Len(e) = Len(f) + Len(g) /\ Len(f) \in Nat /\ Len(g) \in Nat
      /\ \A i \in 1..(Len(f) + Len(g)) : e[i] = IF i <= Len(f) THEN f[i] ELSE g[i - Len(f)]
  BY ConcatProperties
<1> HIDE DEF e
<1>2. \A n \in 0..Len(e) : /\ SubSeq(e, 1, n) \in Seq(T) /\ Len(SubSeq(e, 1, n)) = n
                            /\ \A i \in 1..n : SubSeq(e, 1, n)[i] = e[i]
  BY <1>1, PrefixElements
<1>3. \A n \in 0..Len(f) : SubSeq(e, 1, n) = SubSeq(f, 1, n)
  <2> TAKE n \in 0..Len(f)
  <2>1. n \in 0..Len(e) /\ \A i \in 1..n : i \in 1..(Len(f) + Len(g)) /\ i <= Len(f)
    BY <1>1
  <2>2. /\ SubSeq(f, 1, n) \in Seq(T) /\ Len(SubSeq(f, 1, n)) = n
        /\ \A i \in 1..n : SubSeq(f, 1, n)[i] = f[i]
    BY PrefixElements
  <2>3. \A i \in 1..n : SubSeq(e, 1, n)[i] = SubSeq(f, 1, n)[i]
    BY <1>1, <1>2, <2>1, <2>2
  <2>. QED  BY <1>2, <2>1, <2>2, <2>3, SeqEqual
<1>4. ASSUME NEW n \in (Len(f) + 1)..(Len(f) + Len(g))
      PROVE  SubSeq(e, 1, n) = f \o SubSeq(g, 1, n - Len(f))
  <2> DEFINE k == n - Len(f)
             h == SubSeq(g, 1, k)
             u == f \o h
  <2>1. n \in 0..Len(e) /\ k \in 0..Len(g) /\ n = Len(f) + k
    BY <1>1
  <2> HIDE DEF k
  <2>2. h \in Seq(T) /\ Len(h) = k /\ \A i \in 1..k : h[i] = g[i]
    BY <2>1, PrefixElements
  <2> HIDE DEF h
  <2>3. /\ u \in Seq(T) /\ Len(u) = n
        /\ \A i \in 1..n : u[i] = IF i <= Len(f) THEN f[i] ELSE h[i - Len(f)]
    BY <2>1, <2>2, ConcatProperties
  <2> HIDE DEF u
  <2>4. ASSUME NEW i \in 1..n PROVE SubSeq(e, 1, n)[i] = u[i]
    <3>1. i \in 1..(Len(f) + Len(g)) /\ SubSeq(e, 1, n)[i] = e[i]
      BY <1>1, <1>2, <2>1
    <3>2. i > Len(f) => i - Len(f) \in 1..k
      BY <1>1, <2>1
    <3>3. CASE i <= Len(f)
      BY <1>1, <2>3, <3>1, <3>3
    <3>4. CASE i > Len(f)
      <4>1. u[i] = h[i - Len(f)] /\ e[i] = g[i - Len(f)]
        BY <1>1, <2>3, <3>1, <3>4
      <4>2. h[i - Len(f)] = g[i - Len(f)]
        BY <2>2, <3>2, <3>4
      <4>. QED  BY <3>1, <4>1, <4>2
    <3>. QED  BY <1>1, <2>1, <3>3, <3>4
  <2>5. SubSeq(e, 1, n) = u
    BY <1>2, <2>1, <2>3, <2>4, SeqEqual
  <2>. QED  BY <2>5 DEF u, h, k
<1>. QED  BY <1>3, <1>4 DEF e

\* The writes of a checkpoint, as they are.
LEMMA ReplayClean ==
    ASSUME NEW f \in Seq(Lines), \A i \in 1..Len(f) : f[i] \notin {Ack, Bad}
    PROVE  Replay(f) = [ops |-> f, ok |-> TRUE]
<1> DEFINE Is(n) == Replay(SubSeq(f, 1, n)) = [ops |-> SubSeq(f, 1, n), ok |-> TRUE]
           S == {n \in Nat : n <= Len(f) => Is(n)}
<1>1. 0 \in S
  BY Prefixes, ReplayEmpty DEF Empty
<1>2. ASSUME NEW n \in Nat, n \in S PROVE n + 1 \in S
  <2> SUFFICES ASSUME n + 1 <= Len(f) PROVE Is(n + 1)
    OBVIOUS
  <2>1. Is(n) /\ f[n + 1] \in Lines /\ f[n + 1] \notin {Ack, Bad}
    BY <1>2
  <2>2. SubSeq(f, 1, n) \in Seq(Lines) /\ SubSeq(f, 1, n + 1) = Append(SubSeq(f, 1, n), f[n + 1])
    BY Prefixes
  <2>3. Replay(SubSeq(f, 1, n + 1)) = ReadLine([ops |-> SubSeq(f, 1, n), ok |-> TRUE], f[n + 1])
    BY <2>1, <2>2, ReplayAppend
  <2>. QED  BY <2>1, <2>2, <2>3 DEF ReadLine
<1>3. Len(f) \in S
  <2> HIDE DEF S
  <2>. QED  BY <1>1, <1>2, SetInduction
<1>4. Is(Len(f))
  BY <1>3
<1>5. SubSeq(f, 1, Len(f)) = f
  BY Prefixes
<1>. QED  BY <1>4, <1>5

\* Only writes are queued.
LEMMA LoadsWrites ==
    ASSUME NEW m \in Nat, NEW f \in Seq(Bad..m)
    PROVE  Loads(f) \in Seq(1..m) /\ Replay(f).ok \in BOOLEAN
<1>0. f \in Seq(Lines)
  BY SeqMonotonic DEF Lines, Bad
<1> DEFINE Is(n) == Loads(SubSeq(f, 1, n)) \in Seq(1..m)
           S == {n \in Nat : n <= Len(f) => Is(n)}
<1>1. 0 \in S
  <2>1. SubSeq(f, 1, 0) = <<>> /\ <<>> \in Seq(1..m)
    BY Prefixes
  <2>2. Replay(<<>>).ops = <<>>
    BY ReplayEmpty DEF Empty
  <2>3. Loads(SubSeq(f, 1, 0)) = <<>>
    BY <2>1, <2>2 DEF Loads
  <2>. QED  BY <2>1, <2>3
<1>2. ASSUME NEW n \in Nat, n \in S PROVE n + 1 \in S
  <2> SUFFICES ASSUME n + 1 <= Len(f) PROVE Is(n + 1)
    OBVIOUS
  <2> DEFINE e == SubSeq(f, 1, n)
             r == f[n + 1]
  <2>1. Is(n) /\ r \in Bad..m /\ r \in Lines
    BY <1>2 DEF Lines, Bad
  <2>2. e \in Seq(Lines) /\ SubSeq(f, 1, n + 1) = Append(e, r)
    BY <1>0, Prefixes
  <2> HIDE DEF e, r
  <2>3. Replay(SubSeq(f, 1, n + 1)) = ReadLine(Replay(e), r) /\ Replay(e) \in Queue
    BY <2>1, <2>2, ReplayAppend, ReplayTypes
  <2>6. Replay(e).ops \in Seq(1..m)
    BY <2>1 DEF Loads, e
  <2>4. \A x \in Seq(1..m), y \in 1..m : Append(x, y) \in Seq(1..m)
    OBVIOUS
  <2>5. \A x \in Seq(1..m) : x # <<>> => Tail(x) \in Seq(1..m)
    OBVIOUS
  <2>7. r # Ack /\ r # Bad => r \in 1..m
    BY <2>1 DEF Ack, Bad
  <2>. QED  BY <2>3, <2>4, <2>5, <2>6, <2>7 DEF ReadLine, Queue, Loads
<1>3. Len(f) \in S
  <2> HIDE DEF S
  <2>. QED  BY <1>0, <1>1, <1>2, SetInduction
<1>4. Is(Len(f))
  BY <1>3
<1>5. SubSeq(f, 1, Len(f)) = f
  BY Prefixes
<1>6. Replay(f) \in Queue
  BY <1>0, ReplayTypes
<1>. QED  BY <1>4, <1>5, <1>6 DEF Queue

Acks(k) == [i \in 1..k |-> Ack]

LEMMA AppendAck ==
    ASSUME NEW f \in Seq(Lines), NEW k \in Nat
    PROVE  /\ Acks(k) \in Seq({Ack}) /\ Len(Acks(k)) = k /\ f \o Acks(0) = f
           /\ f \o Acks(k) \in Seq(Lines) /\ f \o Acks(k + 1) = Append(f \o Acks(k), Ack)
<1>1. \A j \in Nat : Acks(j) \in Seq({Ack}) /\ Acks(j) \in Seq(Lines) /\ Len(Acks(j)) = j
  BY DEF Acks, Lines, Ack
<1>2. Acks(0) = <<>>
  BY <1>1
<1>3. Acks(k + 1) = Append(Acks(k), Ack)
  <2>1. Append(Acks(k), Ack) \in Seq({Ack}) /\ Len(Append(Acks(k), Ack)) = k + 1
    BY <1>1
  <2>2. \A i \in 1..(k + 1) : Acks(k + 1)[i] = Ack
    BY DEF Acks
  <2>3. \A i \in 1..(k + 1) : Append(Acks(k), Ack)[i] = Ack
    BY <2>1
  <2>. QED  BY <1>1, <2>1, <2>2, <2>3, SeqEqual
<1>4. f \o Append(Acks(k), Ack) = Append(f \o Acks(k), Ack)
  <2> DEFINE a == Acks(k)
  <2>1. a \in Seq(Lines) /\ Ack \in Lines
    BY <1>1 DEF Lines, Ack
  <2> HIDE DEF a
  <2>2. Append(a, Ack) = a \o <<Ack>> /\ Append(f \o a, Ack) = (f \o a) \o <<Ack>> /\ <<Ack>> \in Seq(Lines)
    BY <2>1
  <2>. QED  BY <2>1, <2>2, ConcatAssociative DEF a
<1>. QED  BY <1>1, <1>2, <1>3, <1>4, ConcatEmptySeq, ConcatProperties

\* Each ack drops the first write of the queue.
LEMMA ReplayAcks ==
    ASSUME NEW f \in Seq(Lines), Replay(f).ok = TRUE, NEW m \in 0..Len(Loads(f))
    PROVE  Replay(f \o Acks(m)) = [ops |-> SubSeq(Loads(f), m + 1, Len(Loads(f))), ok |-> TRUE]
<1> DEFINE p == Loads(f)
           Is(n) == Replay(f \o Acks(n)) = [ops |-> SubSeq(p, n + 1, Len(p)), ok |-> TRUE]
           S == {n \in Nat : n <= m => Is(n)}
<1>0. p \in Seq(Lines) /\ Replay(f) = [ops |-> p, ok |-> TRUE] /\ m <= Len(p)
  BY ReplayTypes DEF Loads, Queue
<1> HIDE DEF p
<1>1. 0 \in S
  <2>1. f \o Acks(0) = f /\ SubSeq(p, 0 + 1, Len(p)) = p
    <3>1. f \o Acks(0) = f
      BY AppendAck
    <3>2. SubSeq(p, 1, Len(p)) = p
      BY <1>0, SubSeqFull
    <3>. QED  BY <3>1, <3>2
  <2>. QED  BY <1>0, <2>1
<1>2. ASSUME NEW n \in Nat, n \in S PROVE n + 1 \in S
  <2> SUFFICES ASSUME n + 1 <= m PROVE Is(n + 1)
    OBVIOUS
  <2>1. Is(n)
    BY <1>2
  <2>2. Replay(f \o Acks(n + 1)) = ReadLine([ops |-> SubSeq(p, n + 1, Len(p)), ok |-> TRUE], Ack)
    <3>0. Ack \in Lines
      BY DEF Lines, Ack
    <3>1. /\ f \o Acks(n) \in Seq(Lines)
          /\ f \o Acks(n + 1) = Append(f \o Acks(n), Ack)
      BY AppendAck
    <3>2. Replay(Append(f \o Acks(n), Ack)) = ReadLine(Replay(f \o Acks(n)), Ack)
      BY <3>0, <3>1, ReplayAppend
    <3>. QED  BY <2>1, <3>1, <3>2
  <2>3. n + 1 \in 1..Len(p) /\ Len(p) \in (n + 1)..Len(p)
    BY <1>0
  <2>4. Tail(SubSeq(p, n + 1, Len(p))) = SubSeq(p, (n + 1) + 1, Len(p))
    BY <1>0, <2>3, HeadTailOfSubSeq
  <2>5. SubSeq(p, n + 1, Len(p)) # <<>>
    <3>1. \A i \in (n + 1)..Len(p) : p[i] \in Lines
      BY <1>0
    <3>2. Len(SubSeq(p, n + 1, Len(p))) = Len(p) - (n + 1) + 1
      BY <2>3, <3>1, SubSeqProperties
    <3>3. Len(SubSeq(p, n + 1, Len(p))) # 0 /\ Len(<<>>) = 0
      BY <1>0, <3>2
    <3>. QED  BY <3>3
  <2> DEFINE q == SubSeq(p, n + 1, Len(p))
  <2>6. ReadLine([ops |-> q, ok |-> TRUE], Ack) = [ops |-> Tail(q), ok |-> TRUE]
    BY <2>5, ReadAck
  <2> HIDE DEF q
  <2>. QED  BY <2>2, <2>4, <2>6 DEF q
<1>3. m \in S
  <2> HIDE DEF S
  <2>. QED  BY <1>0, <1>1, <1>2, SetInduction
<1>. QED  BY <1>3 DEF p
--------------------------------------------------------------------------------
(* Types and locks.  A goroutine takes a lock that is free or that it has, and      *)
(* checkpointLocked is under way as long as w.mu is held.                          *)

Places == Locking \cup {"idle", "want", "fsync", "synced", "failed", "peek", "send", "took", "down"}

\* Only a writer has queued something that it answers for.
LEMMA WaitsPositive ==
    ASSUME TypeOK, Waiting, NEW c \in Writers,
           pc[c] \in Locking \cup {"want", "fsync", "synced", "failed"}
    PROVE  want[c] \in 1..nops
<1>1. c \in Caller
  BY DEF Caller
<1>. QED  BY <1>1, QueueConstantsOK DEF TypeOK, Waiting

LEMMA Moves ==
    ASSUME TypeOK, Locks, NEW c \in Caller, NEW x \in Places, Up, x # "down",
           pc' = [pc EXCEPT ![c] = x],
           x \in Locking => MuFree \/ pc[c] \in Locking,
           x \in HoldsSyncMu => SyncMuFree \/ pc[c] \in HoldsSyncMu,
           step' \in {"none", "write", "dir", "open"},
           IF MuFree \/ pc[c] \in Locking
           THEN (step' = "none") = (x \notin Locking) ELSE step' = step
    PROVE  /\ pc' \in [Caller -> Places] /\ Locks' /\ (step' = "none") = MuFree' /\ Up'
           /\ \A d \in Caller : pc'[d] = IF d = c THEN x ELSE pc[d]
<1>0. pc \in [Caller -> Places] /\ (step = "none") = MuFree
  BY DEF TypeOK, Places
<1>1. pc' \in [Caller -> Places] /\ \A d \in Caller : pc'[d] = IF d = c THEN x ELSE pc[d]
  BY <1>0
<1>2. Up'
  BY <1>1 DEF Up, Caller
<1>3. \A d, e \in Caller : pc'[d] \in Locking /\ pc'[e] \in Locking => d = e
  BY <1>1 DEF Locks, MuFree
<1>4. \A d, e \in Caller : pc'[d] \in HoldsSyncMu /\ pc'[e] \in HoldsSyncMu => d = e
  BY <1>1 DEF Locks, SyncMuFree, HoldsSyncMu
<1>5. (step' = "none") = MuFree'
  <2>1. CASE x \in Locking
    <3>1. MuFree' = FALSE
      BY <1>1, <2>1 DEF MuFree
    <3>. QED  BY <2>1, <3>1
  <2>2. CASE x \notin Locking /\ (MuFree \/ pc[c] \in Locking)
    <3>1. MuFree' = TRUE
      BY <1>1, <2>2 DEF MuFree, Locks
    <3>. QED  BY <2>2, <3>1
  <2>3. CASE x \notin Locking /\ ~MuFree /\ pc[c] \notin Locking
    <3>1. MuFree' = FALSE
      BY <1>1, <2>3 DEF MuFree
    <3>. QED  BY <1>0, <2>3, <3>1
  <2>. QED  BY <2>1, <2>2, <2>3
<1>. QED  BY <1>1, <1>2, <1>3, <1>4, <1>5 DEF Locks

\* Where a call that returns goes, and what it answers.
LEMMA Returns ==
    ASSUME TypeOK, Locks, Up, NEW c \in Caller, NEW from, NEW err, Return(c, from, err),
           pc[c] # "down", nops \in Nat, nops' \in Nat, nops <= nops',
           c \in Writers => want'[c] \in 1..nops'
    PROVE  /\ pc' \in [Caller -> Places] /\ Locks' /\ (step' = "none") = MuFree' /\ Up'
           /\ step' = IF pc[c] \in Locking THEN "none" ELSE step
           /\ pc'[c] = AfterCall(from, err) /\ AfterCall(from, err) \in {"want", "peek", "idle"}
           /\ \A d \in Caller : d # c => pc'[d] = pc[d]
           /\ answered' \subseteq 1..nops'
<1>1. AfterCall(from, err) \in {"want", "peek", "idle"}
  BY DEF AfterCall
<1>2. /\ AfterCall(from, err) \in Places /\ AfterCall(from, err) # "down"
      /\ AfterCall(from, err) \notin Locking /\ AfterCall(from, err) \notin HoldsSyncMu
  BY <1>1 DEF Places, Locking, HoldsSyncMu
<1>3. /\ step' \in {"none", "write", "dir", "open"}
      /\ IF MuFree \/ pc[c] \in Locking THEN step' = "none" ELSE step' = step
  BY DEF Return, TypeOK
<1>4. /\ pc' \in [Caller -> Places] /\ Locks' /\ (step' = "none") = MuFree' /\ Up'
      /\ \A d \in Caller : pc'[d] = IF d = c THEN AfterCall(from, err) ELSE pc[d]
  BY <1>2, <1>3, Moves DEF Return
<1>5. answered' \subseteq 1..nops'
  <2>1. answered \subseteq 1..nops'
    BY DEF TypeOK
  <2>2. answered' = answered \/ (c \in Writers /\ answered' = answered \cup {want'[c]})
    BY DEF Return
  <2>. QED  BY <2>1, <2>2
<1>. QED  BY <1>1, <1>4, <1>5 DEF Return

\* A checkpoint starts with w.mu held.
LEMMA Starts ==
    ASSUME TypeOK, Locks, Up, NEW c \in Caller, NEW from \in {"enqueue", "ack", "sync", "tick"},
           StartCheckpoint(c, from), MuFree,
           from = "sync" => SyncMuFree \/ pc[c] \in HoldsSyncMu
    PROVE  /\ pc' \in [Caller -> Places] /\ Locks' /\ (step' = "none") = MuFree' /\ Up'
           /\ step' = "write" /\ open' = FALSE /\ stale' = TRUE
           /\ needCkpt' = needCkpt /\ answered' = answered
           /\ \A d \in Caller : pc'[d] = IF d = c THEN from ELSE pc[d]
<1>1. /\ from \in Places /\ from # "down" /\ from \in Locking
      /\ from \in HoldsSyncMu => from = "sync"
  BY DEF Places, Locking, HoldsSyncMu
<1>2. /\ pc' = [pc EXCEPT ![c] = from] /\ step' = "write" /\ open' = FALSE /\ stale' = TRUE
      /\ needCkpt' = needCkpt /\ answered' = answered
  BY DEF StartCheckpoint
<1>3. IF MuFree \/ pc[c] \in Locking
      THEN (step' = "none") = (from \notin Locking) ELSE step' = step
  BY <1>1, <1>2
<1>. QED  BY <1>1, <1>2, <1>3, Moves

\* appendLocked: the records or a prefix of them follow what is in the file, or a
\* checkpoint of a file that is behind starts.
Appending(c, from, recs) ==
    /\ TypeOK /\ Locks /\ Up /\ MuFree /\ c \in Caller /\ from \in {"enqueue", "ack"}
    /\ pc[c] \in {"idle", "took"} /\ nops \in Nat /\ nops' \in Nat /\ nops <= nops'
    /\ pending' \in Seq(1..nops')
    /\ c \in Writers => want'[c] \in 1..nops'
    /\ recs \in Seq(Bad..nops') /\ recs # <<>>
    /\ AppendLocked(c, from, recs)

LEMMA Faulty ==
    ASSUME TypeOK, NEW k, Fault(k) \/ NoFault
    PROVE  nfault' \in 0..MaxFaults
BY QueueConstantsOK DEF TypeOK, Fault, NoFault

LEMMA AppendTypes ==
    ASSUME NEW c, NEW from, NEW recs, Appending(c, from, recs)
    PROVE  /\ pc' \in [Caller -> Places] /\ Locks' /\ (step' = "none") = MuFree' /\ Up'
           /\ step' \in {"none", "write"} /\ (step' # "none" => open' = FALSE)
           /\ open' \in BOOLEAN /\ needCkpt' \in BOOLEAN /\ stale' \in BOOLEAN /\ writes' \in Nat
           /\ answered' \subseteq 1..nops' /\ nfault' \in 0..MaxFaults
           /\ cached' \in Seq(Bad..nops') /\ torn' \in BOOLEAN
           /\ pc'[c] \in {from, "want", "peek", "idle"}
           /\ \A d \in Caller : d # c => pc'[d] = pc[d]
<1>1. /\ TypeOK /\ Locks /\ Up /\ MuFree /\ c \in Caller /\ from \in {"enqueue", "ack"}
      /\ pc[c] # "down" /\ pc[c] \notin Locking /\ nops \in Nat /\ nops' \in Nat /\ nops <= nops'
      /\ recs \in Seq(Bad..nops') /\ recs # <<>>
      /\ c \in Writers => want'[c] \in 1..nops'
  BY DEF Appending, Locking
<1>2. /\ open \in BOOLEAN /\ needCkpt \in BOOLEAN /\ stale \in BOOLEAN /\ writes \in Nat
      /\ torn \in BOOLEAN /\ step = "none" /\ answered \subseteq 1..nops
  BY <1>1 DEF TypeOK
<1>3. cached \in Seq(Bad..nops')
  <2>1. cached \in Seq(Bad..nops) /\ Bad..nops \subseteq Bad..nops'
    BY <1>1 DEF TypeOK, Bad
  <2>. QED  BY <2>1, SeqMonotonic
<1>4. \A n \in 0..Len(recs) : cached \o SubSeq(recs, 1, n) \in Seq(Bad..nops')
  BY <1>1, <1>3, Prefixes, ConcatProperties
<1>5. ASSUME StartCheckpoint(c, from)
      PROVE  /\ pc' \in [Caller -> Places] /\ Locks' /\ (step' = "none") = MuFree' /\ Up'
             /\ step' = "write" /\ open' = FALSE /\ stale' = TRUE
             /\ needCkpt' = needCkpt /\ answered' = answered
             /\ \A d \in Caller : pc'[d] = IF d = c THEN from ELSE pc[d]
  BY <1>1, <1>5, Starts
<1>6. ASSUME NEW err, Return(c, from, err)
      PROVE  /\ pc' \in [Caller -> Places] /\ Locks' /\ (step' = "none") = MuFree' /\ Up'
             /\ step' = "none" /\ pc'[c] \in {"want", "peek", "idle"}
             /\ answered' \subseteq 1..nops' /\ \A d \in Caller : d # c => pc'[d] = pc[d]
  BY <1>1, <1>2, <1>6, Returns
<1>7. answered \subseteq 1..nops'
  BY <1>1, <1>2
<1>8. AppendLocked(c, from, recs)
  BY DEF Appending
<1>a. CASE needCkpt /\ NoFault /\ StartCheckpoint(c, from) /\ UNCHANGED <<writes, cached, torn>>
  BY <1>a, <1>2, <1>3, <1>5, <1>7, Faulty, <1>1
<1>b. CASE /\ ~needCkpt /\ NoFault
           /\ cached' = cached \o IF torn THEN <<Bad>> \o Tail(recs) ELSE recs
           /\ torn' = FALSE /\ writes' = writes + Len(recs)
           /\ IF Reclaimable(writes', pending')
              THEN StartCheckpoint(c, from)
              ELSE open' = TRUE /\ Return(c, from, FALSE) /\ UNCHANGED <<needCkpt, stale>>
  <2>1. cached' \in Seq(Bad..nops')
    <3>1. Tail(recs) \in Seq(Bad..nops') /\ <<Bad>> \in Seq(Bad..nops')
      BY <1>1 DEF Bad
    <3>2. (IF torn THEN <<Bad>> \o Tail(recs) ELSE recs) \in Seq(Bad..nops')
      BY <1>1, <3>1, ConcatProperties
    <3>. QED  BY <1>b, <1>3, <3>2, ConcatProperties
  <2>2. writes' \in Nat
    BY <1>b, <1>1, <1>2
  <2>3. CASE StartCheckpoint(c, from)
    BY <1>b, <2>1, <2>2, <2>3, <1>2, <1>5, <1>7, Faulty, <1>1
  <2>4. CASE open' = TRUE /\ Return(c, from, FALSE) /\ UNCHANGED <<needCkpt, stale>>
    BY <1>b, <2>1, <2>2, <2>4, <1>2, <1>6, Faulty, <1>1
  <2>. QED  BY <1>b, <2>3, <2>4
<1>c. CASE /\ ~needCkpt /\ Broken
           /\ \/ ~open /\ Fault("open") /\ UNCHANGED <<open, cached, torn>>
              \/ Fault("write") /\ open' = TRUE /\ UNCHANGED <<cached, torn>>
              \/ /\ Fault("shortwrite") /\ open' = TRUE /\ torn' = TRUE
                 /\ \E n \in 0..(Len(recs) - 1) : cached' = cached \o SubSeq(recs, 1, n)
           /\ Return(c, from, TRUE) /\ UNCHANGED <<writes, stale>>
  <2>1. cached' \in Seq(Bad..nops')
    <3>1. cached' = cached \/ \E n \in 0..(Len(recs) - 1) : cached' = cached \o SubSeq(recs, 1, n)
      BY <1>c
    <3>2. \A n \in 0..(Len(recs) - 1) : n \in 0..Len(recs)
      BY <1>1
    <3>. QED  BY <1>3, <1>4, <3>1, <3>2
  <2>2. nfault' \in 0..MaxFaults
    BY <1>c, <1>1, Faulty
  <2>3. open' \in BOOLEAN /\ torn' \in BOOLEAN /\ writes' \in Nat /\ stale' \in BOOLEAN /\ needCkpt' = TRUE
    BY <1>c, <1>2 DEF Broken
  <2>. QED  BY <1>c, <2>1, <2>2, <2>3, <1>6
<1>. QED  BY <1>8, <1>a, <1>b, <1>c DEF AppendLocked

LEMMA EnqueueAppends ==
    ASSUME Shape, NEW w \in Writers, Enqueue(w)
    PROVE  /\ Up /\ pc[w] = "idle" /\ MuFree /\ nops < MaxOps /\ nops' = nops + 1
           /\ want' = [want EXCEPT ![w] = nops'] /\ pending' = Append(pending, nops')
           /\ token' = TRUE
           /\ UNCHANGED <<synced, target, batch, stored, hole, alt, base, taken, ncrash>>
           /\ w \in Caller /\ nops \in Nat /\ nops' \in Nat /\ nops' \in 0..MaxOps /\ nops' \in 1..nops'
           /\ pending' \in Seq(1..nops')
           /\ want' \in [Caller -> 0..nops'] /\ want'[w] = nops'
           /\ \A c \in Caller : c # w => want'[c] = want[c]
           /\ Appending(w, "enqueue", <<nops'>>) /\ AppendLocked(w, "enqueue", <<nops'>>)
<1>1. /\ Up /\ pc[w] = "idle" /\ MuFree /\ nops < MaxOps /\ nops' = nops + 1
      /\ want' = [want EXCEPT ![w] = nops'] /\ pending' = Append(pending, nops')
      /\ token' = TRUE /\ AppendLocked(w, "enqueue", <<nops'>>)
      /\ UNCHANGED <<synced, target, batch, stored, hole, alt, base, taken, ncrash>>
  BY DEF Enqueue
<1>2. w \in Caller /\ nops \in Nat /\ nops' \in Nat /\ nops' \in 0..MaxOps /\ nops' \in 1..nops'
  BY <1>1, QueueConstantsOK DEF Caller, Shape, TypeOK
<1>3. pending' \in Seq(1..nops')
  <2>1. pending \in Seq(1..nops) /\ 1..nops \subseteq 1..nops'
    BY <1>1, <1>2 DEF Shape, TypeOK
  <2>2. pending \in Seq(1..nops')
    BY <2>1, SeqMonotonic
  <2>. QED  BY <1>1, <1>2, <2>2
<1>4. want' \in [Caller -> 0..nops'] /\ want'[w] = nops' /\ \A c \in Caller : c # w => want'[c] = want[c]
  BY <1>1, <1>2 DEF Shape, TypeOK
<1>5. Appending(w, "enqueue", <<nops'>>)
  <2>1. <<nops'>> \in Seq(Bad..nops') /\ <<nops'>> # <<>>
    BY <1>2 DEF Bad
  <2>. QED  BY <1>1, <1>2, <1>3, <1>4, <2>1 DEF Appending, Shape
<1>. QED  BY <1>1, <1>2, <1>3, <1>4, <1>5

\* The step of each action keeps types and locks.
LEMMA StepEnqueue == ASSUME Shape, NEW w \in Writers, Enqueue(w) PROVE Shape'
<1>1. /\ Up /\ pc[w] = "idle" /\ nops' = nops + 1 /\ pending' = Append(pending, nops')
      /\ token' = TRUE
      /\ UNCHANGED <<synced, target, batch, stored, hole, alt, base, taken, ncrash>>
  BY EnqueueAppends
<1>2. w \in Caller /\ nops \in Nat /\ nops' \in Nat /\ nops' \in 0..MaxOps /\ nops' \in 1..nops'
  BY EnqueueAppends
<1>3. pending' \in Seq(1..nops')
  BY EnqueueAppends
<1>4. want' \in [Caller -> 0..nops'] /\ want'[w] = nops' /\ \A c \in Caller : c # w => want'[c] = want[c]
  BY EnqueueAppends
<1>5. Appending(w, "enqueue", <<nops'>>)
  BY EnqueueAppends
<1>6. /\ pc' \in [Caller -> Places] /\ Locks' /\ (step' = "none") = MuFree' /\ Up'
      /\ step' \in {"none", "write"} /\ (step' # "none" => open' = FALSE)
      /\ open' \in BOOLEAN /\ needCkpt' \in BOOLEAN /\ stale' \in BOOLEAN /\ writes' \in Nat
      /\ answered' \subseteq 1..nops' /\ nfault' \in 0..MaxFaults
      /\ cached' \in Seq(Bad..nops') /\ torn' \in BOOLEAN
      /\ pc'[w] \in {"enqueue", "want", "peek", "idle"}
      /\ \A d \in Caller : d # w => pc'[d] = pc[d]
  BY <1>5, AppendTypes
<1>7. /\ batch' \in Seq(1..nops') /\ stored' \in Seq(Bad..nops') /\ alt' \subseteq Seq(Bad..nops')
  <2>1. /\ batch \in Seq(1..nops) /\ stored \in Seq(Bad..nops) /\ alt \subseteq Seq(Bad..nops)
        /\ 1..nops \subseteq 1..nops' /\ Bad..nops \subseteq Bad..nops'
    BY <1>1, <1>2 DEF Shape, TypeOK, Bad
  <2>2. Seq(1..nops) \subseteq Seq(1..nops') /\ Seq(Bad..nops) \subseteq Seq(Bad..nops')
    BY <2>1, SeqMonotonic
  <2>. QED  BY <1>1, <2>1, <2>2
<1>8. TypeOK'
  <2>1. /\ synced' \in 0..nops' /\ token' \in BOOLEAN /\ target' \in 0..nops' /\ hole' \in BOOLEAN
        /\ base' \in 0..nops' /\ taken' \subseteq 1..nops' /\ ncrash' \in 0..MaxCrashes
    BY <1>1, <1>2 DEF Shape, TypeOK
  <2>. QED  BY <1>2, <1>3, <1>4, <1>6, <1>7, <2>1 DEF TypeOK, Places
<1>9. Waiting'
  <2>1. base' = base /\ base \in 0..nops
    BY <1>1 DEF Shape, TypeOK
  <2>2. ASSUME NEW c \in Writers, pc'[c] \in Locking \cup {"want", "fsync", "synced", "failed"}
        PROVE  want'[c] > base'
    <3>1. CASE c = w
      BY <1>2, <1>4, <1>1, <2>1, <3>1
    <3>2. CASE c # w
      <4>1. c \in Caller
        BY DEF Caller
      <4>. QED  BY <1>4, <1>6, <2>1, <2>2, <3>2, <4>1 DEF Shape, Waiting
    <3>. QED  BY <3>1, <3>2
  <2>. QED  BY <2>2 DEF Waiting
<1>10. Peeked'
  <2> SUFFICES ASSUME pc'["run"] \in {"send", "took"}
      PROVE  Len(batch') \in 1..Len(pending') /\ batch' = SubSeq(pending', 1, Len(batch'))
    BY DEF Peeked
  <2>1. w # "run" /\ "run" \in Caller
    BY QueueConstantsOK DEF Caller
  <2>2. pc["run"] \in {"send", "took"}
    BY <1>6, <2>1
  <2>3. Len(batch) \in 1..Len(pending) /\ batch = SubSeq(pending, 1, Len(batch))
    BY <2>2 DEF Shape, Peeked
  <2>4. SubSeq(Append(pending, nops'), 1, Len(batch)) = SubSeq(pending, 1, Len(batch))
    BY <1>2, <1>3, <2>3, PrefixOfAppend DEF Shape, TypeOK
  <2>5. Len(pending') = Len(pending) + 1 /\ Len(pending) \in Nat
    BY <1>1 DEF Shape, TypeOK
  <2>. QED  BY <1>1, <2>3, <2>4, <2>5
<1>. QED  BY <1>6, <1>8, <1>9, <1>10 DEF Shape

Held == Locking \cup {"want", "fsync", "synced", "failed"}

\* A goroutine that moves on leaves the queue and the batch as they are.
LEMMA OthersStay ==
    ASSUME Shape, NEW c \in Caller, UNCHANGED <<pending, batch, want, base>>,
           \A d \in Caller : d # c => pc'[d] = pc[d],
           c \in Writers /\ pc'[c] \in Held => pc[c] \in Held,
           pc'[c] \in {"send", "took"} => pc[c] \in {"send", "took"}
    PROVE  Waiting' /\ Peeked'
<1>1. Waiting'
  <2> SUFFICES ASSUME NEW d \in Writers, pc'[d] \in Held PROVE want'[d] > base'
    BY DEF Waiting, Held
  <2>1. d \in Caller
    BY DEF Caller
  <2>2. pc[d] \in Held
    BY <2>1
  <2>. QED  BY <2>2 DEF Shape, Waiting, Held
<1>2. Peeked'
  <2>1. pc'["run"] \in {"send", "took"} => pc["run"] \in {"send", "took"}
    BY DEF Caller
  <2>. QED  BY <2>1 DEF Shape, Peeked
<1>. QED  BY <1>1, <1>2

\* The files a power loss may leave.
LEMMA FilesTyped ==
    ASSUME TypeOK
    PROVE  File \in Seq(Bad..nops) /\ Survivors \subseteq Seq(Bad..nops)
<1>1. stored \in Seq(Bad..nops) /\ cached \in Seq(Bad..nops) /\ alt \subseteq Seq(Bad..nops)
  BY DEF TypeOK
<1>2. \A n \in 0..Len(cached) : stored \o SubSeq(cached, 1, n) \in Seq(Bad..nops)
  BY <1>1, Prefixes, ConcatProperties
<1>3. \A n \in IF hole THEN {0} ELSE 0..Len(cached) : n \in 0..Len(cached)
  BY <1>1
<1>. QED  BY <1>1, <1>2, <1>3, ConcatProperties DEF File, Survivors

\* Only the goroutine of pc["run"] is "down" while no process runs.
LEMMA UpWhen ==
    ASSUME Shape, NEW c \in Caller, pc[c] \notin {"idle", "down"}
    PROVE  Up
BY DEF Shape, Locks, Up

LEMMA StepSyncTo == ASSUME Shape, NEW c \in Caller, SyncTo(c) PROVE Shape'
<1>1. /\ pc[c] = "want"
      /\ UNCHANGED <<pending, writes, synced, token, want, batch, diskVars, base, nops,
                     taken, nfault, ncrash>>
  BY DEF SyncTo
<1>2. Up /\ TypeOK /\ Locks /\ nops \in Nat /\ nops' = nops
  <2>1. Up
    BY <1>1, UpWhen
  <2>. QED  BY <1>1, <2>1, QueueConstantsOK DEF Shape, TypeOK
<1>3. c \in Writers => want'[c] \in 1..nops'
  BY <1>1, <1>2, WaitsPositive DEF Shape
<1>4. /\ pc' \in [Caller -> Places] /\ Locks' /\ (step' = "none") = MuFree'
      /\ step' \in {"none", "write", "dir", "open"} /\ (step' # "none" => open' = FALSE)
      /\ open' \in BOOLEAN /\ needCkpt' \in BOOLEAN /\ stale' \in BOOLEAN
      /\ answered' \subseteq 1..nops' /\ target' \in 0..nops'
      /\ \A d \in Caller : d # c => pc'[d] = pc[d]
      /\ pc'[c] \notin {"send", "took"}
  <2>1. CASE /\ synced >= want[c]
             /\ Return(c, "sync", FALSE) /\ UNCHANGED <<open, needCkpt, target, stale>>
    <3>1. /\ pc' \in [Caller -> Places] /\ Locks' /\ (step' = "none") = MuFree'
          /\ step' = step /\ pc'[c] \in {"want", "peek", "idle"}
          /\ answered' \subseteq 1..nops' /\ \A d \in Caller : d # c => pc'[d] = pc[d]
      <4>1. pc[c] \notin Locking /\ pc[c] # "down" /\ nops <= nops'
        BY <1>1, <1>2 DEF Locking
      <4>. QED  BY <1>1, <1>2, <1>3, <2>1, <4>1, Returns
    <3>. QED  BY <1>2, <2>1, <3>1 DEF TypeOK
  <2>2. CASE /\ SyncMuFree /\ MuFree /\ StartCheckpoint(c, "sync") /\ UNCHANGED target
    <3>1. /\ pc' \in [Caller -> Places] /\ Locks' /\ (step' = "none") = MuFree'
          /\ step' = "write" /\ open' = FALSE /\ stale' = TRUE
          /\ needCkpt' = needCkpt /\ answered' = answered
          /\ \A d \in Caller : pc'[d] = IF d = c THEN "sync" ELSE pc[d]
      BY <1>2, <2>2, Starts
    <3>. QED  BY <1>2, <2>2, <3>1 DEF TypeOK
  <2>3. CASE /\ SyncMuFree /\ MuFree /\ pc' = [pc EXCEPT ![c] = "fsync"]
             /\ target' = nops /\ stale' = FALSE
             /\ UNCHANGED <<open, needCkpt, step, answered>>
    <3>1. /\ "fsync" \in Places /\ "fsync" # "down" /\ "fsync" \notin Locking
          /\ step' = "none" /\ step = "none"
      BY <1>2, <2>3 DEF Places, Locking, TypeOK
    <3>2. /\ pc' \in [Caller -> Places] /\ Locks' /\ (step' = "none") = MuFree'
          /\ \A d \in Caller : pc'[d] = IF d = c THEN "fsync" ELSE pc[d]
      BY <1>2, <2>3, <3>1, Moves
    <3>3. /\ open \in BOOLEAN /\ needCkpt \in BOOLEAN /\ answered \subseteq 1..nops
          /\ nops \in 0..nops
      BY <1>2 DEF TypeOK
    <3>. QED  BY <1>2, <2>3, <3>1, <3>2, <3>3
  <2>. QED  BY <2>1, <2>2, <2>3 DEF SyncTo
<1>5. TypeOK'
  <2>1. /\ pending \in Seq(1..nops) /\ writes \in Nat /\ synced \in 0..nops /\ token \in BOOLEAN
        /\ want \in [Caller -> 0..nops] /\ batch \in Seq(1..nops)
        /\ stored \in Seq(Bad..nops) /\ cached \in Seq(Bad..nops) /\ torn \in BOOLEAN
        /\ hole \in BOOLEAN /\ alt \subseteq Seq(Bad..nops) /\ base \in 0..nops
        /\ nops \in 0..MaxOps /\ taken \subseteq 1..nops /\ nfault \in 0..MaxFaults
        /\ ncrash \in 0..MaxCrashes
    BY <1>2 DEF TypeOK
  <2>. QED  BY <1>1, <1>4, <2>1 DEF TypeOK, Places, diskVars
<1>6. Waiting' /\ Peeked'
  BY <1>1, <1>4, OthersStay DEF Held
<1>. QED  BY <1>4, <1>5, <1>6 DEF Shape

LEMMA StepFsyncWAL == ASSUME Shape, NEW c \in Caller, FsyncWAL(c) PROVE Shape'
<1>1. /\ pc[c] = "fsync"
      /\ UNCHANGED <<queueVars, token, step, syncVars, stale, batch, torn, base, nops,
                     answered, taken, ncrash>>
  BY DEF FsyncWAL
<1>2. Up /\ TypeOK /\ Locks /\ nops \in Nat
  <2>1. Up
    BY <1>1, UpWhen
  <2>. QED  BY <1>1, <2>1, QueueConstantsOK DEF Shape, TypeOK
<1>3. PICK x \in {"synced", "failed"} : pc' = [pc EXCEPT ![c] = x]
  BY DEF FsyncWAL
<1>4. /\ pc' \in [Caller -> Places] /\ Locks' /\ (step' = "none") = MuFree' /\ Up'
      /\ \A d \in Caller : pc'[d] = IF d = c THEN x ELSE pc[d]
  <2>1. /\ x \in Places /\ x # "down" /\ x \notin Locking /\ pc[c] \notin Locking
        /\ pc[c] \in HoldsSyncMu
    BY <1>1 DEF Places, Locking, HoldsSyncMu
  <2>2. /\ step' \in {"none", "write", "dir", "open"} /\ step' = step
        /\ MuFree => step' = "none"
    BY <1>1, <1>2 DEF TypeOK
  <2>. QED  BY <1>2, <1>3, <2>1, <2>2, Moves
<1>5. /\ stored' \in Seq(Bad..nops) /\ cached' \in Seq(Bad..nops) /\ hole' \in BOOLEAN
      /\ alt' \subseteq Seq(Bad..nops)
  <2>1. /\ stored \in Seq(Bad..nops) /\ cached \in Seq(Bad..nops) /\ hole \in BOOLEAN
        /\ alt \subseteq Seq(Bad..nops) /\ <<>> \in Seq(Bad..nops) /\ {} \subseteq Seq(Bad..nops)
    BY <1>2 DEF TypeOK
  <2>2. Append(stored, Bad) \in Seq(Bad..nops) /\ File \in Seq(Bad..nops)
    BY <1>2, <2>1, FilesTyped DEF Bad
  <2>. QED  BY <2>1, <2>2 DEF FsyncWAL
<1>6. nfault' \in 0..MaxFaults
  BY <1>2, Faulty DEF FsyncWAL
<1>7. TypeOK'
  <2>1. /\ pending \in Seq(1..nops) /\ open \in BOOLEAN /\ needCkpt \in BOOLEAN /\ writes \in Nat
        /\ synced \in 0..nops /\ token \in BOOLEAN
        /\ step \in {"none", "write", "dir", "open"} /\ (step = "none") = MuFree /\ (~MuFree => ~open)
        /\ want \in [Caller -> 0..nops] /\ target \in 0..nops /\ stale \in BOOLEAN
        /\ batch \in Seq(1..nops) /\ torn \in BOOLEAN /\ base \in 0..nops
        /\ nops \in 0..MaxOps /\ answered \subseteq 1..nops /\ taken \subseteq 1..nops
        /\ ncrash \in 0..MaxCrashes
    BY <1>2 DEF TypeOK
  <2>. QED  BY <1>1, <1>4, <1>5, <1>6, <2>1 DEF TypeOK, Places, queueVars, syncVars
<1>8. Waiting' /\ Peeked'
  BY <1>1, <1>4, OthersStay DEF Held, queueVars, syncVars
<1>. QED  BY <1>4, <1>7, <1>8 DEF Shape

\* The step of a goroutine that changes nothing but locks, places and the flags that
\* checkpointLocked uses.
LEMMA StepLocks ==
    ASSUME Shape, NEW c \in Caller, Up,
           UNCHANGED <<pending, token, want, target, batch, base, nops, taken, ncrash>>,
           pc' \in [Caller -> Places], Locks', (step' = "none") = MuFree',
           step' \in {"none", "write", "dir", "open"}, step' # "none" => open' = FALSE,
           \A d \in Caller : d # c => pc'[d] = pc[d],
           c \in Writers /\ pc'[c] \in Held => pc[c] \in Held,
           pc'[c] \in {"send", "took"} => pc[c] \in {"send", "took"},
           open' \in BOOLEAN, needCkpt' \in BOOLEAN, stale' \in BOOLEAN, writes' \in Nat,
           synced' \in 0..nops, answered' \subseteq 1..nops, nfault' \in 0..MaxFaults,
           stored' \in Seq(Bad..nops), cached' \in Seq(Bad..nops), torn' \in BOOLEAN,
           hole' \in BOOLEAN, alt' \subseteq Seq(Bad..nops)
    PROVE  Shape'
<1>1. TypeOK'
  <2>1. /\ pending \in Seq(1..nops) /\ token \in BOOLEAN
        /\ want \in [Caller -> 0..nops] /\ target \in 0..nops
        /\ batch \in Seq(1..nops) /\ base \in 0..nops
        /\ nops \in 0..MaxOps /\ taken \subseteq 1..nops /\ ncrash \in 0..MaxCrashes
    BY DEF Shape, TypeOK
  <2>. QED  BY <2>1 DEF TypeOK, Places
<1>2. Waiting' /\ Peeked'
  BY OthersStay
<1>. QED  BY <1>1, <1>2 DEF Shape

LEMMA Marks ==
    ASSUME TypeOK, NEW s \in 0..nops, MarkSynced(s)
    PROVE  synced' \in 0..nops /\ synced' >= synced /\ synced' >= s /\ synced' \in {synced, s}
BY QueueConstantsOK DEF TypeOK, MarkSynced

LEMMA Flags ==
    ASSUME Shape
    PROVE  /\ TypeOK /\ Locks /\ nops \in Nat /\ open \in BOOLEAN /\ needCkpt \in BOOLEAN
           /\ stale \in BOOLEAN /\ writes \in Nat /\ synced \in 0..nops /\ target \in 0..nops
           /\ step \in {"none", "write", "dir", "open"} /\ (step = "none") = MuFree
           /\ (step # "none" => open = FALSE) /\ answered \subseteq 1..nops
           /\ want \in [Caller -> 0..nops]
           /\ stored \in Seq(Bad..nops) /\ cached \in Seq(Bad..nops) /\ torn \in BOOLEAN
           /\ hole \in BOOLEAN /\ alt \subseteq Seq(Bad..nops) /\ nfault \in 0..MaxFaults
           /\ pending \in Seq(1..nops) /\ <<>> \in Seq(Bad..nops) /\ pending \in Seq(Bad..nops)
<1>1. nops \in Nat /\ <<>> \in Seq(Bad..nops) /\ 1..nops \subseteq Bad..nops
  BY QueueConstantsOK DEF Shape, TypeOK, Bad
<1>2. pending \in Seq(Bad..nops)
  BY <1>1, SeqMonotonic DEF Shape, TypeOK
<1>. QED  BY <1>1, <1>2 DEF Shape, TypeOK

LEMMA StepFsyncDone == ASSUME Shape, NEW c \in Caller, FsyncDone(c) PROVE Shape'
<1>1. /\ pc[c] = "synced" /\ MarkSynced(target) /\ Return(c, "sync", FALSE)
      /\ UNCHANGED <<pending, open, writes, needCkpt, token, syncVars, stale, batch, diskVars,
                     base, nops, taken, nfault, ncrash>>
  BY DEF FsyncDone
<1>2. Up /\ nops' = nops /\ pc[c] \notin Locking /\ pc[c] # "down"
  BY <1>1, UpWhen DEF Locking
<1>3. c \in Writers => want'[c] \in 1..nops'
  BY <1>1, <1>2, WaitsPositive DEF Shape, syncVars
<1>4. nops \in Nat /\ nops <= nops'
  BY <1>2, Flags
<1>5. /\ pc' \in [Caller -> Places] /\ Locks' /\ (step' = "none") = MuFree'
      /\ step' = step /\ pc'[c] \in {"want", "peek", "idle"}
      /\ \A d \in Caller : d # c => pc'[d] = pc[d]
      /\ answered' \subseteq 1..nops
  BY <1>1, <1>2, <1>3, <1>4, Flags, Returns
<1>6. synced' \in 0..nops
  BY <1>1, Marks, Flags
<1>7. pc[c] \in Held
  BY <1>1 DEF Held
<1>. QED  BY <1>1, <1>2, <1>5, <1>6, <1>7, Flags, StepLocks, ZenonT(30) DEF syncVars, diskVars

LEMMA StepFsyncFailed == ASSUME Shape, NEW c \in Caller, FsyncFailed(c) PROVE Shape'
<1>1. /\ pc[c] = "failed" /\ MuFree
      /\ UNCHANGED <<pending, writes, synced, token, syncVars, batch, diskVars, base, nops,
                     taken, nfault, ncrash>>
  BY DEF FsyncFailed
<1>2. /\ Up /\ nops' = nops /\ pc[c] \notin Locking /\ pc[c] # "down" /\ pc[c] \in Held
      /\ pc[c] \in HoldsSyncMu
  BY <1>1, UpWhen DEF Locking, Held, HoldsSyncMu
<1>3. c \in Writers => want'[c] \in 1..nops'
  BY <1>1, <1>2, WaitsPositive DEF Shape, syncVars
<1>4. nops \in Nat /\ nops <= nops'
  BY <1>2, Flags
<1>5. CASE Return(c, "sync", FALSE) /\ UNCHANGED <<open, needCkpt, stale>>
  <2>1. /\ pc' \in [Caller -> Places] /\ Locks' /\ (step' = "none") = MuFree'
        /\ step' = step /\ pc'[c] \in {"want", "peek", "idle"}
        /\ \A d \in Caller : d # c => pc'[d] = pc[d]
        /\ answered' \subseteq 1..nops
    <3>1. TypeOK /\ Locks
      BY Flags
    <3>2. Return(c, "sync", FALSE) /\ nops' = nops /\ pc[c] \notin Locking /\ pc[c] # "down" /\ Up
      BY <1>1, <1>2, <1>5
    <3>3. /\ pc' \in [Caller -> Places] /\ Locks' /\ (step' = "none") = MuFree'
          /\ step' = (IF pc[c] \in Locking THEN "none" ELSE step)
          /\ pc'[c] = AfterCall("sync", FALSE) /\ AfterCall("sync", FALSE) \in {"want", "peek", "idle"}
          /\ \A d \in Caller : d # c => pc'[d] = pc[d]
          /\ answered' \subseteq 1..nops'
      BY <1>3, <1>4, <3>1, <3>2, Returns
    <3>. QED  BY <3>2, <3>3
  <2>. QED  BY <1>1, <1>2, <1>5, <2>1, Flags, StepLocks, ZenonT(30) DEF syncVars, diskVars
<1>6. CASE StartCheckpoint(c, "sync")
  <2>1. /\ pc' \in [Caller -> Places] /\ Locks' /\ (step' = "none") = MuFree'
        /\ step' = "write" /\ open' = FALSE /\ stale' = TRUE
        /\ needCkpt' = needCkpt /\ answered' = answered
        /\ \A d \in Caller : pc'[d] = IF d = c THEN "sync" ELSE pc[d]
    BY <1>1, <1>2, <1>6, Starts, Flags
  <2>. QED  BY <1>1, <1>2, <2>1, Flags, StepLocks DEF syncVars, diskVars
<1>. QED  BY <1>5, <1>6 DEF FsyncFailed

\* checkpointLocked goes on, or fails and returns.
LEMMA CheckpointGoes ==
    ASSUME Shape, NEW c \in Caller, pc[c] \in Locking, UNCHANGED <<want, nops>>,
           step' \in {"dir", "open"}, UNCHANGED <<pc, answered>>
    PROVE  /\ pc' \in [Caller -> Places] /\ Locks' /\ (step' = "none") = MuFree'
           /\ \A d \in Caller : pc'[d] = pc[d]
           /\ answered' \subseteq 1..nops
<1>1. ~MuFree /\ MuFree' = MuFree
  BY DEF MuFree
<1>. QED  BY <1>1, Flags DEF Locks, Up, TypeOK, Places

LEMMA CheckpointReturns ==
    ASSUME Shape, NEW c \in Caller, pc[c] \in Locking, UNCHANGED <<want, nops>>, NEW err,
           Return(c, pc[c], err)
    PROVE  /\ pc' \in [Caller -> Places] /\ Locks' /\ (step' = "none") = MuFree'
           /\ step' = "none" /\ pc'[c] \in {"want", "peek", "idle"}
           /\ \A d \in Caller : d # c => pc'[d] = pc[d]
           /\ answered' \subseteq 1..nops
<1>1. Up /\ pc[c] # "down" /\ pc[c] \in Held
  BY UpWhen DEF Locking, Held
<1>2. c \in Writers => want'[c] \in 1..nops'
  BY WaitsPositive, Flags DEF Shape
<1>3. nops \in Nat /\ nops <= nops'
  BY Flags
<1>. QED  BY <1>1, <1>2, <1>3, Flags, Returns

LEMMA StepWriteCheckpoint == ASSUME Shape, NEW c \in Caller, WriteCheckpoint(c) PROVE Shape'
<1>1. /\ pc[c] \in Locking /\ step = "write"
      /\ UNCHANGED <<pending, token, syncVars, stale, batch, base, nops, taken, ncrash>>
      /\ UNCHANGED <<open, writes, synced>>
  BY DEF WriteCheckpoint, CkptUnchanged
<1>2. Up /\ pc[c] \in Held
  BY <1>1, UpWhen DEF Locking, Held
<1>3. CASE /\ NoFault
           /\ stored' = pending /\ cached' = <<>> /\ torn' = FALSE /\ hole' = FALSE
           /\ alt' = Survivors
           /\ step' = "dir" /\ UNCHANGED <<pc, needCkpt, answered>>
  <2>1. /\ pc' \in [Caller -> Places] /\ Locks' /\ (step' = "none") = MuFree'
        /\ \A d \in Caller : pc'[d] = pc[d]
        /\ answered' \subseteq 1..nops
    BY <1>1, <1>3, CheckpointGoes DEF syncVars
  <2>2. alt' \subseteq Seq(Bad..nops)
    BY <1>3, Flags, FilesTyped
  <2>3. pc'[c] \notin {"send", "took"}
    BY <1>1, <2>1 DEF Locking
  <2>. QED  BY <1>1, <1>2, <1>3, <2>1, <2>2, <2>3, Flags, StepLocks DEF syncVars, NoFault
<1>4. CASE CkptFails(c, "checkpoint") /\ UNCHANGED diskVars
  <2>1. Return(c, pc[c], TRUE) /\ needCkpt' = TRUE /\ nfault' \in 0..MaxFaults
    BY <1>4, Faulty, Flags DEF CkptFails
  <2>2. /\ pc' \in [Caller -> Places] /\ Locks' /\ (step' = "none") = MuFree'
        /\ step' = "none" /\ pc'[c] \in {"want", "peek", "idle"}
        /\ \A d \in Caller : d # c => pc'[d] = pc[d]
        /\ answered' \subseteq 1..nops
    BY <1>1, <2>1, CheckpointReturns, Flags DEF syncVars
  <2>. QED  BY <1>1, <1>2, <1>4, <2>1, <2>2, Flags, StepLocks DEF syncVars, diskVars
<1>. QED  BY <1>3, <1>4 DEF WriteCheckpoint

LEMMA StepSyncDir == ASSUME Shape, NEW c \in Caller, SyncDir(c) PROVE Shape'
<1>1. /\ pc[c] \in Locking /\ step = "dir"
      /\ UNCHANGED <<pending, token, syncVars, stale, batch, base, nops, taken, ncrash>>
      /\ UNCHANGED <<open, stored, cached, torn, hole>>
  BY DEF SyncDir, CkptUnchanged
<1>2. Up /\ pc[c] \in Held
  BY <1>1, UpWhen DEF Locking, Held
<1>3. CASE /\ NoFault
           /\ alt' = {}
           /\ writes' = Len(pending) /\ MarkSynced(nops)
           /\ step' = "open" /\ UNCHANGED <<pc, needCkpt, answered>>
  <2>1. /\ pc' \in [Caller -> Places] /\ Locks' /\ (step' = "none") = MuFree'
        /\ \A d \in Caller : pc'[d] = pc[d]
        /\ answered' \subseteq 1..nops
    BY <1>1, <1>3, CheckpointGoes DEF syncVars
  <2>2. synced' \in 0..nops /\ writes' \in Nat
    BY <1>3, Flags, Marks
  <2>3. pc'[c] \notin {"send", "took"}
    BY <1>1, <2>1 DEF Locking
  <2>. QED  BY <1>1, <1>2, <1>3, <2>1, <2>2, <2>3, Flags, StepLocks DEF syncVars, NoFault
<1>4. CASE CkptFails(c, "dirsync") /\ UNCHANGED <<alt, writes, synced>>
  <2>1. Return(c, pc[c], TRUE) /\ needCkpt' = TRUE /\ nfault' \in 0..MaxFaults
    BY <1>4, Faulty, Flags DEF CkptFails
  <2>2. /\ pc' \in [Caller -> Places] /\ Locks' /\ (step' = "none") = MuFree'
        /\ step' = "none" /\ pc'[c] \in {"want", "peek", "idle"}
        /\ \A d \in Caller : d # c => pc'[d] = pc[d]
        /\ answered' \subseteq 1..nops
    BY <1>1, <2>1, CheckpointReturns, Flags DEF syncVars
  <2>. QED  BY <1>1, <1>2, <1>4, <2>1, <2>2, Flags, StepLocks DEF syncVars
<1>. QED  BY <1>3, <1>4 DEF SyncDir

LEMMA StepOpenNew == ASSUME Shape, NEW c \in Caller, OpenNew(c) PROVE Shape'
<1>1. /\ pc[c] \in Locking /\ step = "open"
      /\ UNCHANGED <<pending, token, syncVars, stale, batch, base, nops, taken, ncrash>>
      /\ UNCHANGED <<writes, synced, diskVars>>
  BY DEF OpenNew, CkptUnchanged
<1>2. Up /\ pc[c] \in Held
  BY <1>1, UpWhen DEF Locking, Held
<1>3. PICK err \in BOOLEAN : Return(c, pc[c], err)
  BY DEF OpenNew, CkptFails
<1>4. open' \in BOOLEAN /\ needCkpt' \in BOOLEAN /\ nfault' \in 0..MaxFaults
  BY Flags, Faulty DEF OpenNew, CkptFails
<1>5. /\ pc' \in [Caller -> Places] /\ Locks' /\ (step' = "none") = MuFree'
      /\ step' = "none" /\ pc'[c] \in {"want", "peek", "idle"}
      /\ \A d \in Caller : d # c => pc'[d] = pc[d]
      /\ answered' \subseteq 1..nops
  BY <1>1, <1>3, CheckpointReturns, Flags DEF syncVars
<1>. QED  BY <1>1, <1>2, <1>4, <1>5, Flags, StepLocks DEF syncVars, diskVars

LEMMA StepSyncAll == ASSUME Shape, SyncAll PROVE Shape'
<1>1. /\ Up /\ pc["loop"] = "idle" /\ MuFree /\ "loop" \in Caller /\ "loop" \notin Writers
      /\ UNCHANGED <<pending, writes, synced, token, target, batch, diskVars, base, nops,
                     taken, nfault, ncrash>>
  BY QueueConstantsOK DEF SyncAll, Caller
<1>2. CASE StartCheckpoint("loop", "tick") /\ UNCHANGED want
  <2>1. /\ pc' \in [Caller -> Places] /\ Locks' /\ (step' = "none") = MuFree'
        /\ step' = "write" /\ open' = FALSE /\ stale' = TRUE
        /\ needCkpt' = needCkpt /\ answered' = answered
        /\ \A d \in Caller : pc'[d] = IF d = "loop" THEN "tick" ELSE pc[d]
    BY <1>1, <1>2, Starts, Flags
  <2>. QED  BY <1>1, <1>2, <2>1, Flags, StepLocks DEF diskVars
<1>3. CASE /\ want' = [want EXCEPT !["loop"] = nops]
           /\ pc' = [pc EXCEPT !["loop"] = "want"]
           /\ UNCHANGED <<open, needCkpt, step, stale, answered>>
  <2>1. /\ "want" \in Places /\ "want" # "down" /\ "want" \notin Locking /\ "want" \notin HoldsSyncMu
        /\ step = "none"
    BY <1>1, Flags DEF Places, Locking, HoldsSyncMu
  <2>2. /\ pc' \in [Caller -> Places] /\ Locks' /\ (step' = "none") = MuFree'
        /\ \A d \in Caller : pc'[d] = IF d = "loop" THEN "want" ELSE pc[d]
    BY <1>1, <1>3, <2>1, Flags, Moves
  <2>3. want' \in [Caller -> 0..nops] /\ \A d \in Caller : d # "loop" => want'[d] = want[d]
    BY <1>1, <1>3, Flags
  <2>4. TypeOK'
    <3>1. /\ token \in BOOLEAN /\ batch \in Seq(1..nops) /\ base \in 0..nops
          /\ nops \in 0..MaxOps /\ taken \subseteq 1..nops /\ ncrash \in 0..MaxCrashes
      BY DEF Shape, TypeOK
    <3>. QED  BY <1>1, <1>3, <2>1, <2>2, <2>3, <3>1, Flags DEF TypeOK, Places, diskVars
  <2>5. Waiting'
    <3> SUFFICES ASSUME NEW d \in Writers, pc'[d] \in Held PROVE want'[d] > base'
      BY DEF Waiting, Held
    <3>1. d \in Caller /\ d # "loop"
      BY <1>1 DEF Caller
    <3>2. pc[d] \in Held /\ want'[d] = want[d] /\ base' = base
      BY <1>1, <2>2, <2>3, <3>1
    <3>. QED  BY <3>2 DEF Shape, Waiting, Held
  <2>6. Peeked'
    <3>1. pc'["run"] = pc["run"]
      BY <2>2 DEF Caller
    <3>. QED  BY <1>1, <3>1 DEF Shape, Peeked
  <2>. QED  BY <2>2, <2>4, <2>5, <2>6 DEF Shape
<1>. QED  BY <1>2, <1>3 DEF SyncAll

LEMMA StepRun ==
    ASSUME Shape, NEW from \in {"idle", "peek", "send", "took"},
           NEW to \in {"idle", "peek", "send", "took"},
           RunAt(from, to), RunUnchanged, UNCHANGED <<queueVars, diskVars, answered, nfault>>,
           token' \in BOOLEAN, batch' \in Seq(1..nops), taken' \subseteq 1..nops,
           to \in {"send", "took"} =>
               Len(batch') \in 1..Len(pending) /\ batch' = SubSeq(pending, 1, Len(batch'))
    PROVE  Shape'
<1>1. /\ pc["run"] = from /\ pc' = [pc EXCEPT !["run"] = to] /\ Up
      /\ "run" \in Caller /\ "run" \notin Writers
      /\ UNCHANGED <<step, syncVars, stale, base, nops, ncrash>>
  BY QueueConstantsOK DEF RunAt, RunUnchanged, Caller, Up
<1>2. /\ to \in Places /\ to # "down" /\ to \notin Locking /\ to \notin HoldsSyncMu
      /\ from \notin Locking
  BY DEF Places, Locking, HoldsSyncMu
<1>3. /\ pc' \in [Caller -> Places] /\ Locks' /\ (step' = "none") = MuFree'
      /\ \A d \in Caller : pc'[d] = IF d = "run" THEN to ELSE pc[d]
  BY <1>1, <1>2, Flags, Moves
<1>4. TypeOK'
  <2>1. /\ base \in 0..nops /\ nops \in 0..MaxOps /\ ncrash \in 0..MaxCrashes
    BY DEF Shape, TypeOK
  <2>. QED  BY <1>1, <1>3, <2>1, Flags DEF TypeOK, Places, diskVars, queueVars, syncVars
<1>5. Waiting'
  <2> SUFFICES ASSUME NEW d \in Writers, pc'[d] \in Held PROVE want'[d] > base'
    BY DEF Waiting, Held
  <2>1. d \in Caller /\ d # "run"
    BY <1>1 DEF Caller
  <2>2. pc[d] \in Held /\ want'[d] = want[d] /\ base' = base
    BY <1>1, <1>3, <2>1 DEF syncVars
  <2>. QED  BY <2>2 DEF Shape, Waiting, Held
<1>6. Peeked'
  BY <1>1, <1>3 DEF Peeked, queueVars
<1>. QED  BY <1>3, <1>4, <1>5, <1>6 DEF Shape

LEMMA Batches ==
    ASSUME Shape
    PROVE  /\ batch \in Seq(1..nops) /\ Range(batch) \subseteq 1..nops /\ token \in BOOLEAN
           /\ taken \subseteq 1..nops /\ Len(batch) \in Nat /\ Len(pending) \in Nat
           /\ \A n \in 0..Len(batch) : /\ SubSeq(batch, 1, n) \in Seq(1..nops)
                                       /\ Len(SubSeq(batch, 1, n)) = n
                                       /\ Range(SubSeq(batch, 1, n)) \subseteq 1..nops
           /\ \A s \in Seq(1..nops) : Range(s) \subseteq 1..nops
<1>1. batch \in Seq(1..nops) /\ pending \in Seq(1..nops) /\ token \in BOOLEAN /\ taken \subseteq 1..nops
  BY DEF Shape, TypeOK
<1>2. \A s \in Seq(1..nops) : Range(s) \subseteq 1..nops
  <2> SUFFICES ASSUME NEW s \in Seq(1..nops), NEW x \in Range(s) PROVE x \in 1..nops
    OBVIOUS
  <2>1. PICK i \in DOMAIN s : x = s[i]
    BY DEF Range
  <2>2. i \in 1..Len(s)
    BY <2>1
  <2>. QED  BY <2>1, <2>2, ElementOfSeq
<1>3. \A n \in 0..Len(batch) : /\ SubSeq(batch, 1, n) \in Seq(1..nops)
                               /\ Len(SubSeq(batch, 1, n)) = n
  BY <1>1, Prefixes
<1>4. Len(batch) \in Nat /\ Len(pending) \in Nat
  BY <1>1
<1>. QED  BY <1>1, <1>2, <1>3, <1>4

\* A prefix of a prefix.
LEMMA PrefixOfPrefix ==
    ASSUME NEW T, NEW f \in Seq(T), NEW m \in 0..Len(f), NEW n \in 0..m
    PROVE  SubSeq(SubSeq(f, 1, m), 1, n) = SubSeq(f, 1, n)
<1> DEFINE e == SubSeq(f, 1, m)
<1>1. e \in Seq(T) /\ Len(e) = m /\ \A i \in 1..m : e[i] = f[i]
  BY SubSeqProperties
<1> HIDE DEF e
<1>2. \A i \in 1..n : e[i] \in T /\ f[i] \in T /\ e[i] = f[i]
  BY <1>1
<1>3. /\ SubSeq(e, 1, n) \in Seq(T) /\ Len(SubSeq(e, 1, n)) = n
      /\ \A i \in 1..n : SubSeq(e, 1, n)[i] = e[i]
      /\ SubSeq(f, 1, n) \in Seq(T) /\ Len(SubSeq(f, 1, n)) = n
      /\ \A i \in 1..n : SubSeq(f, 1, n)[i] = f[i]
  BY <1>1, <1>2, SubSeqProperties
<1>4. SubSeq(e, 1, n) = SubSeq(f, 1, n)
  BY <1>2, <1>3, SeqEqual
<1>. QED  BY <1>4 DEF e

LEMMA StepWake == ASSUME Shape, Wake PROVE Shape'
<1>1. token' = FALSE /\ RunAt("idle", "peek") /\ RunUnchanged
      /\ UNCHANGED <<queueVars, batch, diskVars, answered, taken, nfault>>
  BY DEF Wake
<1>. QED  BY <1>1, Batches, StepRun

LEMMA StepPeekBatch == ASSUME Shape, PeekBatch PROVE Shape'
<1> DEFINE n == IF Len(pending) < MaxBatch THEN Len(pending) ELSE MaxBatch
           to == IF pending = <<>> THEN "idle" ELSE "send"
<1>1. /\ RunAt("peek", to) /\ RunUnchanged /\ batch' = SubSeq(pending, 1, n)
      /\ UNCHANGED <<queueVars, token, diskVars, answered, taken, nfault>>
  BY DEF PeekBatch
<1>2. pending \in Seq(1..nops) /\ n \in 0..Len(pending) /\ (pending # <<>> => n \in 1..Len(pending))
  BY Flags, QueueConstantsOK
<1>3. batch' \in Seq(1..nops) /\ Len(batch') = n
  BY <1>1, <1>2, Prefixes
<1>4. to \in {"idle", "peek", "send", "took"} /\ (to # "idle" => pending # <<>>)
  OBVIOUS
<1> HIDE DEF n, to
<1>5. to \in {"send", "took"} =>
          Len(batch') \in 1..Len(pending) /\ batch' = SubSeq(pending, 1, Len(batch'))
  BY <1>1, <1>2, <1>3, <1>4
<1>. QED  BY <1>1, <1>3, <1>4, <1>5, Batches, StepRun

LEMMA StepDeliver == ASSUME Shape, Deliver PROVE Shape'
<1>1. PICK n \in 1..Len(batch) : batch' = SubSeq(batch, 1, n)
  BY DEF Deliver
<1>2. /\ RunAt("send", "took") /\ RunUnchanged /\ taken' = taken \cup Range(batch')
      /\ UNCHANGED <<queueVars, token, diskVars, answered, nfault>>
  BY DEF Deliver
<1>3. Len(batch) \in 1..Len(pending) /\ batch = SubSeq(pending, 1, Len(batch))
  BY <1>2 DEF Shape, Peeked, RunAt
<1>4. /\ batch' \in Seq(1..nops) /\ Len(batch') = n /\ taken' \subseteq 1..nops
  BY <1>1, <1>2, Batches
<1>5. batch' = SubSeq(pending, 1, n) /\ n \in 1..Len(pending)
  <2>1. Len(batch) \in 0..Len(pending) /\ n \in 0..Len(batch) /\ n \in 1..Len(pending)
    BY <1>1, <1>3, Batches
  <2> DEFINE m == Len(batch)
  <2>2. batch = SubSeq(pending, 1, m) /\ m \in 0..Len(pending) /\ n \in 0..m
    BY <1>3, <2>1
  <2> HIDE DEF m
  <2>3. SubSeq(SubSeq(pending, 1, m), 1, n) = SubSeq(pending, 1, n)
    BY <2>2, Flags, PrefixOfPrefix
  <2>. QED  BY <1>1, <2>1, <2>2, <2>3
<1>. QED  BY <1>2, <1>4, <1>5, Batches, StepRun

LEMMA StepReplyLost == ASSUME Shape, ReplyLost PROVE Shape'
<1>1. PICK n \in 1..Len(batch) : taken' = taken \cup Range(SubSeq(batch, 1, n))
  BY DEF ReplyLost
<1>2. /\ RunAt("send", "send") /\ RunUnchanged
      /\ UNCHANGED <<queueVars, token, batch, diskVars, answered, nfault>>
  BY DEF ReplyLost
<1>3. Len(batch) \in 1..Len(pending) /\ batch = SubSeq(pending, 1, Len(batch))
  BY <1>2 DEF Shape, Peeked, RunAt
<1>4. taken' \subseteq 1..nops
  BY <1>1, Batches
<1>. QED  BY <1>2, <1>3, <1>4, Batches, StepRun

\* ackN drops what the peer took from the front of the queue.
LEMMA Drops ==
    ASSUME Shape, pc["run"] = "took"
    PROVE  /\ Len(batch) \in 1..Len(pending) /\ Unacked(pending) \in Seq(1..nops)
           /\ Len(Unacked(pending)) = Len(pending) - Len(batch)
           /\ Unacked(pending) = SubSeq(pending, Len(batch) + 1, Len(pending))
           /\ [i \in 1..(Len(pending) - Len(Unacked(pending))) |-> Ack] = Acks(Len(batch))
           /\ \A i \in 1..(Len(pending) - Len(batch)) : Unacked(pending)[i] = pending[Len(batch) + i]
<1>1. Len(batch) \in 1..Len(pending) /\ pending \in Seq(1..nops) /\ Len(pending) \in Nat
  BY Flags, Batches DEF Shape, Peeked
<1> DEFINE m == Len(batch)
           u == SubSeq(pending, m + 1, Len(pending))
<1>2. m \in 1..Len(pending)
  BY <1>1
<1> HIDE DEF m
<1>3. \A i \in (m + 1)..Len(pending) : pending[i] \in 1..nops
  <2> TAKE i \in (m + 1)..Len(pending)
  <2>1. i \in 1..Len(pending)
    BY <1>1, <1>2
  <2>. QED  BY <1>1, <2>1, ElementOfSeq
<1>4. /\ u \in Seq(1..nops) /\ Len(u) = Len(pending) - m
      /\ \A i \in 1..(Len(pending) - m) : u[i] = pending[m + i]
  <2>1. m + 1 \in Int /\ Len(pending) \in Int /\ m + 1 <= Len(pending) + 1
    BY <1>1, <1>2
  <2> DEFINE k == m + 1
  <2>2. k \in Int /\ k <= Len(pending) + 1 /\ \A i \in k..Len(pending) : pending[i] \in 1..nops
    BY <2>1, <1>3
  <2>3. /\ SubSeq(pending, k, Len(pending)) \in Seq(1..nops)
        /\ Len(SubSeq(pending, k, Len(pending))) = IF k <= Len(pending) THEN Len(pending) - k + 1 ELSE 0
        /\ \A i \in 1..(Len(pending) - k + 1) : SubSeq(pending, k, Len(pending))[i] = pending[k + i - 1]
    <3> HIDE DEF k
    <3>. QED  BY <1>1, <2>1, <2>2, SubSeqProperties
  <2>. QED  BY <1>1, <1>2, <2>3
<1>5. Unacked(pending) = u
  BY DEF Unacked, m
<1>6. Len(pending) - Len(Unacked(pending)) = m
  BY <1>1, <1>2, <1>4, <1>5
<1>. QED  BY <1>1, <1>4, <1>5, <1>6 DEF m, Acks

LEMMA AckNAppends ==
    ASSUME Shape, AckN
    PROVE  /\ Appending("run", "ack", Acks(Len(batch))) /\ pending' = Unacked(pending)
           /\ AppendLocked("run", "ack", Acks(Len(batch)))
           /\ pc["run"] = "took" /\ MuFree /\ Up /\ batch' = <<>>
           /\ "run" \in Caller /\ "run" \notin Writers
           /\ UNCHANGED <<synced, token, syncVars, stored, hole, alt, base, nops, taken, ncrash>>
<1>1. /\ pc["run"] = "took" /\ MuFree /\ pending' = Unacked(pending) /\ batch' = <<>>
      /\ AppendLocked("run", "ack", [i \in 1..(Len(pending) - Len(pending')) |-> Ack])
      /\ UNCHANGED <<synced, token, syncVars, stored, hole, alt, base, nops, taken, ncrash>>
  BY DEF AckN
<1>2. "run" \in Caller /\ "run" \notin Writers /\ Up
  BY <1>1, QueueConstantsOK DEF Caller, Up
<1>3. AppendLocked("run", "ack", Acks(Len(batch)))
  BY <1>1, Drops
<1>4. Acks(Len(batch)) \in Seq(Bad..nops) /\ Acks(Len(batch)) # <<>>
  <2>1. Len(batch) \in Nat /\ Len(batch) # 0
    BY <1>1, Batches, Drops
  <2>2. Acks(Len(batch)) \in Seq({Ack}) /\ Len(Acks(Len(batch))) = Len(batch)
    BY <2>1, EmptySeq, AppendAck
  <2>3. {Ack} \subseteq Bad..nops
    BY Flags DEF Ack, Bad
  <2>4. Acks(Len(batch)) \in Seq(Bad..nops)
    BY <2>2, <2>3, SeqMonotonic
  <2>. QED  BY <2>1, <2>2, <2>4
<1>5. pending' \in Seq(1..nops)
  BY <1>1, Drops
<1>. QED  BY <1>1, <1>2, <1>3, <1>4, <1>5, Flags DEF Appending, Shape

LEMMA StepAckN == ASSUME Shape, AckN PROVE Shape'
<1>1. /\ pending' = Unacked(pending) /\ pc["run"] = "took" /\ batch' = <<>>
      /\ "run" \in Caller /\ "run" \notin Writers
      /\ UNCHANGED <<synced, token, syncVars, stored, hole, alt, base, nops, taken, ncrash>>
  BY AckNAppends
<1>2. /\ pc' \in [Caller -> Places] /\ Locks' /\ (step' = "none") = MuFree' /\ Up'
      /\ step' \in {"none", "write"} /\ (step' # "none" => open' = FALSE)
      /\ open' \in BOOLEAN /\ needCkpt' \in BOOLEAN /\ stale' \in BOOLEAN /\ writes' \in Nat
      /\ answered' \subseteq 1..nops' /\ nfault' \in 0..MaxFaults
      /\ cached' \in Seq(Bad..nops') /\ torn' \in BOOLEAN
      /\ pc'["run"] \in {"ack", "want", "peek", "idle"}
      /\ \A d \in Caller : d # "run" => pc'[d] = pc[d]
  BY AckNAppends, AppendTypes
<1>3. pending' \in Seq(1..nops) /\ batch' \in Seq(1..nops)
  BY <1>1, Drops
<1>4. TypeOK'
  <2>1. /\ token \in BOOLEAN /\ base \in 0..nops /\ nops \in 0..MaxOps
        /\ taken \subseteq 1..nops /\ ncrash \in 0..MaxCrashes
    BY DEF Shape, TypeOK
  <2>. QED  BY <1>1, <1>2, <1>3, <2>1, Flags DEF TypeOK, Places, syncVars
<1>5. Waiting'
  <2> SUFFICES ASSUME NEW d \in Writers, pc'[d] \in Held PROVE want'[d] > base'
    BY DEF Waiting, Held
  <2>1. d \in Caller /\ d # "run"
    BY <1>1 DEF Caller
  <2>2. pc[d] \in Held /\ want'[d] = want[d] /\ base' = base
    BY <1>1, <1>2, <2>1 DEF syncVars
  <2>. QED  BY <2>2 DEF Shape, Waiting, Held
<1>6. Peeked'
  BY <1>2 DEF Peeked
<1>. QED  BY <1>2, <1>4, <1>5, <1>6 DEF Shape

LEMMA StepCrash ==
    ASSUME Shape, Crash, stored' \in Seq(Bad..nops), cached' \in Seq(Bad..nops),
           torn' \in BOOLEAN, hole' \in BOOLEAN, alt' \subseteq Seq(Bad..nops)
    PROVE  Shape'
<1>1. /\ pending' = <<>> /\ open' = FALSE /\ writes' = 0 /\ needCkpt' = FALSE /\ synced' = 0
      /\ token' = FALSE /\ step' = "none" /\ batch' = <<>> /\ target' = 0 /\ stale' = FALSE
      /\ UNCHANGED <<base, nops, answered, taken, nfault>>
      /\ pc' = [c \in Caller |-> IF c = "run" THEN "down" ELSE "idle"]
      /\ want' = [c \in Caller |-> 0]
  BY DEF Crash
<1>2. ncrash' \in 0..MaxCrashes
  BY QueueConstantsOK DEF Crash, Shape, TypeOK
<1>3. /\ pc' \in [Caller -> Places] /\ "run" \in Caller /\ ~Up'
      /\ \A c \in Caller : pc'[c] = IF c = "run" THEN "down" ELSE "idle"
  BY <1>1 DEF Places, Caller, Up
<1>4. MuFree' /\ Locks' /\ Peeked'
  BY <1>3 DEF MuFree, Locks, Locking, HoldsSyncMu, Up, Peeked
<1>5. Waiting'
  BY <1>3, QueueConstantsOK DEF Waiting, Locking, Caller
<1>6. TypeOK'
  <2>1. /\ base \in 0..nops /\ nops \in 0..MaxOps /\ taken \subseteq 1..nops
    BY DEF Shape, TypeOK
  <2>2. want' \in [Caller -> 0..nops] /\ <<>> \in Seq(1..nops)
    BY <1>1, Flags
  <2>. QED  BY <1>1, <1>2, <1>3, <1>4, <2>1, <2>2, Flags DEF TypeOK, Places
<1>. QED  BY <1>4, <1>5, <1>6 DEF Shape

LEMMA StepKill == ASSUME Shape, Kill PROVE Shape'
BY Flags, StepCrash DEF Kill, diskVars

LEMMA StepPowerLoss == ASSUME Shape, PowerLoss PROVE Shape'
<1>1. /\ Crash /\ stored' \in Survivors /\ cached' = <<>> /\ hole' = FALSE /\ alt' = {}
      /\ torn' \in BOOLEAN
  BY DEF PowerLoss
<1>. QED  BY <1>1, Flags, FilesTyped, StepCrash

LEMMA StepRestart == ASSUME Shape, Restart PROVE Shape'
<1> DEFINE f == stored \o cached'
           r == Replay(f)
           reclaim == r.ok /\ Reclaimable(Len(f), r.ops)
<1>1. /\ ~Up /\ cached' = (IF hole THEN <<>> ELSE cached) /\ hole' = FALSE
      /\ pending' = r.ops /\ writes' = (IF r.ok THEN Len(f) ELSE 0)
      /\ \/ open' = (r.ok /\ ~reclaim) /\ NoFault
         \/ r.ok /\ Fault("open") /\ open' = FALSE
      /\ IF reclaim /\ nfault' = nfault
         THEN pc' = [pc EXCEPT !["run"] = "load"] /\ step' = "write"
         ELSE pc' = [pc EXCEPT !["run"] = "idle"] /\ UNCHANGED step
      /\ token' = TRUE /\ synced' = nops /\ base' = nops
      /\ UNCHANGED <<needCkpt, syncVars, stale, batch, stored, torn, alt, nops, answered,
                     taken, ncrash>>
  BY DEF Restart, SignalAtStart
<1>2. f \in Seq(Bad..nops) /\ cached' \in Seq(Bad..nops) /\ f \in Seq(Lines)
  <2>1. cached' \in Seq(Bad..nops)
    BY <1>1, Flags
  <2>2. f \in Seq(Bad..nops)
    BY <2>1, Flags, ConcatProperties
  <2>3. Bad..nops \subseteq Lines
    BY DEF Lines, Bad
  <2>. QED  BY <2>1, <2>2, <2>3, SeqMonotonic
<1>3. r.ops \in Seq(1..nops) /\ r.ok \in BOOLEAN /\ Len(f) \in Nat
  <2> HIDE DEF f
  <2>1. nops \in Nat
    BY Flags
  <2>2. Loads(f) \in Seq(1..nops) /\ Replay(f).ok \in BOOLEAN
    BY <1>2, <2>1, LoadsWrites
  <2>. QED  BY <1>2, <2>2 DEF Loads
<1> HIDE DEF f, r
<1>4. /\ open' \in BOOLEAN /\ writes' \in Nat /\ nfault' \in 0..MaxFaults
      /\ (reclaim /\ nfault' = nfault => open' = FALSE)
  <2>1. nfault' \in 0..MaxFaults
    BY <1>1, Flags, Faulty
  <2>2. nfault \in Nat
    BY Flags
  <2>3. open' = (r.ok /\ ~reclaim) \/ (nfault' = nfault + 1 /\ open' = FALSE)
    BY <1>1 DEF Fault
  <2>. QED  BY <1>1, <1>3, <2>1, <2>2, <2>3
<1> HIDE DEF reclaim
<1>5. /\ "run" \in Caller /\ "run" \notin Writers
      /\ \A c \in Caller \ {"run"} : pc[c] = "idle"
      /\ pc["run"] = "down" /\ step = "none"
  <2>1. /\ "run" \in Caller /\ "run" \notin Writers
        /\ \A c \in Caller \ {"run"} : pc[c] = "idle"
        /\ pc["run"] = "down"
    BY <1>1, QueueConstantsOK DEF Shape, Locks, Up, Caller
  <2>2. MuFree
    BY <2>1 DEF MuFree, Locking
  <2>. QED  BY <2>1, <2>2, Flags
<1>6. PICK to \in {"load", "idle"} :
          /\ pc' = [pc EXCEPT !["run"] = to]
          /\ step' = (IF to = "load" THEN "write" ELSE "none")
          /\ to = "load" => open' = FALSE
  BY <1>1, <1>4, <1>5
<1>7. /\ pc' \in [Caller -> Places]
      /\ \A c \in Caller : pc'[c] = IF c = "run" THEN to ELSE "idle"
  BY <1>5, <1>6, Flags DEF TypeOK, Places, Locking
<1>8. /\ Locks' /\ (step' = "none") = MuFree' /\ Peeked'
  BY <1>5, <1>6, <1>7, ZenonT(30) DEF Locks, MuFree, Locking, HoldsSyncMu, Up, Peeked
<1>9. Waiting'
  BY <1>5, <1>7 DEF Waiting, Locking, Caller
<1>10. TypeOK'
  <2>1. /\ nops \in 0..MaxOps /\ taken \subseteq 1..nops /\ ncrash \in 0..MaxCrashes
        /\ batch \in Seq(1..nops) /\ nops \in 0..nops
    BY DEF Shape, TypeOK
  <2>2. step' \in {"none", "write"} /\ (step' # "none" => open' = FALSE)
    BY <1>6
  <2>. QED  BY <1>1, <1>2, <1>3, <1>4, <1>7, <1>8, <2>1, <2>2, Flags DEF TypeOK, Places, syncVars
<1>. QED  BY <1>8, <1>9, <1>10 DEF Shape

LEMMA StepStutter == ASSUME Shape, UNCHANGED vars PROVE Shape'
<1> USE DEF vars, queueVars, syncVars, diskVars
<1>1. TypeOK'
  BY DEF Shape, TypeOK, MuFree
<1>2. Locks' /\ Waiting'
  BY DEF Shape, Locks, Waiting, Up
<1>3. Peeked'
  BY DEF Shape, Peeked
<1>. QED  BY <1>1, <1>2, <1>3 DEF Shape

LEMMA ShapeFirst == Init => Shape
<1> SUFFICES ASSUME Init PROVE Shape
  OBVIOUS
<1>1. \A c \in Caller : pc[c] = "idle"
  BY DEF Init
<1>2. MuFree /\ Locks /\ Waiting /\ Peeked
  BY <1>1 DEF MuFree, Locks, Waiting, Peeked, Locking, HoldsSyncMu, Up, Caller
<1>3. TypeOK
  <2>1. pc \in [Caller -> Places] /\ want \in [Caller -> 0..nops]
    BY DEF Init, Places
  <2>2. \A T : <<>> \in Seq(T)
    OBVIOUS
  <2>3. pending \in Seq(1..nops) /\ batch \in Seq(1..nops) /\ stored \in Seq(Bad..nops)
        /\ cached \in Seq(Bad..nops) /\ alt \subseteq Seq(Bad..nops)
    BY <2>2 DEF Init
  <2>4. /\ writes \in Nat /\ synced \in 0..nops /\ target \in 0..nops /\ base \in 0..nops
        /\ nops \in 0..MaxOps /\ nfault \in 0..MaxFaults /\ ncrash \in 0..MaxCrashes
    <3>1. MaxOps \in Nat /\ MaxFaults \in Nat /\ MaxCrashes \in Nat
      BY QueueConstantsOK
    <3>2. writes = 0 /\ synced = 0 /\ target = 0 /\ base = 0 /\ nops = 0 /\ nfault = 0 /\ ncrash = 0
      BY DEF Init
    <3>. QED  BY <3>1, <3>2
  <2>6. /\ open \in BOOLEAN /\ needCkpt \in BOOLEAN /\ token \in BOOLEAN /\ stale \in BOOLEAN
        /\ torn \in BOOLEAN /\ hole \in BOOLEAN
    BY DEF Init
  <2>5. /\ answered \subseteq 1..nops /\ taken \subseteq 1..nops
        /\ step \in {"none", "write", "dir", "open"} /\ step = "none"
    BY DEF Init
  <2>. QED  BY <1>2, <2>1, <2>3, <2>4, <2>5, <2>6 DEF TypeOK, Places
<1>. QED  BY <1>2, <1>3 DEF Shape

LEMMA ShapeNext == Shape /\ [Next]_vars => Shape'
<1> SUFFICES ASSUME Shape, [Next]_vars PROVE Shape'
  OBVIOUS
<1>. QED  BY StepEnqueue, StepSyncTo, StepFsyncWAL, StepFsyncDone, StepFsyncFailed,
             StepWriteCheckpoint, StepSyncDir, StepOpenNew, StepSyncAll, StepWake,
             StepPeekBatch, StepAckN, StepDeliver, StepReplyLost, StepKill, StepPowerLoss,
             StepRestart, StepStutter DEF Next, Sync, Checkpoint, RunStep

\* The types: the locks are held by one goroutine each and w.mu exactly while a
\* checkpoint is under way (enqueue, ackN, syncTo, syncAll, checkpointLocked).
THEOREM TypeCorrect == Spec => []TypeOK
<1>1. Shape => TypeOK
  BY DEF Shape
<1>. QED  BY <1>1, ShapeFirst, ShapeNext, PTL DEF Spec

--------------------------------------------------------------------------------
(* The WAL is in step with the queue, and what was fsynced is in what a power loss  *)
(* leaves.                                                                         *)

\* A goroutine moves on, and the queue and the disk stay as they are.
SameDisk == UNCHANGED <<pending, base, diskVars>>

LEMMA DiskStays ==
    ASSUME SameDisk
    PROVE  /\ Survivors' = Survivors /\ File' = File /\ pending' = pending /\ base' = base
           /\ stored' = stored /\ cached' = cached /\ torn' = torn /\ hole' = hole
BY DEF SameDisk, diskVars, Survivors, File

LEMMA LastSurvives == ASSUME TypeOK, ~hole PROVE File \in Survivors
<1>1. Len(cached) \in 0..Len(cached) /\ SubSeq(cached, 1, Len(cached)) = cached
  BY Prefixes DEF TypeOK
<1>. QED  BY <1>1 DEF File, Survivors

\* A queue in a file of its own is loaded as it is.
LEMMA ReplayQueue ==
    ASSUME TypeOK
    PROVE  Replay(pending) = [ops |-> pending, ok |-> TRUE]
<1>1. pending \in Seq(1..nops)
  BY DEF TypeOK
<1>2. pending \in Seq(Lines)
  <2>1. 1..nops \subseteq Lines
    BY DEF Lines
  <2>. QED  BY <1>1, <2>1, SeqMonotonic
<1>3. \A i \in 1..Len(pending) : pending[i] \notin {Ack, Bad}
  <2> TAKE i \in 1..Len(pending)
  <2>1. pending[i] \in 1..nops
    BY <1>1, ElementOfSeq
  <2>. QED  BY <2>1 DEF Ack, Bad
<1>. QED  BY <1>2, <1>3, ReplayClean

\* The goroutines that share fsyncs are as they were, but for c.
OthersFsync(c) == \A d \in Caller : d # c => pc'[d] = pc[d] /\ want'[d] = want[d]

\* A call that returns, or begins to wait, while the disk stays as it is.
LEMMA WALStays ==
    ASSUME WAL, Shape, Shape', SameDisk, NEW c \in Caller, OthersFsync(c), Up, Up',
           pc'[c] \notin {"fsync", "synced", "failed"},
           UNCHANGED <<synced, target>>,
           \/ UNCHANGED <<step, needCkpt, stale>> /\ (pc[c] = "failed" => stale)
           \/ step' = "write" /\ stale' /\ needCkpt' = needCkpt
           \/ step' = "none" /\ step # "none" /\ needCkpt' /\ stale' = stale
    PROVE  WAL'
<1>1. /\ Survivors' = Survivors /\ File' = File /\ pending' = pending /\ base' = base
      /\ stored' = stored /\ cached' = cached /\ torn' = torn /\ hole' = hole
  BY DiskStays
<1>2. Whole'
  BY <1>1 DEF WAL, Whole, Ascending, Loads
<1>3. InStep'
  BY <1>1 DEF WAL, InStep
<1>4. ASSUME NEW d \in Caller
      PROVE  /\ pc'[d] = "fsync" => ~hole' /\ want'[d] <= target'
             /\ pc'[d] \in {"fsync", "failed"} /\ ~stale' => step' = "none" /\ synced' < want'[d]
             /\ pc'[d] = "fsync" /\ ~stale' => FsyncCovers'
             /\ pc'[d] = "synced" => want'[d] <= target' /\ OnDisk(target)'
  <2>1. CASE d = c
    BY <2>1
  <2>2. CASE d # c
    <3>1. pc'[d] = pc[d] /\ want'[d] = want[d]
      BY <2>2 DEF OthersFsync
    <3>. QED  BY <1>1, <3>1 DEF WAL, Fsyncs, FsyncCovers, OnDisk
  <2>. QED  BY <2>1, <2>2
<1>5. Up' /\ hole' => \/ step' = "write" \/ needCkpt'
                      \/ \E d \in Caller : pc'[d] = "failed" /\ ~stale'
  <2> SUFFICES ASSUME hole', step' # "write", ~needCkpt'
      PROVE \E d \in Caller : pc'[d] = "failed" /\ ~stale'
    OBVIOUS
  <2>1. PICK d \in Caller : pc[d] = "failed" /\ ~stale
    BY <1>1 DEF WAL, Fsyncs
  <2>2. d # c
    BY <2>1
  <2>. QED  BY <2>1, <2>2 DEF OthersFsync
<1>6. Up' => OnDisk(synced)'
  BY <1>1 DEF WAL, Fsyncs, OnDisk
<1>. QED  BY <1>2, <1>3, <1>4, <1>5, <1>6 DEF WAL, Fsyncs

LEMMA ReturnsTo ==
    ASSUME Shape, NEW c \in Caller, NEW from, NEW err, Return(c, from, err)
    PROVE  /\ \A d \in Caller : d # c => pc'[d] = pc[d]
           /\ pc'[c] \in {"want", "peek", "idle"} /\ pc'[c] = AfterCall(from, err)
           /\ step' = IF pc[c] \in Locking THEN "none" ELSE step
BY Flags DEF Return, AfterCall, TypeOK

LEMMA StartsFrom ==
    ASSUME Shape, NEW c \in Caller, NEW from, StartCheckpoint(c, from)
    PROVE  /\ \A d \in Caller : d # c => pc'[d] = pc[d]
           /\ pc'[c] = from /\ step' = "write" /\ stale' /\ needCkpt' = needCkpt
BY Flags DEF StartCheckpoint, TypeOK

LEMMA WALSyncTo == ASSUME WAL, Shape, Shape', NEW c \in Caller, SyncTo(c) PROVE WAL'
<1>1. /\ pc[c] = "want" /\ SameDisk /\ Up /\ UNCHANGED <<want, synced, nops>>
  BY UpWhen DEF SyncTo, SameDisk
<1>2. CASE Return(c, "sync", FALSE) /\ UNCHANGED <<open, needCkpt, target, stale>>
  <2>1. /\ \A d \in Caller : d # c => pc'[d] = pc[d]
        /\ pc'[c] \in {"want", "peek", "idle"} /\ step' = step
    BY <1>1, <1>2, ReturnsTo DEF Locking
  <2>2. OthersFsync(c) /\ Up'
    BY <1>1, <2>1 DEF OthersFsync, Up, Caller
  <2>. QED  BY <1>1, <1>2, <2>1, <2>2, WALStays
<1>3. CASE StartCheckpoint(c, "sync") /\ UNCHANGED target
  <2>1. /\ \A d \in Caller : d # c => pc'[d] = pc[d]
        /\ pc'[c] = "sync" /\ step' = "write" /\ stale' /\ needCkpt' = needCkpt
    BY <1>3, StartsFrom
  <2>2. OthersFsync(c) /\ Up'
    BY <1>1, <2>1 DEF OthersFsync, Up, Caller
  <2>. QED  BY <1>1, <1>3, <2>1, <2>2, WALStays
<1>4. CASE /\ synced < want[c] /\ SyncMuFree /\ MuFree /\ ~needCkpt
           /\ pc' = [pc EXCEPT ![c] = "fsync"]
           /\ target' = nops /\ stale' = FALSE
           /\ UNCHANGED <<open, needCkpt, step, answered>>
  <2>1. /\ Survivors' = Survivors /\ File' = File /\ pending' = pending /\ base' = base
        /\ stored' = stored /\ cached' = cached /\ torn' = torn /\ hole' = hole
    BY <1>1, DiskStays
  <2>2. \A d \in Caller : pc'[d] = IF d = c THEN "fsync" ELSE pc[d]
    BY <1>4, Flags DEF TypeOK
  <2>3. step = "none" /\ want[c] <= nops /\ \A d \in Caller : pc[d] \notin {"fsync", "synced", "failed"}
    <3>1. want[c] \in 0..nops /\ nops \in Nat
      BY Flags
    <3>2. step = "none"
      BY <1>4, Flags
    <3>. QED  BY <1>4, <3>1, <3>2 DEF SyncMuFree
  <2>4. ~hole
    BY <1>1, <1>4, <2>3 DEF WAL, Fsyncs
  <2>5. FsyncCovers'
    <3>1. Replay(File) = [ops |-> pending, ok |-> TRUE]
      BY <1>1, <1>4, <2>3 DEF WAL, InStep
    <3>2. Loads(File) = pending
      BY <3>1 DEF Loads
    <3>. QED  BY <2>1, <3>2 DEF FsyncCovers
  <2>6. Whole' /\ InStep'
    <3>1. Up'
      BY <1>1, <2>2 DEF Up, Caller
    <3>. QED  BY <1>1, <1>4, <2>1, <3>1 DEF WAL, Whole, InStep, Ascending, Loads
  <2>7. Up' => OnDisk(synced)'
    BY <1>1, <2>1 DEF WAL, Fsyncs, OnDisk
  <2>8. ASSUME NEW d \in Caller
        PROVE  /\ pc'[d] = "fsync" => ~hole' /\ want'[d] <= target'
               /\ pc'[d] \in {"fsync", "failed"} /\ ~stale' => step' = "none" /\ synced' < want'[d]
               /\ pc'[d] = "fsync" /\ ~stale' => FsyncCovers'
               /\ pc'[d] = "synced" => want'[d] <= target' /\ OnDisk(target)'
    BY <1>1, <1>4, <2>1, <2>2, <2>3, <2>4, <2>5
  <2>. QED  BY <2>1, <2>4, <2>6, <2>7, <2>8 DEF WAL, Fsyncs
<1>. QED  BY <1>2, <1>3, <1>4 DEF SyncTo

LEMMA WALFsyncFailed == ASSUME WAL, Shape, Shape', NEW c \in Caller, FsyncFailed(c) PROVE WAL'
<1>1. /\ pc[c] = "failed" /\ MuFree /\ SameDisk /\ Up /\ UNCHANGED <<want, synced, target>>
  BY UpWhen DEF FsyncFailed, SameDisk, syncVars
<1>2. CASE (synced >= want[c] \/ stale) /\ Return(c, "sync", FALSE) /\ UNCHANGED <<open, needCkpt, stale>>
  <2>1. /\ \A d \in Caller : d # c => pc'[d] = pc[d]
        /\ pc'[c] \in {"want", "peek", "idle"} /\ step' = step
    BY <1>1, <1>2, ReturnsTo DEF Locking
  <2>2. OthersFsync(c) /\ Up'
    BY <1>1, <2>1 DEF OthersFsync, Up, Caller
  <2>3. stale
    <3>1. ~stale => synced < want[c]
      BY <1>1 DEF WAL, Fsyncs
    <3>2. synced \in Int /\ want[c] \in Int
      BY Flags
    <3>. QED  BY <1>2, <3>1, <3>2
  <2>. QED  BY <1>1, <1>2, <2>1, <2>2, <2>3, WALStays
<1>3. CASE StartCheckpoint(c, "sync")
  <2>1. /\ \A d \in Caller : d # c => pc'[d] = pc[d]
        /\ pc'[c] = "sync" /\ step' = "write" /\ stale' /\ needCkpt' = needCkpt
    BY <1>3, StartsFrom
  <2>2. OthersFsync(c) /\ Up'
    BY <1>1, <2>1 DEF OthersFsync, Up, Caller
  <2>. QED  BY <1>1, <2>1, <2>2, WALStays
<1>. QED  BY <1>2, <1>3 DEF FsyncFailed

LEMMA WALSyncAll == ASSUME WAL, Shape, Shape', SyncAll PROVE WAL'
<1>1. /\ pc["loop"] = "idle" /\ SameDisk /\ Up /\ UNCHANGED <<synced, target>> /\ "loop" \in Caller
      /\ MuFree
  BY DEF SyncAll, SameDisk, Caller
<1>2. CASE StartCheckpoint("loop", "tick") /\ UNCHANGED want
  <2>1. /\ \A d \in Caller : d # "loop" => pc'[d] = pc[d]
        /\ pc'["loop"] = "tick" /\ step' = "write" /\ stale' /\ needCkpt' = needCkpt
    BY <1>1, <1>2, StartsFrom
  <2>2. OthersFsync("loop") /\ Up'
    BY <1>1, <1>2, <2>1 DEF OthersFsync, Up, Caller
  <2>. QED  BY <1>1, <2>1, <2>2, WALStays
<1>3. CASE /\ want' = [want EXCEPT !["loop"] = nops]
           /\ pc' = [pc EXCEPT !["loop"] = "want"]
           /\ UNCHANGED <<open, needCkpt, step, stale, answered>>
  <2>1. /\ \A d \in Caller : d # "loop" => pc'[d] = pc[d] /\ want'[d] = want[d]
        /\ pc'["loop"] = "want"
    BY <1>1, <1>3, Flags DEF TypeOK
  <2>2. OthersFsync("loop") /\ Up'
    BY <1>1, <2>1 DEF OthersFsync, Up, Caller
  <2>. QED  BY <1>1, <1>3, <2>1, <2>2, WALStays
<1>. QED  BY <1>2, <1>3 DEF SyncAll

\* What the worker of the peer does between two calls.
LEMMA WALRun ==
    ASSUME WAL, Shape, Shape', NEW from \in {"idle", "peek", "send", "took"},
           NEW to \in {"idle", "peek", "send", "took"},
           RunAt(from, to), RunUnchanged, UNCHANGED <<queueVars, diskVars>>
    PROVE  WAL'
<1>1. /\ pc["run"] = from /\ pc' = [pc EXCEPT !["run"] = to] /\ "run" \in Caller
      /\ UNCHANGED <<step, want, target, stale, base, needCkpt, synced>> /\ SameDisk
  BY DEF RunAt, RunUnchanged, Caller, queueVars, syncVars, SameDisk
<1>2. /\ \A d \in Caller : d # "run" => pc'[d] = pc[d]
      /\ pc'["run"] = to
  BY <1>1, Flags DEF TypeOK
<1>3. OthersFsync("run") /\ Up /\ Up'
  BY <1>1, <1>2 DEF OthersFsync, Up
<1>. QED  BY <1>1, <1>2, <1>3, WALStays

\* The file has been rewritten from memory, and each fsync under way is of an older one.
LEMMA WALRewritten ==
    ASSUME WAL, Shape, NEW c \in Caller, OthersFsync(c),
           pc'[c] \notin {"fsync", "synced", "failed"}, step # "none", Up,
           UNCHANGED <<pending, base, target, stale>>,
           stored' = pending, cached' = <<>>, torn' = FALSE, hole' = FALSE,
           Survivors' \subseteq Survivors \cup {pending},
           synced' = synced \/ Survivors' \subseteq {pending}
    PROVE  /\ Whole' /\ Fsyncs' /\ File' = pending
           /\ Replay(pending) = [ops |-> pending, ok |-> TRUE]
<1>1. Replay(pending) = [ops |-> pending, ok |-> TRUE] /\ Loads(pending) = pending
  BY ReplayQueue, Flags DEF Loads
<1>2. File' = pending
  BY Flags, ConcatEmptySeq DEF File
<1>3. Whole'
  BY <1>1 DEF WAL, Whole, Ascending, Loads
<1>4. ASSUME NEW d \in Caller
      PROVE  /\ pc'[d] = "fsync" => ~hole' /\ want'[d] <= target'
             /\ pc'[d] \in {"fsync", "failed"} /\ ~stale' => step' = "none" /\ synced' < want'[d]
             /\ pc'[d] = "fsync" /\ ~stale' => FsyncCovers'
             /\ pc'[d] = "synced" => want'[d] <= target' /\ OnDisk(target)'
  <2>1. CASE d = c
    BY <2>1
  <2>2. CASE d # c
    <3>1. pc'[d] = pc[d] /\ want'[d] = want[d]
      BY <2>2 DEF OthersFsync
    <3>2. pc'[d] \in {"fsync", "failed"} => stale'
      BY <3>1 DEF WAL, Fsyncs
    <3>3. pc'[d] = "synced" => want'[d] <= target' /\ OnDisk(target)'
      BY <1>1, <3>1 DEF WAL, Fsyncs, OnDisk
    <3>4. pc'[d] = "fsync" => want'[d] <= target'
      BY <3>1 DEF WAL, Fsyncs
    <3>. QED  BY <3>2, <3>3, <3>4
  <2>. QED  BY <2>1, <2>2
<1>5. OnDisk(synced)'
  BY <1>1 DEF WAL, Fsyncs, OnDisk
<1>6. Fsyncs'
  BY <1>4, <1>5 DEF Fsyncs
<1>. QED  BY <1>1, <1>2, <1>3, <1>6

LEMMA WALCkptFails ==
    ASSUME WAL, Shape, Shape', NEW c \in Caller, NEW k, CkptFails(c, k), pc[c] \in Locking,
           step # "none", UNCHANGED <<want, synced, target, stale>>, SameDisk
    PROVE  WAL'
<1>1. /\ \A d \in Caller : d # c => pc'[d] = pc[d]
      /\ pc'[c] \in {"want", "peek", "idle"} /\ step' = "none" /\ needCkpt'
  BY ReturnsTo DEF CkptFails
<1>2. OthersFsync(c) /\ Up /\ Up'
  BY <1>1, UpWhen DEF OthersFsync, Up, Caller, Locking
<1>. QED  BY <1>1, <1>2, WALStays

LEMMA CheckpointHolds ==
    ASSUME Shape, NEW c \in Caller, pc[c] \in Locking
    PROVE  Up /\ pc[c] \notin {"fsync", "synced", "failed"}
BY UpWhen DEF Locking

LEMMA OneFile ==
    ASSUME Shape, stored' = pending, cached' = <<>>, hole' = FALSE
    PROVE  Survivors' = alt' \cup {pending}
<1>1. (IF hole' THEN {0} ELSE 0..Len(cached')) = {0}
  BY EmptySeq
<1>2. stored' \o SubSeq(cached', 1, 0) = pending
  BY Flags, SubSeqEmpty, ConcatEmptySeq
<1>. QED  BY <1>1, <1>2 DEF Survivors

LEMMA WALWriteCheckpoint ==
    ASSUME WAL, Shape, Shape', NEW c \in Caller, WriteCheckpoint(c)
    PROVE  WAL'
<1>1. /\ pc[c] \in Locking /\ step = "write"
      /\ UNCHANGED <<pending, want, target, stale, base, synced>>
  BY DEF WriteCheckpoint, CkptUnchanged, syncVars
<1>2. CASE /\ stored' = pending /\ cached' = <<>> /\ torn' = FALSE /\ hole' = FALSE
           /\ alt' = Survivors
           /\ step' = "dir" /\ UNCHANGED <<pc, needCkpt, answered>>
  <2>1. Survivors' \subseteq Survivors \cup {pending}
    BY <1>2, OneFile
  <2>2. Whole' /\ Fsyncs'
    BY <1>1, <1>2, <2>1, CheckpointHolds, WALRewritten DEF OthersFsync
  <2>3. InStep'
    BY <1>1, <1>2 DEF InStep
  <2>. QED  BY <2>2, <2>3 DEF WAL
<1>3. CASE CkptFails(c, "checkpoint") /\ UNCHANGED diskVars
  BY <1>1, <1>3, WALCkptFails DEF SameDisk
<1>. QED  BY <1>2, <1>3 DEF WriteCheckpoint

LEMMA WALSyncDir ==
    ASSUME WAL, Shape, Shape', NEW c \in Caller, SyncDir(c)
    PROVE  WAL'
<1>1. /\ pc[c] \in Locking /\ step = "dir"
      /\ UNCHANGED <<pending, want, target, stale, base, stored, cached, torn, hole>>
  BY DEF SyncDir, CkptUnchanged, syncVars
<1>2. stored = pending /\ cached = <<>> /\ ~hole /\ ~torn
  BY <1>1 DEF WAL, InStep
<1>3. CASE /\ alt' = {} /\ step' = "open" /\ UNCHANGED <<pc, needCkpt, answered>>
  <2>2. stored' = pending /\ cached' = <<>> /\ torn' = FALSE /\ hole' = FALSE
    BY <1>1, <1>2, Flags
  <2>1. Survivors' \subseteq {pending}
    BY <1>3, <2>2, OneFile
  <2>3. Whole' /\ Fsyncs'
    BY <1>1, <1>3, <2>1, <2>2, CheckpointHolds, WALRewritten DEF OthersFsync
  <2>4. InStep'
    BY <1>1, <1>3, <2>2 DEF InStep
  <2>. QED  BY <2>3, <2>4 DEF WAL
<1>4. CASE CkptFails(c, "dirsync") /\ UNCHANGED <<alt, writes, synced>>
  BY <1>1, <1>4, WALCkptFails DEF SameDisk, diskVars
<1>. QED  BY <1>3, <1>4 DEF SyncDir

LEMMA WALOpenNew ==
    ASSUME WAL, Shape, Shape', NEW c \in Caller, OpenNew(c)
    PROVE  WAL'
<1>1. /\ pc[c] \in Locking /\ step = "open"
      /\ UNCHANGED <<pending, want, target, stale, base, synced, diskVars>>
  BY DEF OpenNew, CkptUnchanged, syncVars
<1>2. stored = pending /\ cached = <<>> /\ ~hole /\ ~torn
  BY <1>1 DEF WAL, InStep
<1>3. CASE open' = TRUE /\ needCkpt' = FALSE /\ Return(c, pc[c], FALSE)
  <2>1. Survivors' = Survivors /\ UNCHANGED <<stored, cached, torn, hole>>
    BY <1>1 DEF Survivors, diskVars
  <2>2. stored' = pending /\ cached' = <<>> /\ torn' = FALSE /\ hole' = FALSE
    BY <1>2, <2>1, Flags
  <2>3. /\ \A d \in Caller : d # c => pc'[d] = pc[d]
        /\ pc'[c] \in {"want", "peek", "idle"} /\ step' = "none"
    BY <1>1, <1>3, ReturnsTo
  <2>4. /\ Whole' /\ Fsyncs' /\ File' = pending
        /\ Replay(pending) = [ops |-> pending, ok |-> TRUE]
    BY <1>1, <2>1, <2>2, <2>3, CheckpointHolds, WALRewritten DEF OthersFsync
  <2>5. InStep'
    BY <1>1, <2>2, <2>3, <2>4 DEF InStep
  <2>. QED  BY <2>4, <2>5 DEF WAL
<1>4. CASE CkptFails(c, "open")
  BY <1>1, <1>4, WALCkptFails DEF SameDisk
<1>. QED  BY <1>3, <1>4 DEF OpenNew

LEMMA WALFsyncDone == ASSUME WAL, Shape, Shape', NEW c \in Caller, FsyncDone(c) PROVE WAL'
<1>1. /\ pc[c] = "synced" /\ MarkSynced(target) /\ Return(c, "sync", FALSE) /\ SameDisk
      /\ UNCHANGED <<needCkpt, want, target, stale>>
  BY DEF FsyncDone, SameDisk, syncVars
<1>2. /\ Survivors' = Survivors /\ File' = File /\ pending' = pending /\ base' = base
      /\ stored' = stored /\ cached' = cached /\ torn' = torn /\ hole' = hole
  BY <1>1, DiskStays
<1>3. /\ \A d \in Caller : d # c => pc'[d] = pc[d]
      /\ pc'[c] \in {"want", "peek", "idle"} /\ step' = step
  BY <1>1, ReturnsTo DEF Locking
<1>4. \A d \in Caller : d # c => pc[d] \notin {"fsync", "synced", "failed"}
  BY <1>1 DEF Shape, Locks, HoldsSyncMu
<1>5. Up /\ Up'
  BY <1>1, <1>3, UpWhen DEF Up, Caller
<1>6. Whole' /\ InStep'
  BY <1>1, <1>2, <1>3, <1>5 DEF WAL, Whole, InStep, Ascending, Loads
<1>7. OnDisk(synced)'
  <2>1. synced' \in {synced, target}
    BY <1>1, Flags, Marks
  <2>2. OnDisk(target) /\ OnDisk(synced)
    BY <1>1, <1>5 DEF WAL, Fsyncs
  <2>. QED  BY <1>2, <2>1, <2>2 DEF OnDisk
<1>8. \A d \in Caller : pc'[d] \notin {"fsync", "synced", "failed"}
  BY <1>3, <1>4
<1>9. Up' /\ hole' => step' = "write" \/ needCkpt'
  BY <1>1, <1>2, <1>3, <1>4, <1>5 DEF WAL, Fsyncs
<1>10. Fsyncs'
  BY <1>7, <1>8, <1>9 DEF Fsyncs
<1>. QED  BY <1>6, <1>10 DEF WAL

LEMMA WALFsync ==
    ASSUME WAL, Shape, Shape', NEW c \in Caller, FsyncWAL(c)
    PROVE  WAL' /\ Survivors' \subseteq Survivors
<1>1. /\ pc[c] = "fsync"
      /\ UNCHANGED <<pending, open, writes, needCkpt, synced, step, want, target, stale, torn, base>>
  BY DEF FsyncWAL, queueVars, syncVars
<1>2. \A d \in Caller : d # c => pc[d] \notin {"fsync", "synced", "failed"}
  BY <1>1 DEF Shape, Locks, HoldsSyncMu
<1>3. /\ Up /\ ~hole /\ want[c] <= target /\ File \in Survivors
      /\ ~stale => step = "none" /\ synced < want[c] /\ FsyncCovers
  BY <1>1, UpWhen, LastSurvives, Flags DEF WAL, Fsyncs
<1>4. PICK x \in {"synced", "failed"} : pc' = [pc EXCEPT ![c] = x]
  BY DEF FsyncWAL
<1>5. \A d \in Caller : pc'[d] = IF d = c THEN x ELSE pc[d]
  BY <1>4, Flags DEF TypeOK
<1>6. Up'
  BY <1>3, <1>5 DEF Up, Caller
<1>7. CASE ~stale /\ stored' = File /\ cached' = <<>> /\ alt' = {} /\ hole' = hole /\ x = "synced"
  <2>1. File' = File /\ Survivors' = {File}
    <3>1. File \in Seq(Bad..nops)
      BY Flags, FilesTyped
    <3>2. stored' \o <<>> = File /\ SubSeq(<<>>, 1, 0) = <<>>
      BY <1>7, <3>1, ConcatEmptySeq, SubSeqEmpty
    <3>3. File' = File
      BY <1>7, <3>2 DEF File
    <3>4. (IF hole' THEN {0} ELSE 0..Len(cached')) = {0}
      BY <1>7
    <3>. QED  BY <1>7, <3>2, <3>3, <3>4 DEF Survivors
  <2>2. Whole'
    BY <1>1, <1>3, <1>6, <2>1 DEF WAL, Whole, Ascending, Loads
  <2>3. InStep'
    BY <1>1, <1>3, <1>7, <2>1 DEF WAL, InStep
  <2>4. OnDisk(target)' /\ OnDisk(synced)'
    BY <1>1, <1>3, <1>7, <2>1 DEF WAL, Fsyncs, OnDisk, FsyncCovers
  <2>5. ~hole'
    BY <1>3, <1>7
  <2>6. \A d \in Caller : pc'[d] \notin {"fsync", "failed"} /\ (pc'[d] = "synced" => want'[d] <= target')
    BY <1>1, <1>2, <1>3, <1>5, <1>7
  <2>7. Fsyncs'
    BY <2>4, <2>5, <2>6 DEF Fsyncs
  <2>. QED  BY <1>3, <2>1, <2>2, <2>3, <2>7 DEF WAL
<1>8. CASE /\ UNCHANGED <<stored, cached, alt>> /\ hole' \in BOOLEAN /\ (hole' => ~stale)
           /\ x = "failed"
  <2>1. File' = File /\ Survivors' \subseteq Survivors
    <3>1. (IF hole' THEN {0} ELSE 0..Len(cached)) \subseteq (IF hole THEN {0} ELSE 0..Len(cached))
      BY <1>3, Flags
    <3>. QED  BY <1>8, <3>1 DEF File, Survivors
  <2>2. Whole'
    BY <1>1, <1>6, <2>1 DEF WAL, Whole, Ascending, Loads
  <2>3. InStep'
    <3>1. step \in {"dir", "open"} => ~hole'
      BY <1>3, <1>8
    <3>. QED  BY <1>1, <1>3, <1>8, <2>1, <3>1 DEF WAL, InStep
  <2>4. OnDisk(synced)'
    BY <1>1, <1>3, <2>1 DEF WAL, Fsyncs, OnDisk
  <2>5. ASSUME NEW d \in Caller
        PROVE  /\ pc'[d] \notin {"fsync", "synced"}
               /\ pc'[d] = "failed" /\ ~stale' => step' = "none" /\ synced' < want'[d]
    BY <1>1, <1>2, <1>3, <1>5, <1>8
  <2>6. hole' => pc'[c] = "failed" /\ ~stale'
    BY <1>1, <1>5, <1>8
  <2>7. Fsyncs'
    BY <2>4, <2>5, <2>6 DEF Fsyncs
  <2>. QED  BY <2>1, <2>2, <2>3, <2>7 DEF WAL
<1>9. CASE ~stale /\ stored' = File /\ cached' = <<>> /\ alt' = {} /\ pc' = [pc EXCEPT ![c] = "synced"] /\ UNCHANGED hole
  <2>1. x = "synced"
    BY <1>5, <1>9, Flags DEF TypeOK
  <2>. QED  BY <1>7, <1>9, <2>1
<1>10. CASE /\ UNCHANGED <<stored, cached, alt>> /\ hole' \in BOOLEAN /\ (hole' => ~stale)
            /\ pc' = [pc EXCEPT ![c] = "failed"]
  <2>1. x = "failed"
    BY <1>5, <1>10, Flags DEF TypeOK
  <2>. QED  BY <1>8, <1>10, <2>1
<1>. QED  BY <1>3, <1>9, <1>10, Flags DEF FsyncWAL

\* What an append leaves: a checkpoint to do, or the records or the first of them.
LEMMA AppendOutcome ==
    ASSUME WAL, Shape, NEW c, NEW from, NEW recs, Appending(c, from, recs), hole' = hole
    PROVE  /\ step = "none" /\ c \in Caller
           /\ \/ step' = "write" /\ stale' /\ needCkpt' = needCkpt
              \/ step' = "none" /\ stale' = stale
           /\ \/ /\ needCkpt /\ needCkpt' /\ step' = "write"
                 /\ cached' = cached /\ torn' = torn
              \/ /\ ~needCkpt
                 /\ \E n \in 0..Len(recs) :
                       /\ cached' = cached \o SubSeq(recs, 1, n)
                       /\ needCkpt' \/ n = Len(recs)
                 /\ torn' => needCkpt' /\ "shortwrite" \in Faults
<1>1. /\ c \in Caller /\ MuFree /\ Up /\ pc[c] \notin Locking /\ recs \in Seq(Bad..nops')
      /\ AppendLocked(c, from, recs) /\ step = "none"
  BY Flags DEF Appending, Locking
<1>2. Len(recs) \in 0..Len(recs) /\ 0 \in 0..Len(recs) /\ SubSeq(recs, 1, Len(recs)) = recs
      /\ SubSeq(recs, 1, 0) = <<>> /\ cached \o <<>> = cached
      /\ \A n \in 0..(Len(recs) - 1) : n \in 0..Len(recs)
  <2>1. cached \in Seq(Bad..nops)
    BY Flags
  <2>. QED  BY <1>1, <2>1, Prefixes, ConcatEmptySeq
<1>3. ASSUME StartCheckpoint(c, from)
      PROVE  step' = "write" /\ stale' /\ needCkpt' = needCkpt
  BY <1>3 DEF StartCheckpoint
<1>4. ASSUME NEW err, Return(c, from, err)
      PROVE  step' = "none"
  BY <1>1, <1>4 DEF Return
<1>5. torn => needCkpt
  BY DEF WAL, Whole
<1>a. CASE needCkpt /\ StartCheckpoint(c, from) /\ UNCHANGED <<writes, cached, torn>>
  BY <1>1, <1>3, <1>a
<1>b. CASE /\ ~needCkpt
           /\ cached' = cached \o IF torn THEN <<Bad>> \o Tail(recs) ELSE recs
           /\ torn' = FALSE
           /\ IF Reclaimable(writes', pending')
              THEN StartCheckpoint(c, from)
              ELSE open' = TRUE /\ Return(c, from, FALSE) /\ UNCHANGED <<needCkpt, stale>>
  <2>1. cached' = cached \o SubSeq(recs, 1, Len(recs))
    BY <1>2, <1>5, <1>b
  <2>. QED  BY <1>1, <1>2, <1>3, <1>4, <1>b, <2>1
<1>c. CASE /\ ~needCkpt /\ Broken
           /\ \/ UNCHANGED <<open, cached, torn>>
              \/ open' = TRUE /\ UNCHANGED <<cached, torn>>
              \/ /\ Fault("shortwrite") /\ open' = TRUE /\ torn' = TRUE
                 /\ \E n \in 0..(Len(recs) - 1) : cached' = cached \o SubSeq(recs, 1, n)
           /\ Return(c, from, TRUE) /\ UNCHANGED <<writes, stale>>
  <2>1. \E n \in 0..Len(recs) : cached' = cached \o SubSeq(recs, 1, n)
    BY <1>2, <1>c
  <2>2. torn' => "shortwrite" \in Faults
    BY <1>5, <1>c DEF Fault
  <2>. QED  BY <1>1, <1>4, <1>c, <2>1, <2>2 DEF Broken
<1>. QED  BY <1>1, <1>a, <1>b, <1>c DEF AppendLocked

\* An append leaves the files there were, and those with the first of its records.
LEMMA AppendSurvivors ==
    ASSUME TypeOK, NEW T, NEW recs \in Seq(T), NEW n \in 0..Len(recs),
           cached' = cached \o SubSeq(recs, 1, n), UNCHANGED <<stored, hole, alt>>
    PROVE  /\ File' = File \o SubSeq(recs, 1, n)
           /\ \A f \in Survivors' : \/ f \in Survivors
                                    \/ ~hole /\ \E k \in 1..n : f = File \o SubSeq(recs, 1, k)
<1> DEFINE e == SubSeq(recs, 1, n)
           U == T \cup (Bad..nops)
<1>1. /\ e \in Seq(U) /\ cached \in Seq(U) /\ stored \in Seq(U) /\ recs \in Seq(U) /\ Len(e) = n
      /\ alt \subseteq Survivors
  <2>1. e \in Seq(T) /\ Len(e) = n
    BY Prefixes
  <2>2. T \subseteq U /\ Bad..nops \subseteq U
    OBVIOUS
  <2>3. cached \in Seq(Bad..nops) /\ stored \in Seq(Bad..nops)
    BY DEF TypeOK
  <2>. QED  BY <2>1, <2>2, <2>3, SeqMonotonic DEF Survivors
<1>2. \A k \in 0..n : SubSeq(e, 1, k) = SubSeq(recs, 1, k)
  BY PrefixOfPrefix
<1>3. cached' = cached \o e
  OBVIOUS
<1> HIDE DEF e, U
<1>4. \A g \in Seq(U) : stored \o (cached \o g) = File \o g
  <2> TAKE g \in Seq(U)
  <2>0. stored \in Seq(U) /\ cached \in Seq(U)
    BY <1>1
  <2>1. (stored \o cached) \o g = stored \o (cached \o g)
    BY ONLY <2>0, g \in Seq(U), ConcatAssociative
  <2>. QED  BY <2>1 DEF File
<1>5. \A m \in 0..Len(cached) : SubSeq(cached', 1, m) = SubSeq(cached, 1, m)
  BY <1>1, <1>3, PrefixOfConcat
<1>6. \A m \in (Len(cached) + 1)..(Len(cached) + n) :
          SubSeq(cached', 1, m) = cached \o SubSeq(e, 1, m - Len(cached))
  BY <1>1, <1>3, PrefixOfConcat, ZenonT(30)
<1>7. Len(cached') = Len(cached) + n /\ Len(cached) \in Nat
  BY <1>1, <1>3, ConcatProperties
<1>8. ASSUME NEW f \in Survivors'
      PROVE  f \in Survivors \/ (~hole /\ \E k \in 1..n : f = File \o SubSeq(e, 1, k))
  <2>1. CASE f \in alt
    BY <1>1, <2>1
  <2>2. CASE hole /\ f = stored \o SubSeq(cached', 1, 0)
    <3>1. SubSeq(cached', 1, 0) = SubSeq(cached, 1, 0)
      BY <1>5, <1>7
    <3>. QED  BY <2>2, <3>1 DEF Survivors
  <2>3. ASSUME ~hole, NEW m \in 0..Len(cached'), f = stored \o SubSeq(cached', 1, m)
        PROVE  f \in Survivors \/ (~hole /\ \E k \in 1..n : f = File \o SubSeq(e, 1, k))
    <3>1. CASE m \in 0..Len(cached)
      BY <1>5, <2>3, <3>1 DEF Survivors
    <3>2. CASE m \in (Len(cached) + 1)..(Len(cached) + n)
      <4> DEFINE k == m - Len(cached)
      <4>1. k \in 1..n /\ k \in 0..Len(e)
        BY <1>1, <1>7, <3>2
      <4>2. SubSeq(e, 1, k) \in Seq(U)
        BY <1>1, <4>1, Prefixes
      <4>3. f = stored \o (cached \o SubSeq(e, 1, k))
        BY <1>6, <2>3, <3>2
      <4> HIDE DEF k
      <4>. QED  BY <1>4, <2>3, <4>1, <4>2, <4>3
    <3>3. n \in Nat /\ m \in 0..(Len(cached) + n)
      BY <1>7, <2>3
    <3>4. m \in 0..Len(cached) \/ m \in (Len(cached) + 1)..(Len(cached) + n)
      BY <1>7, <3>3
    <3>. QED  BY <3>1, <3>2, <3>4
  <2>. QED  BY <2>1, <2>2, <2>3 DEF Survivors
<1>9. File' = File \o e
  BY <1>1, <1>3, <1>4 DEF File
<1>10. \A k \in 1..n : SubSeq(e, 1, k) = SubSeq(recs, 1, k)
  <2> TAKE k \in 1..n
  <2>1. k \in 0..n
    OBVIOUS
  <2>. QED  BY <1>2, <2>1
<1>11. ASSUME NEW f \in Survivors'
       PROVE  f \in Survivors \/ (~hole /\ \E k \in 1..n : f = File \o SubSeq(recs, 1, k))
  BY <1>8, <1>10
<1>. QED  BY <1>9, <1>11 DEF e

\* The records say what is done to the queue, and each of them keeps what stays queued.
Grows(recs) ==
    Replay(File) = [ops |-> pending, ok |-> TRUE] =>
        /\ \A n \in 1..Len(recs) :
              /\ Replay(File \o SubSeq(recs, 1, n)).ok
              /\ Ascending(Loads(File \o SubSeq(recs, 1, n)))
              /\ \A op \in Range(pending') :
                    op <= nops => op \in Range(Loads(File \o SubSeq(recs, 1, n)))
        /\ Replay(File \o recs) = [ops |-> pending', ok |-> TRUE]

\* A file that an append made possible has what was queued before and still is.
NewFilesKeep ==
    \A f \in Survivors' : f \notin Survivors =>
        \A op \in Range(pending') : op <= nops => op \in Range(Loads(f))

LEMMA WALAppends ==
    ASSUME WAL, Shape, Shape', NEW c, NEW from, NEW recs, Appending(c, from, recs),
           UNCHANGED <<stored, hole, alt, base, synced, target>>, OthersFsync(c),
           Ascending(pending'), \A op \in Range(pending') : op <= nops => op \in Range(pending),
           Grows(recs)
    PROVE  WAL' /\ NewFilesKeep
<1>1. /\ step = "none" /\ c \in Caller /\ stored' = stored /\ hole' = hole /\ base' = base
      /\ synced' = synced /\ target' = target
      /\ \/ step' = "write" /\ stale' /\ needCkpt' = needCkpt
         \/ step' = "none" /\ stale' = stale
  BY AppendOutcome
<1>2. /\ pc'[c] \notin {"fsync", "synced", "failed"} /\ pc[c] \notin {"fsync", "synced", "failed"}
      /\ Up /\ Up' /\ recs \in Seq(Bad..nops') /\ Len(recs) \in Nat
  <2>1. pc'[c] \in {from, "want", "peek", "idle"} /\ Up'
    BY AppendTypes
  <2>. QED  BY <2>1 DEF Appending
<1>3. \A d \in Caller : pc[d] = "failed" => pc'[d] = "failed"
  BY <1>2 DEF OthersFsync
<1>4. Up' /\ hole' => \/ step' = "write" \/ needCkpt'
                      \/ \E d \in Caller : pc'[d] = "failed" /\ ~stale'
  <2> SUFFICES ASSUME hole, step' # "write", ~needCkpt'
      PROVE \E d \in Caller : pc'[d] = "failed" /\ ~stale'
    BY <1>1
  <2>1. ~needCkpt
    BY AppendOutcome, <1>1
  <2>2. PICK d \in Caller : pc[d] = "failed" /\ ~stale
    BY <1>1, <1>2, <2>1 DEF WAL, Fsyncs
  <2>. QED  BY <1>1, <1>3, <2>2
\* The rest follows from what is to be shown of the files.
<1>5. ASSUME \A f \in Survivors' : /\ Replay(f).ok /\ Ascending(Loads(f))
                                   /\ f \notin Survivors =>
                                         \A op \in Range(pending') : op <= nops => op \in Range(Loads(f)),
             FsyncCovers /\ ~stale' => FsyncCovers',
             step' = "none" /\ ~needCkpt' => Replay(File') = [ops |-> pending', ok |-> TRUE],
             torn' => needCkpt' /\ "shortwrite" \in Faults
      PROVE  WAL'
  <2>1. ASSUME NEW n \in 0..nops, OnDisk(n)
        PROVE  \A op \in Range(pending') : op \in (base' + 1)..n =>
                   \A f \in Survivors' : op \in Range(Loads(f))
    <3> TAKE op \in Range(pending')
    <3> HAVE op \in (base' + 1)..n
    <3> TAKE f \in Survivors'
    <3>1. op \in (base + 1)..n /\ op <= nops
      BY <1>1, Flags
    <3>2. op \in Range(pending)
      BY <3>1
    <3>. QED  BY <1>5, <2>1, <3>1, <3>2 DEF OnDisk
  <2>2. /\ OnDisk(target) => OnDisk(target)'
        /\ OnDisk(synced) => OnDisk(synced)'
    <3>1. target \in 0..nops /\ synced \in 0..nops
      BY Flags
    <3>2. /\ OnDisk(target) => \A op \in Range(pending') : op \in (base' + 1)..target =>
                   \A f \in Survivors' : op \in Range(Loads(f))
          /\ OnDisk(synced) => \A op \in Range(pending') : op \in (base' + 1)..synced =>
                   \A f \in Survivors' : op \in Range(Loads(f))
      BY <2>1, <3>1
    <3>. QED  BY <1>1, <3>2 DEF OnDisk
  <2>3. ASSUME NEW d \in Caller
        PROVE  /\ pc'[d] = "fsync" => ~hole' /\ want'[d] <= target'
               /\ pc'[d] \in {"fsync", "failed"} /\ ~stale' => step' = "none" /\ synced' < want'[d]
               /\ pc'[d] = "fsync" /\ ~stale' => FsyncCovers'
               /\ pc'[d] = "synced" => want'[d] <= target' /\ OnDisk(target)'
    <3>1. CASE d = c
      BY <1>2, <3>1
    <3>2. CASE d # c
      <4>1. pc'[d] = pc[d] /\ want'[d] = want[d]
        BY <3>2 DEF OthersFsync
      <4>2. ~stale' => ~stale /\ step' = "none"
        BY <1>1
      <4>. QED  BY <1>1, <1>5, <2>2, <4>1, <4>2 DEF WAL, Fsyncs
    <3>. QED  BY <3>1, <3>2
  <2>4. OnDisk(synced)'
    BY <1>2, <2>2 DEF WAL, Fsyncs
  <2>5. Fsyncs'
    BY <1>4, <2>3, <2>4 DEF Fsyncs
  <2>6. Whole'
    BY <1>2, <1>5 DEF Whole
  <2>7. InStep'
    BY <1>1, <1>2, <1>5 DEF InStep
  <2>. QED  BY <2>5, <2>6, <2>7 DEF WAL
<1>6. \A op \in (base + 1)..target : op <= nops
  BY Flags
<1>a. CASE needCkpt /\ needCkpt' /\ step' = "write" /\ cached' = cached /\ torn' = torn
  <2>1. Survivors' = Survivors /\ stale'
    BY <1>1, <1>a DEF Survivors
  <2>2. torn' => "shortwrite" \in Faults
    BY <1>a DEF WAL, Whole
  <2>3. \A f \in Survivors' : Replay(f).ok /\ Ascending(Loads(f))
    BY <2>1 DEF WAL, Whole
  <2>. QED  BY <1>5, <1>a, <2>1, <2>2, <2>3 DEF NewFilesKeep
<1>b. ASSUME ~needCkpt, torn' => needCkpt' /\ "shortwrite" \in Faults,
             NEW n \in 0..Len(recs), cached' = cached \o SubSeq(recs, 1, n),
             needCkpt' \/ n = Len(recs)
      PROVE  WAL' /\ NewFilesKeep
  <2>1. Replay(File) = [ops |-> pending, ok |-> TRUE] /\ Loads(File) = pending
    BY <1>1, <1>2, <1>b DEF WAL, InStep, Loads
  <2>2. /\ File' = File \o SubSeq(recs, 1, n)
        /\ \A f \in Survivors' : \/ f \in Survivors
                                 \/ ~hole /\ \E k \in 1..n : f = File \o SubSeq(recs, 1, k)
    BY <1>1, <1>2, <1>b, AppendSurvivors, Flags
  <2>3. \A k \in 1..n : /\ Replay(File \o SubSeq(recs, 1, k)).ok
                        /\ Ascending(Loads(File \o SubSeq(recs, 1, k)))
                        /\ \A op \in Range(pending') :
                              op <= nops => op \in Range(Loads(File \o SubSeq(recs, 1, k)))
    <3>1. \A k \in 1..n : k \in 1..Len(recs)
      BY <1>2, <1>b
    <3>. QED  BY <2>1, <3>1 DEF Grows
  <2>4. \A f \in Survivors' : /\ Replay(f).ok /\ Ascending(Loads(f))
                              /\ f \notin Survivors =>
                                    \A op \in Range(pending') : op <= nops => op \in Range(Loads(f))
    BY <2>2, <2>3 DEF WAL, Whole
  <2>5. \A op \in Range(pending') : op <= nops => op \in Range(Loads(File'))
    <3>1. CASE n = 0
      <4>1. File' = File
        BY <2>2, <3>1, Flags, FilesTyped, SubSeqEmpty, ConcatEmptySeq
      <4>. QED  BY <2>1, <4>1
    <3>2. CASE n # 0
      <4>1. n \in 1..n
        BY <1>2, <1>b, <3>2
      <4>. QED  BY <2>2, <2>3, <4>1
    <3>. QED  BY <3>1, <3>2
  <2>6. FsyncCovers'
    BY <1>1, <1>6, <2>5 DEF FsyncCovers
  <2>7. ~needCkpt' => Replay(File') = [ops |-> pending', ok |-> TRUE]
    <3>1. SubSeq(recs, 1, Len(recs)) = recs
      BY <1>2, Prefixes
    <3>. QED  BY <1>b, <2>1, <2>2, <3>1 DEF Grows
  <2>. QED  BY <1>5, <1>b, <2>4, <2>6, <2>7 DEF NewFilesKeep
<1>. QED  BY <1>1, <1>a, <1>b, AppendOutcome

\* A record of a write appends it.
LEMMA ReplayWrite ==
    ASSUME NEW f \in Seq(Lines), NEW p \in Seq(Lines), Replay(f) = [ops |-> p, ok |-> TRUE],
           NEW r \in Nat \ {0}
    PROVE  Replay(f \o <<r>>) = [ops |-> Append(p, r), ok |-> TRUE]
<1>1. r \in Lines /\ r # Ack /\ r # Bad
  BY DEF Lines, Ack, Bad
<1>2. f \o <<r>> = Append(f, r)
  BY <1>1
<1> DEFINE q == [ops |-> p, ok |-> TRUE]
<1>3. Replay(f \o <<r>>) = ReadLine(q, r)
  BY <1>1, <1>2, ReplayAppend
<1>4. q.ok = TRUE /\ q.ops = p
  OBVIOUS
<1>5. ReadLine(q, r) = [q EXCEPT !.ops = Append(q.ops, r)]
  <2> HIDE DEF q
  <2>. QED  BY <1>1, <1>4 DEF ReadLine
<1>6. \A x, t, b : [[ops |-> x, ok |-> b] EXCEPT !.ops = t] = [ops |-> t, ok |-> b]
  OBVIOUS
<1>. QED  BY <1>3, <1>4, <1>5, <1>6

LEMMA AscendingAppend ==
    ASSUME NEW n \in Nat, NEW p \in Seq(1..n), Ascending(p)
    PROVE  /\ Ascending(Append(p, n + 1))
           /\ Range(Append(p, n + 1)) = Range(p) \cup {n + 1} /\ Range(p) \subseteq 1..n
<1> DEFINE e == Append(p, n + 1)
<1>1. /\ Len(e) = Len(p) + 1 /\ Len(p) \in Nat /\ e[Len(p) + 1] = n + 1
      /\ \A i \in 1..Len(p) : e[i] = p[i]
      /\ DOMAIN e = 1..Len(e) /\ DOMAIN p = 1..Len(p)
  OBVIOUS
<1>2. \A i \in 1..Len(p) : p[i] \in 1..n
  BY ElementOfSeq
<1> HIDE DEF e
<1>3. Ascending(e)
  <2> SUFFICES ASSUME NEW i \in 1..Len(e), NEW j \in 1..Len(e), i < j PROVE e[i] < e[j]
    BY DEF Ascending
  <2>1. i \in 1..Len(p) /\ (j \in 1..Len(p) \/ j = Len(p) + 1)
    BY <1>1
  <2>2. e[i] = p[i] /\ e[i] \in 1..n
    BY <1>1, <1>2, <2>1
  <2>3. CASE j \in 1..Len(p)
    BY <1>1, <2>1, <2>3 DEF Ascending
  <2>4. CASE j = Len(p) + 1
    BY <1>1, <2>2, <2>4
  <2>. QED  BY <2>1, <2>3, <2>4
<1>4. Range(p) \subseteq 1..n
  BY <1>1, <1>2 DEF Range
<1>5. Range(e) = Range(p) \cup {n + 1}
  <2>1. \A x \in Range(e) : x \in Range(p) \/ x = n + 1
    BY <1>1, SMTT(30) DEF Range
  <2>2. \A x \in Range(p) : x \in Range(e)
    BY <1>1 DEF Range
  <2>3. n + 1 \in Range(e)
    BY <1>1 DEF Range
  <2>. QED  BY <2>1, <2>2, <2>3
<1>. QED  BY <1>3, <1>4, <1>5 DEF e

\* What follows the first k of a queue.
Rest(p, k) == SubSeq(p, k + 1, Len(p))

LEMMA RestElements ==
    ASSUME NEW T, NEW p \in Seq(T), NEW k \in 0..Len(p)
    PROVE  /\ Rest(p, k) \in Seq(T) /\ Len(Rest(p, k)) = Len(p) - k
           /\ \A i \in 1..(Len(p) - k) : Rest(p, k)[i] = p[k + i]
           /\ \A i \in (k + 1)..Len(p) : p[i] \in Range(Rest(p, k))
           /\ \A x \in Range(Rest(p, k)) : \E i \in (k + 1)..Len(p) : x = p[i]
<1> DEFINE a == k + 1
           n == Len(p)
           e == SubSeq(p, a, n)
<1>1. a \in Int /\ n \in Nat /\ a = k + 1 /\ k \in 0..n /\ \A i \in 1..n : p[i] \in T
  BY ElementOfSeq
<1>2. e = Rest(p, k)
  BY DEF Rest
<1> HIDE DEF a
<1>3. \A i \in a..n : p[i] \in T
  BY <1>1
<1>4. /\ e \in Seq(T) /\ Len(e) = (IF a <= n THEN n - a + 1 ELSE 0)
      /\ \A i \in 1..(n - a + 1) : e[i] = p[a + i - 1]
  <2> HIDE DEF n
  <2>. QED  BY <1>1, <1>3, SubSeqProperties
<1> HIDE DEF e, n
<1>5. Len(e) = n - k /\ DOMAIN e = 1..(n - k)
  BY <1>1, <1>4
<1>6. \A i \in 1..(n - k) : e[i] = p[k + i]
  BY <1>1, <1>4
<1>7. ASSUME NEW i \in (k + 1)..n PROVE p[i] \in Range(e)
  <2>1. i - k \in 1..(n - k) /\ k + (i - k) = i
    BY <1>1
  <2>2. e[i - k] = p[i]
    BY <1>6, <2>1
  <2>. QED  BY <1>5, <2>1, <2>2 DEF Range
<1>8. ASSUME NEW x \in Range(e) PROVE \E i \in (k + 1)..n : x = p[i]
  <2>1. PICK j \in 1..(n - k) : x = e[j]
    BY <1>5 DEF Range
  <2>2. k + j \in (k + 1)..n
    BY <1>1
  <2>. QED  BY <1>6, <2>1, <2>2
<1>. QED  BY <1>2, <1>4, <1>5, <1>6, <1>7, <1>8 DEF n

LEMMA AscendingRest ==
    ASSUME NEW m \in Nat, NEW p \in Seq(1..m), Ascending(p), NEW k \in 0..Len(p)
    PROVE  Ascending(Rest(p, k))
<1>1. /\ Len(Rest(p, k)) = Len(p) - k /\ Len(p) \in Nat
      /\ \A i \in 1..(Len(p) - k) : Rest(p, k)[i] = p[k + i]
  BY RestElements
<1> SUFFICES ASSUME NEW i \in 1..(Len(p) - k), NEW j \in 1..(Len(p) - k), i < j
    PROVE  Rest(p, k)[i] < Rest(p, k)[j]
  BY <1>1 DEF Ascending
<1>2. k + i \in 1..Len(p) /\ k + j \in 1..Len(p) /\ k + i < k + j
  BY <1>1, SMTT(30)
<1>. QED  BY <1>1, <1>2 DEF Ascending

LEMMA RestOfRest ==
    ASSUME NEW T, NEW p \in Seq(T), NEW k \in 0..Len(p), NEW n \in 0..k
    PROVE  /\ Range(Rest(p, k)) \subseteq Range(Rest(p, n))
           /\ Range(Rest(p, k)) \subseteq Range(p)
<1>1. n \in 0..Len(p) /\ \A i \in (k + 1)..Len(p) : i \in (n + 1)..Len(p) /\ i \in 1..Len(p)
  OBVIOUS
<1>2. \A x \in Range(Rest(p, k)) : \E i \in (k + 1)..Len(p) : x = p[i]
  BY RestElements
<1>3. \A i \in (n + 1)..Len(p) : p[i] \in Range(Rest(p, n))
  BY <1>1, RestElements
<1>4. \A i \in 1..Len(p) : p[i] \in Range(p)
  BY DEF Range
<1>. QED  BY <1>1, <1>2, <1>3, <1>4

LEMMA FileLines == ASSUME TypeOK PROVE File \in Seq(Lines) /\ pending \in Seq(Lines)
<1>1. File \in Seq(Bad..nops) /\ pending \in Seq(1..nops)
  BY FilesTyped DEF TypeOK
<1>2. Bad..nops \subseteq Lines /\ 1..nops \subseteq Lines
  BY DEF Lines, Bad
<1>. QED  BY <1>1, <1>2, SeqMonotonic

LEMMA WALEnqueue ==
    ASSUME WAL, Shape, Shape', NEW w \in Writers, Enqueue(w)
    PROVE  WAL' /\ NewFilesKeep
<1>1. /\ nops' = nops + 1 /\ pending' = Append(pending, nops + 1) /\ w \in Caller
      /\ UNCHANGED <<synced, target, stored, hole, alt, base>> /\ nops \in Nat
      /\ Appending(w, "enqueue", <<nops'>>) /\ \A c \in Caller : c # w => want'[c] = want[c]
  BY EnqueueAppends
<1>2. pending \in Seq(1..nops) /\ Ascending(pending)
  BY Flags DEF WAL, Whole
<1>3. /\ Ascending(pending') /\ Range(pending') = Range(pending) \cup {nops + 1}
      /\ Range(pending) \subseteq 1..nops
  BY <1>1, <1>2, AscendingAppend
<1>4. \A op \in Range(pending') : op <= nops => op \in Range(pending)
  BY <1>1, <1>3
<1>5. OthersFsync(w)
  BY <1>1, AppendTypes DEF OthersFsync
<1>6. Grows(<<nops'>>)
  <2> SUFFICES ASSUME Replay(File) = [ops |-> pending, ok |-> TRUE]
      PROVE  /\ \A n \in 1..Len(<<nops'>>) :
                   /\ Replay(File \o SubSeq(<<nops'>>, 1, n)).ok
                   /\ Ascending(Loads(File \o SubSeq(<<nops'>>, 1, n)))
                   /\ \A op \in Range(pending') :
                         op <= nops => op \in Range(Loads(File \o SubSeq(<<nops'>>, 1, n)))
             /\ Replay(File \o <<nops'>>) = [ops |-> pending', ok |-> TRUE]
    BY DEF Grows
  <2>1. File \in Seq(Lines) /\ pending \in Seq(Lines) /\ nops' \in Nat \ {0}
    BY <1>1, FileLines, Flags
  <2>2. Replay(File \o <<nops'>>) = [ops |-> pending', ok |-> TRUE]
    <3>1. Replay(File \o <<nops'>>) = [ops |-> Append(pending, nops'), ok |-> TRUE]
      BY <2>1, ReplayWrite
    <3>. QED  BY <1>1, <3>1
  <2>3. <<nops'>> \in Seq(Nat) /\ Len(<<nops'>>) = 1
    BY <2>1
  <2>4. SubSeq(<<nops'>>, 1, 1) = <<nops'>>
    BY <2>3, SubSeqFull
  <2>5. ASSUME NEW n \in 1..Len(<<nops'>>)
        PROVE  /\ Replay(File \o SubSeq(<<nops'>>, 1, n)).ok
               /\ Loads(File \o SubSeq(<<nops'>>, 1, n)) = pending'
    <3>1. n = 1
      BY <2>3
    <3>2. Replay(File \o SubSeq(<<nops'>>, 1, n)) = [ops |-> pending', ok |-> TRUE]
      BY <2>2, <2>4, <3>1
    <3>. QED  BY <3>2 DEF Loads
  <2>. QED  BY <1>3, <2>2, <2>5
<1>. QED  BY <1>1, <1>3, <1>4, <1>5, <1>6, WALAppends

LEMMA PrefixOfAcks ==
    ASSUME NEW k \in Nat, NEW n \in 0..k
    PROVE  SubSeq(Acks(k), 1, n) = Acks(n)
<1>1. \A j \in Nat : Acks(j) \in Seq({Ack}) /\ Len(Acks(j)) = j
  BY EmptySeq, AppendAck
<1>2. /\ SubSeq(Acks(k), 1, n) \in Seq({Ack}) /\ Len(SubSeq(Acks(k), 1, n)) = n
      /\ \A i \in 1..n : SubSeq(Acks(k), 1, n)[i] = Acks(k)[i]
  BY <1>1, PrefixElements
<1>3. \A i \in 1..n : Acks(k)[i] = Ack /\ Acks(n)[i] = Ack
  BY DEF Acks
<1> DEFINE a == SubSeq(Acks(k), 1, n)
           b == Acks(n)
<1>4. a \in Seq({Ack}) /\ b \in Seq({Ack}) /\ Len(a) = n /\ Len(b) = n /\ \A i \in 1..n : a[i] = b[i]
  BY <1>1, <1>2, <1>3
<1> HIDE DEF a, b
<1>5. a = b
  BY <1>4, SeqEqual
<1>. QED  BY <1>5 DEF a, b

\* After n of the acks of a batch the rest of the queue is loaded.
LEMMA AcksLoad ==
    ASSUME Shape, Replay(File) = [ops |-> pending, ok |-> TRUE], NEW n \in 0..Len(pending)
    PROVE  Replay(File \o Acks(n)) = [ops |-> Rest(pending, n), ok |-> TRUE]
<1>1. File \in Seq(Lines) /\ Loads(File) = pending /\ Replay(File).ok = TRUE
  BY FileLines, Flags DEF Loads
<1>2. Replay(File \o Acks(n)) = [ops |-> SubSeq(Loads(File), n + 1, Len(Loads(File))), ok |-> TRUE]
  BY <1>1, ReplayAcks
<1>. QED  BY <1>1, <1>2 DEF Rest

LEMMA WALAckN == ASSUME WAL, Shape, Shape', AckN PROVE WAL' /\ NewFilesKeep
<1> DEFINE k == Len(batch)
<1>1. /\ pending' = Unacked(pending) /\ pc["run"] = "took" /\ "run" \in Caller
      /\ UNCHANGED <<synced, target, want, stored, hole, alt, base, nops>>
      /\ Appending("run", "ack", Acks(k))
  BY AckNAppends DEF syncVars
<1>2. /\ k \in 0..Len(pending) /\ k \in Nat /\ pending' = Rest(pending, k)
      /\ pending \in Seq(1..nops) /\ nops \in Nat /\ Ascending(pending)
  BY <1>1, Drops, Flags, Batches DEF Rest, WAL, Whole
<1> HIDE DEF k
<1>3. Ascending(pending') /\ Range(pending') \subseteq Range(pending)
  BY <1>2, AscendingRest, RestOfRest
<1>4. OthersFsync("run")
  BY <1>1, AppendTypes DEF OthersFsync
<1>5. Grows(Acks(k))
  <2> SUFFICES ASSUME Replay(File) = [ops |-> pending, ok |-> TRUE]
      PROVE  /\ \A n \in 1..Len(Acks(k)) :
                   /\ Replay(File \o SubSeq(Acks(k), 1, n)).ok
                   /\ Ascending(Loads(File \o SubSeq(Acks(k), 1, n)))
                   /\ \A op \in Range(pending') :
                         op <= nops => op \in Range(Loads(File \o SubSeq(Acks(k), 1, n)))
             /\ Replay(File \o Acks(k)) = [ops |-> pending', ok |-> TRUE]
    BY DEF Grows
  <2>1. Len(Acks(k)) = k
    BY <1>2, EmptySeq, AppendAck
  <2>2. Replay(File \o Acks(k)) = [ops |-> pending', ok |-> TRUE]
    BY <1>2, AcksLoad
  <2>3. ASSUME NEW n \in 1..Len(Acks(k))
        PROVE  /\ Replay(File \o SubSeq(Acks(k), 1, n)).ok
               /\ Ascending(Loads(File \o SubSeq(Acks(k), 1, n)))
               /\ Range(pending') \subseteq Range(Loads(File \o SubSeq(Acks(k), 1, n)))
    <3>1. n \in 0..k /\ n \in 0..Len(pending) /\ SubSeq(Acks(k), 1, n) = Acks(n)
      BY <1>2, <2>1, PrefixOfAcks
    <3>2. Replay(File \o Acks(n)) = [ops |-> Rest(pending, n), ok |-> TRUE]
      BY <3>1, AcksLoad
    <3>3. Ascending(Rest(pending, n)) /\ Range(pending') \subseteq Range(Rest(pending, n))
      BY <1>2, <3>1, AscendingRest, RestOfRest
    <3>4. Replay(File \o SubSeq(Acks(k), 1, n)) = [ops |-> Rest(pending, n), ok |-> TRUE]
      BY <3>1, <3>2
    <3>. QED  BY <3>3, <3>4 DEF Loads
  <2>. QED  BY <2>2, <2>3
<1>6. \A op \in Range(pending') : op <= nops => op \in Range(pending)
  BY <1>3
<1>. QED  BY <1>1, <1>3, <1>4, <1>5, <1>6, WALAppends

\* A crash forgets the queue and leaves a WAL that was one of those it could leave.
LEMMA WALCrash ==
    ASSUME WAL, Shape, Crash, Survivors' \subseteq Survivors, torn' = FALSE
    PROVE  WAL'
<1>1. pending' = <<>> /\ step' = "none" /\ pc' = [c \in Caller |-> IF c = "run" THEN "down" ELSE "idle"]
  BY DEF Crash
<1>2. ~Up' /\ \A c \in Caller : pc'[c] \notin {"fsync", "synced", "failed"}
  BY <1>1 DEF Up, Caller
<1>3. Whole'
  <2>1. Ascending(pending)'
    BY <1>1 DEF Ascending
  <2>. QED  BY <2>1 DEF WAL, Whole
<1>. QED  BY <1>1, <1>2, <1>3 DEF WAL, InStep, Fsyncs

LEMMA WALKill ==
    ASSUME NeverTorn, WAL, Shape, Kill
    PROVE  WAL' /\ Survivors' \subseteq Survivors
<1>1. Crash /\ UNCHANGED diskVars /\ "kill" \in Crashes
  BY DEF Kill
<1>2. Survivors' = Survivors /\ torn' = torn
  BY <1>1 DEF diskVars, Survivors
<1>3. ~torn
  BY <1>1 DEF NeverTorn, WAL, Whole
<1>. QED  BY <1>1, <1>2, <1>3, Flags, WALCrash

LEMMA WALPowerLoss ==
    ASSUME NeverTorn, WAL, Shape, PowerLoss
    PROVE  WAL' /\ Survivors' \subseteq Survivors
<1>1. /\ Crash /\ stored' \in Survivors /\ cached' = <<>> /\ hole' = FALSE /\ alt' = {}
      /\ torn' = FALSE
  BY DEF PowerLoss, NeverTorn
<1>2. Survivors' = {stored'}
  <2>1. stored' \in Seq(Bad..nops)
    BY <1>1, Flags, FilesTyped
  <2>2. stored' \o SubSeq(cached', 1, 0) = stored'
    BY <1>1, <2>1, ConcatEmptySeq, SubSeqEmpty
  <2>3. (IF hole' THEN {0} ELSE 0..Len(cached')) = {0}
    BY <1>1
  <2>. QED  BY <1>1, <2>2, <2>3 DEF Survivors
<1>. QED  BY <1>1, <1>2, WALCrash

LEMMA WALRestart ==
    ASSUME WAL, Shape, Shape', Restart
    PROVE  /\ WAL' /\ Survivors' \subseteq Survivors /\ base' = nops
           /\ \E f \in Survivors : pending' = Loads(f)
           /\ \A c \in Caller : pc'[c] \in {"idle", "load"}
           /\ step' \in {"none", "write"}
<1> DEFINE f == stored \o cached'
<1>1. /\ ~Up /\ cached' = (IF hole THEN <<>> ELSE cached) /\ hole' = FALSE
      /\ pending' = Loads(f)
      /\ pc' \in {[pc EXCEPT !["run"] = "load"], [pc EXCEPT !["run"] = "idle"]}
      /\ step' \in {"write", step}
      /\ synced' = nops /\ base' = nops
      /\ UNCHANGED <<stored, torn, alt, nops>>
  BY DEF Restart, Loads
<1>2. /\ "run" \in Caller /\ pc["run"] = "down" /\ step = "none"
      /\ \A c \in Caller \ {"run"} : pc[c] = "idle"
  <2>1. /\ "run" \in Caller /\ pc["run"] = "down" /\ \A c \in Caller \ {"run"} : pc[c] = "idle"
    BY <1>1 DEF Shape, Locks, Up, Caller
  <2>2. MuFree
    BY <2>1 DEF MuFree, Locking
  <2>. QED  BY <2>1, <2>2, Flags
<1>3. \A c \in Caller : pc'[c] \in {"idle", "load"}
  BY <1>1, <1>2, Flags, ZenonT(30) DEF TypeOK
<1>4. f \in Survivors /\ Survivors' \subseteq Survivors /\ File' = f
  <2>1. cached \in Seq(Bad..nops) /\ stored \in Seq(Bad..nops) /\ hole \in BOOLEAN
    BY Flags
  <2>2. SubSeq(cached, 1, 0) = <<>> /\ SubSeq(<<>>, 1, 0) = <<>> /\ SubSeq(cached, 1, Len(cached)) = cached
        /\ Len(cached) \in 0..Len(cached) /\ Len(<<>>) = 0
    BY <2>1, Prefixes, SubSeqEmpty
  <2>3. File' = f
    BY <1>1 DEF File
  <2>4. CASE hole
    <3>1. f = stored \o SubSeq(cached, 1, 0) /\ 0..Len(cached') = {0}
      <4>1. cached' = <<>>
        BY <1>1, <2>4
      <4>2. 0..Len(cached') = {0}
        BY <2>2, <4>1
      <4>. QED  BY <2>2, <4>1, <4>2
    <3>2. f \in Survivors
      BY <2>4, <3>1 DEF Survivors
    <3>3. \A m \in 0..Len(cached') : stored \o SubSeq(cached', 1, m) = f
      BY <1>1, <2>2, <2>4, <3>1
    <3>. QED  BY <1>1, <2>3, <2>4, <3>2, <3>3 DEF Survivors
  <2>5. CASE ~hole
    <3>1. f = stored \o SubSeq(cached, 1, Len(cached)) /\ cached' = cached
      BY <1>1, <2>2, <2>5
    <3>2. f \in Survivors
      BY <2>2, <2>5, <3>1 DEF Survivors
    <3>. QED  BY <1>1, <2>3, <2>5, <3>1, <3>2 DEF Survivors
  <2>. QED  BY <2>1, <2>4, <2>5
<1>5. f \in Seq(Lines)
  <2>1. Bad..nops \subseteq Lines
    BY DEF Lines, Bad
  <2>2. f \in Seq(Bad..nops)
    <3> HIDE DEF f
    <3>. QED  BY <1>4, Flags, FilesTyped
  <2>. QED  BY <2>1, <2>2, SeqMonotonic
<1> HIDE DEF f
<1>6. Replay(f) = [ops |-> pending', ok |-> TRUE] /\ Ascending(pending')
  <2>1. Replay(f) \in Queue
    BY <1>5, ReplayTypes
  <2>2. Replay(f).ok /\ Ascending(Loads(f))
    BY <1>4 DEF WAL, Whole
  <2>. QED  BY <1>1, <2>1, <2>2 DEF Queue, Loads
<1>7. ~torn'
  BY <1>1 DEF WAL, Whole
<1>8. Whole'
  BY <1>4, <1>6, <1>7 DEF WAL, Whole
<1>9. InStep'
  BY <1>1, <1>2, <1>4, <1>6 DEF InStep
<1>10. Fsyncs'
  <2>1. OnDisk(synced)'
    <3>1. (nops + 1)..nops = {}
      BY Flags
    <3>. QED  BY <1>1, <3>1 DEF OnDisk
  <2>2. \A c \in Caller : pc'[c] \notin {"fsync", "synced", "failed"}
    BY <1>3
  <2>. QED  BY <1>1, <2>1, <2>2 DEF Fsyncs
<1>. QED  BY <1>1, <1>2, <1>3, <1>4, <1>8, <1>9, <1>10 DEF WAL

LEMMA WALStutter == ASSUME WAL, UNCHANGED vars PROVE WAL'
<1>1. UNCHANGED <<pending, needCkpt, synced, pc, step, want, target, stale, stored, cached,
                  torn, hole, alt, base, nops>>
  BY DEF vars, queueVars, syncVars, diskVars
<1>2. Survivors' = Survivors /\ File' = File
  BY <1>1 DEF Survivors, File
<1>. QED  BY <1>1, <1>2 DEF WAL, Whole, InStep, Fsyncs, OnDisk, FsyncCovers, Up, Ascending

LEMMA WALFirst == Init => WAL
<1> SUFFICES ASSUME Init PROVE WAL
  OBVIOUS
<1>1. /\ pending = <<>> /\ stored = <<>> /\ cached = <<>> /\ alt = {} /\ torn = FALSE /\ hole = FALSE
      /\ step = "none" /\ \A c \in Caller : pc[c] = "idle"
  BY DEF Init
<1>2. File = <<>> /\ Survivors = {<<>>}
  <2>1. <<>> \o <<>> = <<>> /\ SubSeq(<<>>, 1, 0) = <<>> /\ Len(<<>>) = 0
    BY ConcatEmptySeq, SubSeqEmpty, EmptySeq
  <2>2. (IF hole THEN {0} ELSE 0..Len(cached)) = {0}
    BY <1>1, <2>1
  <2>3. stored \o SubSeq(cached, 1, 0) = <<>> /\ File = <<>>
    BY <1>1, <2>1 DEF File
  <2>4. Survivors = alt \cup {stored \o SubSeq(cached, 1, n) : n \in {0}}
    BY <2>2 DEF Survivors
  <2>. QED  BY <1>1, <2>3, <2>4
<1>3. Replay(<<>>) = [ops |-> pending, ok |-> TRUE]
  BY <1>1, ReplayEmpty DEF Empty
<1>4. Ascending(<<>>) /\ Range(<<>>) = {}
  BY EmptySeq DEF Ascending, Range
<1>5. Whole
  BY <1>1, <1>2, <1>3, <1>4 DEF Whole, Loads
<1>6. InStep /\ Fsyncs
  BY <1>1, <1>2, <1>3, <1>4 DEF InStep, Fsyncs, OnDisk
<1>. QED  BY <1>5, <1>6 DEF WAL

LEMMA WALNext ==
    ASSUME NeverTorn
    PROVE  Shape /\ WAL /\ [Next]_vars => WAL'
<1> SUFFICES ASSUME Shape, WAL, [Next]_vars PROVE WAL'
  OBVIOUS
<1>1. Shape'
  BY ShapeNext
<1>2. ASSUME Wake PROVE WAL'
  BY <1>1, <1>2, WALRun DEF Wake
<1>3. ASSUME PeekBatch PROVE WAL'
  <2>1. PICK to \in {"idle", "send"} : RunAt("peek", to)
    BY <1>3 DEF PeekBatch
  <2>. QED  BY <1>1, <1>3, <2>1, WALRun DEF PeekBatch
<1>4. ASSUME Deliver PROVE WAL'
  BY <1>1, <1>4, WALRun DEF Deliver
<1>5. ASSUME ReplyLost PROVE WAL'
  BY <1>1, <1>5, WALRun DEF ReplyLost
<1>. QED  BY <1>1, <1>2, <1>3, <1>4, <1>5, WALEnqueue, WALSyncTo, WALFsync, WALFsyncDone,
             WALFsyncFailed, WALWriteCheckpoint, WALSyncDir, WALOpenNew, WALSyncAll, WALAckN,
             WALKill, WALPowerLoss, WALRestart, WALStutter
          DEF Next, Sync, Checkpoint, RunStep

LEMMA WALAlways == ASSUME NeverTorn PROVE Spec => [](Shape /\ WAL)
BY ShapeFirst, ShapeNext, WALFirst, WALNext, PTL DEF Spec

\* As long as no checkpoint is due the WAL spells exactly the queue, whatever failed
\* before (appendLocked, checkpointLocked, loadWAL), unless a start appended to a
\* record that a crash cut off.
THEOREM WALIsTheQueue == ASSUME NeverTorn PROVE Spec => []WALInStep
<1>1. Shape /\ WAL => WALInStep
  <2> SUFFICES ASSUME Shape, WAL, Up, MuFree, ~needCkpt
      PROVE  Replay(File) = [ops |-> pending, ok |-> TRUE]
    BY DEF WALInStep
  <2>1. step = "none"
    BY Flags
  <2>. QED  BY <2>1 DEF WAL, InStep
<1>. QED  BY <1>1, WALAlways, PTL

\* Every write up to w.synced that is still queued is in what a power loss leaves
\* (syncTo, markSynced, checkpointLocked).
THEOREM SyncedSurvives == ASSUME NeverTorn PROVE Spec => []SyncedOnDisk
<1>1. WAL => SyncedOnDisk
  BY DEF WAL, Fsyncs, OnDisk, SyncedOnDisk, Loads
<1>. QED  BY <1>1, WALAlways, PTL

--------------------------------------------------------------------------------
(* Under db.fsync always no write is lost that was answered: a call that returns    *)
(* has waited for an fsync of its write, or for a checkpoint.                      *)

Kept(x) == x \in taken \/ \A f \in Survivors : x \in Range(Loads(f))

\* A write queued since the start, and known to be on disk, is not lost.
LEMMA OnDiskKept ==
    ASSUME Shape, Durable, Up, NEW n \in 0..nops, OnDisk(n), NEW x \in (base + 1)..n
    PROVE  Kept(x) /\ x \in taken \cup Range(pending)
<1>1. base \in 0..nops /\ nops \in Nat
  BY Flags DEF Shape, TypeOK
<1>2. x \in (base + 1)..nops
  BY <1>1
<1>3. x \in taken \cup Range(pending)
  BY <1>2 DEF Durable, Queued
<1>. QED  BY <1>3 DEF OnDisk, Kept

\* Nothing is answered, or a write that is on disk.
Answers(c, n) ==
    \/ answered' = answered
    \/ /\ c \in Writers /\ answered' = answered \cup {want[c]}
       /\ pc[c] \in Held /\ OnDisk(n) /\ want[c] <= n

LEMMA ReturnAnswers ==
    ASSUME Shape, NEW c \in Caller, NEW from, NEW err, Return(c, from, err), want' = want,
           pc[c] \in Held, NEW n, OnDisk(n), want[c] <= n
    PROVE  Answers(c, n)
BY DEF Return, Answers

LEMMA AnswersKept ==
    ASSUME Shape, Durable, NEW c \in Caller, Up, NEW n \in 0..nops, Answers(c, n)
    PROVE  /\ answered' \subseteq taken \cup Range(pending)
           /\ \A f \in Survivors : answered' \subseteq taken \cup Range(Loads(f))
<1>1. CASE answered' = answered
  BY <1>1 DEF Durable, Queued
<1>2. CASE /\ c \in Writers /\ answered' = answered \cup {want[c]}
           /\ pc[c] \in Held /\ OnDisk(n) /\ want[c] <= n
  <2>1. want[c] > base /\ want[c] \in 0..nops /\ base \in 0..nops /\ nops \in Nat
    BY <1>2, Flags DEF Shape, Waiting, Held, TypeOK
  <2>2. want[c] \in (base + 1)..n
    BY <1>2, <2>1
  <2>3. Kept(want[c]) /\ want[c] \in taken \cup Range(pending)
    BY <1>2, <2>2, OnDiskKept
  <2>. QED  BY <1>2, <2>3 DEF Durable, Queued, Kept
<1>. QED  BY <1>1, <1>2 DEF Answers

NoneLost == \A f \in Survivors : answered \subseteq taken \cup Range(Loads(f))

\* A call goes on or returns, and the files are of those there were, or spell the queue.
LEMMA DurableCalls ==
    ASSUME Shape, Durable, NEW c \in Caller, Up, NEW n \in 0..nops, Answers(c, n),
           UNCHANGED <<taken, pending, batch, base, nops>>,
           Survivors' \subseteq Survivors \cup {pending},
           pc'["run"] = "took" => pc["run"] = "took"
    PROVE  Queued' /\ NoneLost'
<1>1. /\ answered' \subseteq taken \cup Range(pending)
      /\ \A f \in Survivors : answered' \subseteq taken \cup Range(Loads(f))
  BY AnswersKept
<1>2. Loads(pending) = pending
  BY ReplayQueue, Flags DEF Loads
<1>3. NoneLost'
  BY <1>1, <1>2 DEF NoneLost
<1>4. Queued'
  BY <1>1 DEF Queued, Durable
<1>. QED  BY <1>3, <1>4

LEMMA WaitsStay ==
    ASSUME Waits, NEW c \in Caller, OthersFsync(c), pc'[c] \notin {"fsync", "failed"},
           UNCHANGED <<synced, nops>>, UNCHANGED <<stale, step>> \/ step' = "write"
    PROVE  Waits'
<1>1. ASSUME NEW d \in Caller, stale', pc'[d] \in {"fsync", "failed"}
      PROVE  synced' >= want'[d] \/ step' \in {"write", "dir"}
  <2>1. d # c /\ pc'[d] = pc[d] /\ want'[d] = want[d]
    BY <1>1 DEF OthersFsync
  <2>. QED  BY <1>1, <2>1 DEF Waits
<1>2. step' = "open" => synced' = nops'
  BY DEF Waits
<1>. QED  BY <1>1, <1>2 DEF Waits

LEMMA DurableSyncTo ==
    ASSUME WAL, Shape, Durable, NEW c \in Caller, SyncTo(c)
    PROVE  Durable'
<1>1. /\ pc[c] = "want" /\ pc[c] \in Held /\ SameDisk /\ Up
      /\ UNCHANGED <<want, synced, nops, taken, pending, batch, base>>
      /\ OnDisk(synced) /\ synced \in 0..nops
  BY UpWhen, Flags DEF SyncTo, SameDisk, Held, WAL, Fsyncs
<1>2. Survivors' \subseteq Survivors \cup {pending}
  BY <1>1, DiskStays
<1>3. CASE synced >= want[c] /\ Return(c, "sync", FALSE) /\ UNCHANGED <<open, needCkpt, target, stale>>
  <2>1. /\ \A d \in Caller : d # c => pc'[d] = pc[d]
        /\ pc'[c] \in {"want", "peek", "idle"} /\ step' = step
    BY <1>1, <1>3, ReturnsTo DEF Locking
  <2>2. want[c] \in Int /\ synced \in Int
    BY Flags
  <2>3. Answers(c, synced)
    BY <1>1, <1>3, <2>2, ReturnAnswers
  <2>4. Queued' /\ NoneLost'
    BY <1>1, <1>2, <2>1, <2>3, DurableCalls DEF Caller
  <2>5. Waits'
    BY <1>1, <1>3, <2>1, WaitsStay DEF OthersFsync, Durable
  <2>. QED  BY <2>4, <2>5 DEF Durable, NoneLost
<1>4. CASE StartCheckpoint(c, "sync")
  <2>1. /\ \A d \in Caller : d # c => pc'[d] = pc[d]
        /\ pc'[c] = "sync" /\ step' = "write" /\ answered' = answered
    BY <1>4, StartsFrom DEF StartCheckpoint
  <2>2. Queued' /\ NoneLost'
    BY <1>1, <1>2, <2>1, DurableCalls DEF Caller, Answers
  <2>3. Waits'
    BY <1>1, <2>1, WaitsStay DEF OthersFsync, Durable
  <2>. QED  BY <2>2, <2>3 DEF Durable, NoneLost
<1>5. CASE /\ pc' = [pc EXCEPT ![c] = "fsync"] /\ stale' = FALSE
           /\ UNCHANGED <<open, needCkpt, step, answered>>
  <2>1. \A d \in Caller : pc'[d] = IF d = c THEN "fsync" ELSE pc[d]
    BY <1>5, Flags DEF TypeOK
  <2>2. Queued' /\ NoneLost'
    BY <1>1, <1>2, <1>5, <2>1, DurableCalls DEF Caller, Answers
  <2>3. Waits'
    BY <1>1, <1>5 DEF Waits, Durable
  <2>. QED  BY <2>2, <2>3 DEF Durable, NoneLost
<1>. QED  BY <1>3, <1>4, <1>5 DEF SyncTo

LEMMA DurableFsync ==
    ASSUME WAL, Shape, Shape', Durable, NEW c \in Caller, FsyncWAL(c)
    PROVE  Durable'
<1>1. /\ pc[c] = "fsync" /\ Up
      /\ UNCHANGED <<want, synced, stale, step, nops, taken, pending, batch, base, answered>>
      /\ Survivors' \subseteq Survivors \cup {pending}
  BY UpWhen, WALFsync DEF FsyncWAL, queueVars, syncVars
<1>2. PICK x \in {"synced", "failed"} : pc' = [pc EXCEPT ![c] = x]
  BY DEF FsyncWAL
<1>3. \A d \in Caller : pc'[d] = IF d = c THEN x ELSE pc[d]
  BY <1>2, Flags DEF TypeOK
<1>4. Queued' /\ NoneLost'
  <2>1. 0 \in 0..nops /\ Answers(c, 0)
    BY <1>1, Flags DEF Answers
  <2>2. "run" \in Caller
    BY DEF Caller
  <2>. QED  BY <1>1, <1>3, <2>1, <2>2, DurableCalls
<1>5. Waits'
  BY <1>1, <1>3 DEF Waits, Durable
<1>. QED  BY <1>4, <1>5 DEF Durable, NoneLost

LEMMA DurableFsyncDone ==
    ASSUME WAL, Shape, Durable, NEW c \in Caller, FsyncDone(c)
    PROVE  Durable'
<1>1. /\ pc[c] = "synced" /\ pc[c] \in Held /\ MarkSynced(target) /\ Return(c, "sync", FALSE)
      /\ SameDisk /\ Up /\ target \in 0..nops
      /\ UNCHANGED <<want, target, stale, nops, taken, pending, batch, base>>
  BY UpWhen, Flags DEF FsyncDone, SameDisk, syncVars, Held
<1>2. /\ \A d \in Caller : d # c => pc'[d] = pc[d]
      /\ pc'[c] \in {"want", "peek", "idle"} /\ step' = step
  BY <1>1, ReturnsTo DEF Locking
<1>3. \A d \in Caller : pc'[d] \notin {"fsync", "failed"}
  BY <1>1, <1>2 DEF Shape, Locks, HoldsSyncMu
<1>4. Answers(c, target)
  <2>1. OnDisk(target) /\ want[c] <= target
    BY <1>1 DEF WAL, Fsyncs
  <2>. QED  BY <1>1, <2>1, ReturnAnswers
<1>5. Survivors' \subseteq Survivors \cup {pending}
  BY <1>1, DiskStays
<1>6. Queued' /\ NoneLost'
  BY <1>1, <1>2, <1>4, <1>5, DurableCalls DEF Caller
<1>7. step' = "open" => synced' = nops'
  <2>1. synced' \in 0..nops /\ synced' >= synced /\ synced \in 0..nops /\ nops \in Nat
    BY <1>1, Flags, Marks
  <2>. QED  BY <1>1, <1>2, <2>1 DEF Durable, Waits
<1>8. Waits'
  BY <1>3, <1>7 DEF Waits
<1>. QED  BY <1>6, <1>8 DEF Durable, NoneLost

LEMMA DurableFsyncFailed ==
    ASSUME WAL, Shape, Durable, NEW c \in Caller, FsyncFailed(c)
    PROVE  Durable'
<1>1. /\ pc[c] = "failed" /\ pc[c] \in Held /\ SameDisk /\ Up /\ step = "none"
      /\ UNCHANGED <<want, synced, nops, taken, pending, batch, base>>
      /\ OnDisk(synced) /\ synced \in 0..nops
  BY UpWhen, Flags DEF FsyncFailed, SameDisk, Held, WAL, Fsyncs, syncVars
<1>2. Survivors' \subseteq Survivors \cup {pending}
  BY <1>1, DiskStays
<1>3. CASE (synced >= want[c] \/ stale) /\ Return(c, "sync", FALSE) /\ UNCHANGED <<open, needCkpt, stale>>
  <2>1. /\ \A d \in Caller : d # c => pc'[d] = pc[d]
        /\ pc'[c] \in {"want", "peek", "idle"} /\ step' = step
    BY <1>1, <1>3, ReturnsTo DEF Locking
  <2>2. want[c] \in Int /\ synced \in Int
    BY Flags
  <2>3. synced >= want[c]
    BY <1>1, <1>3 DEF Durable, Waits
  <2>4. Answers(c, synced)
    BY <1>1, <1>3, <2>2, <2>3, ReturnAnswers
  <2>5. Queued' /\ NoneLost'
    BY <1>1, <1>2, <2>1, <2>4, DurableCalls DEF Caller
  <2>6. Waits'
    BY <1>1, <1>3, <2>1, WaitsStay DEF OthersFsync, Durable
  <2>. QED  BY <2>5, <2>6 DEF Durable, NoneLost
<1>4. CASE StartCheckpoint(c, "sync")
  <2>1. /\ \A d \in Caller : d # c => pc'[d] = pc[d]
        /\ pc'[c] = "sync" /\ step' = "write" /\ answered' = answered
    BY <1>4, StartsFrom DEF StartCheckpoint
  <2>2. Queued' /\ NoneLost'
    BY <1>1, <1>2, <2>1, DurableCalls DEF Caller, Answers
  <2>3. Waits'
    BY <1>1, <2>1, WaitsStay DEF OthersFsync, Durable
  <2>. QED  BY <2>2, <2>3 DEF Durable, NoneLost
<1>. QED  BY <1>3, <1>4 DEF FsyncFailed

LEMMA DurableSyncAll == ASSUME WAL, Shape, Durable, SyncAll PROVE Durable'
<1>1. /\ pc["loop"] = "idle" /\ SameDisk /\ Up /\ "loop" \in Caller /\ "loop" \notin Writers
      /\ UNCHANGED <<synced, nops, taken, pending, batch, base>> /\ 0 \in 0..nops
  BY Flags, QueueConstantsOK DEF SyncAll, SameDisk, Caller
<1>2. Survivors' \subseteq Survivors \cup {pending}
  BY <1>1, DiskStays
<1>3. /\ \A d \in Caller : d # "loop" => pc'[d] = pc[d] /\ want'[d] = want[d]
      /\ pc'["loop"] \in {"tick", "want"} /\ answered' = answered
      /\ step' = "write" \/ UNCHANGED <<stale, step>>
  <2>1. CASE StartCheckpoint("loop", "tick") /\ UNCHANGED want
    BY <1>1, <2>1, StartsFrom DEF StartCheckpoint
  <2>2. CASE /\ want' = [want EXCEPT !["loop"] = nops]
             /\ pc' = [pc EXCEPT !["loop"] = "want"]
             /\ UNCHANGED <<open, needCkpt, step, stale, answered>>
    BY <1>1, <2>2, Flags DEF TypeOK
  <2>. QED  BY <2>1, <2>2 DEF SyncAll
<1>4. Queued' /\ NoneLost'
  <2>1. Answers("loop", 0)
    BY <1>3 DEF Answers
  <2>. QED  BY <1>1, <1>2, <1>3, <2>1, DurableCalls DEF Caller
<1>5. Waits'
  BY <1>1, <1>3, WaitsStay DEF OthersFsync, Durable
<1>. QED  BY <1>4, <1>5 DEF Durable, NoneLost

LEMMA DurableWriteCheckpoint ==
    ASSUME CheckpointsLast, WAL, Shape, Durable, NEW c \in Caller, WriteCheckpoint(c)
    PROVE  Durable'
<1>0. ~CkptFails(c, "checkpoint")
  BY DEF CkptFails, Fault, CheckpointsLast
<1>1. /\ pc[c] \in Locking /\ step' = "dir"
      /\ UNCHANGED <<want, synced, nops, taken, pending, batch, base, pc, answered>>
      /\ stored' = pending /\ cached' = <<>> /\ hole' = FALSE /\ alt' = Survivors
  BY <1>0 DEF WriteCheckpoint, CkptUnchanged, syncVars
<1>5. Up /\ 0 \in 0..nops
  BY <1>1, CheckpointHolds, Flags
<1>2. Survivors' \subseteq Survivors \cup {pending}
  BY <1>1, OneFile
<1>3. Queued' /\ NoneLost'
  BY <1>1, <1>2, <1>5, DurableCalls DEF Answers
<1>4. Waits'
  BY <1>1 DEF Waits
<1>. QED  BY <1>3, <1>4 DEF Durable, NoneLost

LEMMA DurableSyncDir ==
    ASSUME CheckpointsLast, WAL, Shape, Durable, NEW c \in Caller, SyncDir(c)
    PROVE  Durable'
<1>0. ~CkptFails(c, "dirsync")
  BY DEF CkptFails, Fault, CheckpointsLast
<1>1. /\ pc[c] \in Locking /\ step = "dir" /\ step' = "open"
      /\ UNCHANGED <<want, nops, taken, pending, batch, base, pc, answered, stored, cached, hole>>
      /\ alt' = {} /\ MarkSynced(nops)
  BY <1>0 DEF SyncDir, CkptUnchanged, syncVars
<1>7. Up /\ 0 \in 0..nops
  BY <1>1, CheckpointHolds, Flags
<1>2. Survivors' \subseteq Survivors \cup {pending}
  <2>1. stored' = pending /\ cached' = <<>> /\ hole' = FALSE
    BY <1>1, Flags DEF WAL, InStep
  <2>. QED  BY <1>1, <2>1, OneFile
<1>3. Queued' /\ NoneLost'
  BY <1>1, <1>2, <1>7, DurableCalls DEF Answers
<1>4. synced' = nops
  <2>1. nops \in 0..nops /\ nops \in Nat
    BY Flags
  <2>2. synced' \in 0..nops /\ synced' >= nops
    BY <1>1, <2>1, Flags, Marks
  <2>. QED  BY <2>1, <2>2
<1>5. \A d \in Caller : synced' >= want'[d]
  BY <1>1, <1>4, Flags
<1>6. Waits'
  BY <1>1, <1>4, <1>5 DEF Waits
<1>. QED  BY <1>3, <1>6 DEF Durable, NoneLost

LEMMA DurableOpenNew ==
    ASSUME WAL, Shape, Durable, NEW c \in Caller, OpenNew(c)
    PROVE  Durable'
<1>1. /\ pc[c] \in Locking /\ pc[c] \in Held /\ step = "open" /\ Up /\ SameDisk
      /\ UNCHANGED <<want, synced, nops, taken, pending, batch, base, stale>>
      /\ synced = nops /\ synced \in 0..nops /\ OnDisk(synced)
  BY CheckpointHolds, Flags
     DEF OpenNew, CkptUnchanged, syncVars, Held, SameDisk, Durable, Waits, WAL, Fsyncs
<1>2. PICK err \in BOOLEAN : Return(c, pc[c], err)
  BY DEF OpenNew, CkptFails
<1>3. /\ \A d \in Caller : d # c => pc'[d] = pc[d]
      /\ pc'[c] \in {"want", "peek", "idle"} /\ step' = "none"
  BY <1>1, <1>2, ReturnsTo
<1>4. \A d \in Caller : synced' >= want'[d]
  BY <1>1, Flags
<1>5. Answers(c, synced)
  <2>1. want[c] <= synced
    BY <1>1, Flags
  <2>. QED  BY <1>1, <1>2, <2>1, ReturnAnswers
<1>6. Survivors' \subseteq Survivors \cup {pending}
  BY <1>1, DiskStays
<1>7. Queued' /\ NoneLost'
  BY <1>1, <1>3, <1>5, <1>6, DurableCalls DEF Caller
<1>8. Waits'
  BY <1>3, <1>4 DEF Waits
<1>. QED  BY <1>7, <1>8 DEF Durable, NoneLost

\* The peer takes more, and what the worker sent and was acked it took.
LEMMA DurableRun ==
    ASSUME Shape, Durable, NEW from \in {"idle", "peek", "send", "took"},
           NEW to \in {"idle", "peek", "send", "took"},
           RunAt(from, to), RunUnchanged, UNCHANGED <<queueVars, diskVars, answered>>,
           taken \subseteq taken', to = "took" => Range(batch') \subseteq taken'
    PROVE  Durable'
<1>1. /\ pc["run"] = from /\ pc' = [pc EXCEPT !["run"] = to] /\ "run" \in Caller
      /\ UNCHANGED <<step, want, stale, base, nops, synced, pending>> /\ SameDisk
  BY DEF RunAt, RunUnchanged, Caller, queueVars, syncVars, SameDisk
<1>2. \A d \in Caller : pc'[d] = IF d = "run" THEN to ELSE pc[d]
  BY <1>1, Flags DEF TypeOK
<1>3. Survivors' = Survivors /\ (Up' => Up)
  BY <1>1, <1>2, DiskStays DEF Up
<1>4. Queued' /\ NoneLost'
  BY <1>1, <1>2, <1>3 DEF Queued, NoneLost, Durable
<1>5. Waits'
  BY <1>1, <1>2 DEF Waits, Durable
<1>. QED  BY <1>4, <1>5 DEF Durable, NoneLost

LEMMA DurableAppends ==
    ASSUME Always, WAL, Shape, Durable, NEW c, NEW from, NEW recs, Appending(c, from, recs),
           UNCHANGED <<stored, hole, alt, base, synced, taken>>, OthersFsync(c), NewFilesKeep,
           \A x \in Range(pending) : x \in taken \cup Range(pending'),
           \A x \in (base + 1)..nops' : x <= nops \/ x \in Range(pending'),
           pc'["run"] = "took" => pc["run"] = "took" /\ batch' = batch
    PROVE  Durable'
<1>1. answered' = answered
  BY DEF Appending, AppendLocked, StartCheckpoint, Return
<1>2. /\ step = "none" /\ c \in Caller /\ Up /\ answered \subseteq 1..nops /\ nops \in Nat
      /\ (step' = "write" \/ (step' = "none" /\ stale' = stale))
      /\ base \in 0..nops /\ nops' \in Nat
  <2>1. /\ step = "none" /\ c \in Caller
        /\ (step' = "write" \/ (step' = "none" /\ stale' = stale))
    <3>1. hole' = hole
      OBVIOUS
    <3>2. step' = "write" \/ (step' = "none" /\ stale' = stale)
      BY <3>1, AppendOutcome
    <3>3. step = "none" /\ c \in Caller
      BY <3>1, AppendOutcome
    <3>. QED  BY <3>2, <3>3
  <2>2. Up /\ nops' \in Nat
    BY DEF Appending
  <2>3. base \in 0..nops
    BY DEF Shape, TypeOK
  <2>. QED  BY <2>1, <2>2, <2>3, Flags
<1>3. pc'[c] \notin {"fsync", "failed"}
  <2>1. pc'[c] \in {from, "want", "peek", "idle"} /\ from \in {"enqueue", "ack"}
    BY AppendTypes DEF Appending
  <2>. QED  BY <2>1
<1>4. answered \subseteq taken \cup Range(pending')
  BY <1>2 DEF Durable, Queued
<1>5. NoneLost'
  <2> SUFFICES ASSUME NEW f \in Survivors', NEW x \in answered PROVE x \in taken \cup Range(Loads(f))
    BY <1>1 DEF NoneLost
  <2>1. CASE f \in Survivors
    BY <2>1 DEF Durable
  <2>2. CASE f \notin Survivors
    <3>1. x <= nops
      BY <1>2
    <3>. QED  BY <1>4, <2>2, <3>1 DEF NewFilesKeep
  <2>. QED  BY <2>1, <2>2
<1>6. Queued'
  <2>1. \A x \in (base + 1)..nops' : x \in taken \cup Range(pending')
    <3> TAKE x \in (base + 1)..nops'
    <3>1. x <= nops => x \in (base + 1)..nops
      BY <1>2
    <3>. QED  BY <1>2, <3>1 DEF Durable, Queued
  <2>. QED  BY <1>1, <1>4, <2>1 DEF Durable, Queued
<1>7. Waits'
  <2>1. ASSUME NEW d \in Caller, stale', pc'[d] \in {"fsync", "failed"}
        PROVE  synced' >= want'[d] \/ step' \in {"write", "dir"}
    <3>1. d # c /\ pc'[d] = pc[d] /\ want'[d] = want[d]
      BY <1>3, <2>1 DEF OthersFsync
    <3>. QED  BY <1>2, <2>1, <3>1 DEF Durable, Waits
  <2>. QED  BY <1>2, <2>1 DEF Waits
<1>. QED  BY <1>5, <1>6, <1>7 DEF Durable, NoneLost

LEMMA DurableEnqueue ==
    ASSUME Always, WAL, Shape, Shape', Durable, NEW w \in Writers, Enqueue(w)
    PROVE  Durable'
<1>1. /\ nops' = nops + 1 /\ pending' = Append(pending, nops + 1) /\ w \in Caller /\ w # "run"
      /\ UNCHANGED <<synced, stored, hole, alt, base, batch, taken>> /\ nops \in Nat
      /\ Appending(w, "enqueue", <<nops'>>) /\ \A c \in Caller : c # w => want'[c] = want[c]
  BY EnqueueAppends, QueueConstantsOK
<1>2. pending \in Seq(1..nops) /\ Ascending(pending)
  BY Flags DEF WAL, Whole
<1>3. Range(pending') = Range(pending) \cup {nops + 1}
  BY <1>1, <1>2, AscendingAppend
<1>4. base \in 0..nops
  BY DEF Shape, TypeOK
<1>5. \A x \in (base + 1)..nops' : x <= nops \/ x \in Range(pending')
  BY <1>1, <1>3, <1>4
<1>6. \A d \in Caller : d # w => pc'[d] = pc[d]
  BY <1>1, AppendTypes
<1>7. OthersFsync(w) /\ pc'["run"] = pc["run"]
  BY <1>1, <1>6 DEF OthersFsync, Caller
<1>8. NewFilesKeep
  BY WALEnqueue
<1>9. \A x \in Range(pending) : x \in taken \cup Range(pending')
  BY <1>3
<1>. QED  BY <1>1, <1>5, <1>7, <1>8, <1>9, DurableAppends

\* A queue is what is dropped from its front and what is left.
LEMMA FrontAndRest ==
    ASSUME NEW T, NEW p \in Seq(T), NEW k \in 0..Len(p), NEW x \in Range(p)
    PROVE  x \in Range(SubSeq(p, 1, k)) \/ x \in Range(Rest(p, k))
<1>1. PICK i \in 1..Len(p) : x = p[i]
  BY DEF Range
<1>2. /\ SubSeq(p, 1, k) \in Seq(T) /\ Len(SubSeq(p, 1, k)) = k
      /\ \A j \in 1..k : SubSeq(p, 1, k)[j] = p[j]
  BY PrefixElements
<1>3. CASE i <= k
  <2>1. i \in 1..k /\ DOMAIN SubSeq(p, 1, k) = 1..k
    BY <1>2, <1>3
  <2>. QED  BY <1>1, <1>2, <2>1 DEF Range
<1>4. CASE i > k
  <2>1. i \in (k + 1)..Len(p)
    BY <1>4
  <2>. QED  BY <1>1, <2>1, RestElements
<1>. QED  BY <1>3, <1>4

LEMMA DurableAckN ==
    ASSUME Always, WAL, Shape, Shape', Durable, AckN
    PROVE  Durable'
<1> DEFINE k == Len(batch)
<1>1. /\ pending' = Unacked(pending) /\ pc["run"] = "took" /\ "run" \in Caller
      /\ UNCHANGED <<synced, want, stored, hole, alt, base, nops, taken>>
      /\ Appending("run", "ack", Acks(k))
  BY AckNAppends DEF syncVars
<1>2. /\ k \in 0..Len(pending) /\ pending' = Rest(pending, k) /\ batch = SubSeq(pending, 1, k)
      /\ pending \in Seq(1..nops) /\ nops \in Nat
  <2>1. k \in 0..Len(pending) /\ pending' = Rest(pending, k)
    BY <1>1, Drops, Batches DEF Rest
  <2>2. batch = SubSeq(pending, 1, k)
    BY <1>1 DEF Shape, Peeked
  <2>. QED  BY <2>1, <2>2, Flags
<1> HIDE DEF k
<1>3. \A x \in Range(pending) : x \in taken \cup Range(pending')
  <2>1. Range(batch) \subseteq taken
    BY <1>1 DEF Durable, Queued
  <2>. QED  BY <1>2, <2>1, FrontAndRest
<1>4. \A d \in Caller : d # "run" => pc'[d] = pc[d]
  BY <1>1, AppendTypes
<1>5. OthersFsync("run") /\ pc'["run"] # "took"
  <2>1. pc'["run"] \in {"ack", "want", "peek", "idle"}
    BY <1>1, AppendTypes
  <2>. QED  BY <1>1, <1>4, <2>1 DEF OthersFsync
<1>6. NewFilesKeep
  BY WALAckN
<1>7. \A x \in (base + 1)..nops' : x <= nops
  BY <1>1, <1>2 DEF Shape, TypeOK
<1>. QED  BY <1>1, <1>3, <1>5, <1>6, <1>7, DurableAppends

LEMMA DurableCrash ==
    ASSUME Shape, Durable, Crash, Survivors' \subseteq Survivors
    PROVE  Durable'
<1>1. /\ step' = "none" /\ UNCHANGED <<answered, taken>>
      /\ pc' = [c \in Caller |-> IF c = "run" THEN "down" ELSE "idle"]
  BY DEF Crash
<1>2. \A c \in Caller : pc'[c] \in {"down", "idle"}
  BY <1>1
<1>3. pc'["run"] = "down"
  BY <1>1 DEF Caller
<1>4. Queued'
  BY <1>3 DEF Queued, Up
<1>5. Waits'
  BY <1>1, <1>2 DEF Waits
<1>. QED  BY <1>1, <1>4, <1>5 DEF Durable

LEMMA DurableRestart ==
    ASSUME WAL, Shape, Shape', Durable, Restart
    PROVE  Durable'
<1>1. /\ Survivors' \subseteq Survivors /\ base' = nops /\ step' \in {"none", "write"}
      /\ \A c \in Caller : pc'[c] \in {"idle", "load"}
      /\ UNCHANGED <<answered, taken, nops>> /\ nops \in Nat
  BY WALRestart, Flags DEF Restart
<1>2. PICK f \in Survivors : pending' = Loads(f)
  BY WALRestart
<1>3. answered' \subseteq taken' \cup Range(pending')
  BY <1>1, <1>2 DEF Durable
<1>4. Queued'
  <2>1. "run" \in Caller /\ (base' + 1)..nops' = {}
    BY <1>1 DEF Caller
  <2>. QED  BY <1>1, <1>3, <2>1 DEF Queued
<1>5. Waits'
  BY <1>1 DEF Waits
<1>. QED  BY <1>1, <1>4, <1>5 DEF Durable

LEMMA DurableStutter == ASSUME Durable, UNCHANGED vars PROVE Durable'
<1>1. UNCHANGED <<pending, batch, synced, pc, step, want, stale, stored, cached, hole, alt, base,
                  nops, answered, taken>>
  BY DEF vars, queueVars, syncVars, diskVars
<1>2. Survivors' = Survivors
  BY <1>1 DEF Survivors
<1>. QED  BY <1>1, <1>2 DEF Durable, Queued, Waits, Up

LEMMA DurableFirst == Init => Durable
<1> SUFFICES ASSUME Init PROVE Durable
  OBVIOUS
<1>1. /\ answered = {} /\ base = 0 /\ nops = 0 /\ step = "none" /\ "run" \in Caller
      /\ \A c \in Caller : pc[c] = "idle"
  BY DEF Init, Caller
<1>. QED  BY <1>1 DEF Durable, Queued, Waits

LEMMA DurableNext ==
    ASSUME Always, NeverTorn, CheckpointsLast
    PROVE  Shape /\ WAL /\ Durable /\ [Next]_vars => Durable'
<1> SUFFICES ASSUME Shape, WAL, Durable, [Next]_vars PROVE Durable'
  OBVIOUS
<1>1. Shape'
  BY ShapeNext
<1>2. ASSUME Wake PROVE Durable'
  BY <1>2, DurableRun DEF Wake
<1>3. ASSUME PeekBatch PROVE Durable'
  <2>1. PICK to \in {"idle", "send"} : RunAt("peek", to)
    BY <1>3 DEF PeekBatch
  <2>. QED  BY <1>3, <2>1, DurableRun DEF PeekBatch
<1>4. ASSUME Deliver PROVE Durable'
  BY <1>4, DurableRun DEF Deliver
<1>5. ASSUME ReplyLost PROVE Durable'
  BY <1>5, DurableRun DEF ReplyLost
<1>6. ASSUME Kill PROVE Durable'
  BY <1>6, WALKill, DurableCrash DEF Kill
<1>7. ASSUME PowerLoss PROVE Durable'
  BY <1>7, WALPowerLoss, DurableCrash DEF PowerLoss
<1>. QED  BY <1>1, <1>2, <1>3, <1>4, <1>5, <1>6, <1>7, DurableEnqueue, DurableSyncTo,
             DurableFsync, DurableFsyncDone, DurableFsyncFailed, DurableWriteCheckpoint,
             DurableSyncDir, DurableOpenNew, DurableSyncAll, DurableAckN, DurableRestart,
             DurableStutter
          DEF Next, Sync, Checkpoint, RunStep

LEMMA DurableAlways ==
    ASSUME Always, NeverTorn, CheckpointsLast
    PROVE  Spec => [](Shape /\ WAL /\ Durable)
BY ShapeFirst, ShapeNext, WALFirst, WALNext, DurableFirst, DurableNext, PTL DEF Spec

\* Under db.fsync always a write that was answered with nothing logged is, unless the
\* peer has it, in the queue that a start loads from whatever a power loss leaves
\* (enqueue, syncTo, checkpointLocked), if no start appends to a cut-off record and no
\* checkpoint fails.
THEOREM AnswersSurvive ==
    ASSUME NeverTorn, CheckpointsLast
    PROVE  Spec => []AnsweredDurable
<1>1. CASE Always
  <2>1. Shape /\ WAL /\ Durable => AnsweredDurable
    BY DEF Durable, AnsweredDurable, Loads
  <2>. QED  BY <1>1, <2>1, DurableAlways, PTL
<1>2. CASE ~Always
  <2>1. Spec => []AnsweredDurable
    <3>1. AnsweredDurable
      BY <1>2 DEF AnsweredDurable
    <3>. QED  BY <3>1, PTL
  <2>. QED  BY <2>1
<1>. QED  BY <1>1, <1>2

LEMMA TakesAPrefix ==
    ASSUME Shape, WAL, Durable, pc["run"] = "send", NEW n \in 1..Len(batch),
           NEW k \in Range(SubSeq(batch, 1, n)), NEW j \in answered, j < k
    PROVE  j \in taken \cup Range(SubSeq(batch, 1, n))
<1>1. /\ Len(batch) \in 1..Len(pending) /\ batch = SubSeq(pending, 1, Len(batch))
      /\ pending \in Seq(1..nops) /\ batch \in Seq(1..nops) /\ nops \in Nat /\ Len(pending) \in Nat
      /\ answered \subseteq 1..nops
  BY Flags, Batches DEF Shape, Peeked
<1> DEFINE b == SubSeq(batch, 1, n)
<1>2. Len(b) = n /\ b \in Seq(1..nops) /\ \A i \in 1..n : b[i] = pending[i] /\ pending[i] \in 1..nops
  <2>1. /\ Len(b) = n /\ b \in Seq(1..nops) /\ \A i \in 1..n : b[i] = batch[i]
    <3>1. n \in 0..Len(batch)
      OBVIOUS
    <3>. QED  BY <1>1, <3>1, PrefixElements
  <2>2. \A i \in 1..Len(batch) : batch[i] = pending[i]
    <3>1. Len(batch) \in 0..Len(pending)
      BY <1>1
    <3>2. \A i \in 1..Len(batch) : SubSeq(pending, 1, Len(batch))[i] = pending[i]
      BY <1>1, <3>1, PrefixElements
    <3>. QED  BY <1>1, <3>2
  <2>3. \A i \in 1..n : i \in 1..Len(batch) /\ i \in 1..Len(pending)
    BY <1>1
  <2>. QED  BY <1>1, <2>1, <2>2, <2>3, ElementOfSeq
<1>3. DOMAIN b = 1..n
  BY <1>2
<1> HIDE DEF b
<1>4. PICK m \in 1..n : k = pending[m]
  BY <1>2, <1>3 DEF Range, b
<1>5. j \in taken \cup Range(pending)
  BY DEF Durable, Queued, Up
<1>6. ASSUME j \in Range(pending) PROVE j \in Range(b)
  <2>1. PICK i \in 1..Len(pending) : j = pending[i]
    BY <1>1, <1>6 DEF Range
  <2>2. m \in 1..Len(pending) /\ n \in Nat /\ j \in Int /\ k \in Int
    BY <1>1, <1>2, <1>4, SMTT(30)
  <2>3. ~ (m < i)
    <3>1. m < i => pending[m] < pending[i]
      BY <2>1, <2>2 DEF WAL, Whole, Ascending
    <3>. QED  BY <1>4, <2>1, <2>2, <3>1
  <2>4. i \in 1..n
    BY <2>1, <2>2, <2>3
  <2>. QED  BY <1>2, <1>3, <2>1, <2>4 DEF Range
<1>. QED  BY <1>5, <1>6 DEF b

LEMMA NextTakesInOrder ==
    ASSUME Shape, WAL, Durable, [Next]_vars
    PROVE  \A k \in taken' \ taken : \A j \in 1..(k - 1) : j \in answered => j \in taken'
<1>1. ASSUME pc["run"] = "send", NEW n \in 1..Len(batch),
             taken' = taken \cup Range(SubSeq(batch, 1, n))
      PROVE  \A k \in taken' \ taken : \A j \in 1..(k - 1) : j \in answered => j \in taken'
  <2> SUFFICES ASSUME NEW k \in taken' \ taken, NEW j \in 1..(k - 1), j \in answered
      PROVE j \in taken'
    OBVIOUS
  <2>1. k \in Range(SubSeq(batch, 1, n))
    BY <1>1
  <2>2. k \in Int
    <3>1. n \in 0..Len(batch) /\ nops \in Nat
      BY Flags
    <3>. QED  BY <2>1, <3>1, Batches
  <2>3. j < k
    BY <2>2
  <2>. QED  BY <1>1, <2>1, <2>3, TakesAPrefix
<1>2. CASE Deliver
  <2>1. PICK n \in 1..Len(batch) : batch' = SubSeq(batch, 1, n)
    BY <1>2 DEF Deliver
  <2>2. pc["run"] = "send" /\ taken' = taken \cup Range(SubSeq(batch, 1, n))
    BY <1>2, <2>1 DEF Deliver, RunAt
  <2>. QED  BY <1>1, <2>2
<1>3. CASE ReplyLost
  BY <1>1, <1>3 DEF ReplyLost, RunAt
<1>4. CASE ~Deliver /\ ~ReplyLost
  <2>1. taken' = taken
    BY <1>4 DEF Next, vars, Enqueue, Sync, SyncTo, FsyncWAL, FsyncDone, FsyncFailed, Checkpoint,
                WriteCheckpoint, SyncDir, OpenNew, CkptUnchanged, SyncAll, RunStep, Wake,
                PeekBatch, AckN, Kill, PowerLoss, Crash, Restart
  <2>. QED  BY <2>1
<1>. QED  BY <1>2, <1>3, <1>4

\* Under db.fsync always the peer first takes a write only after every write answered
\* before it, also across restarts (PeekBatch, ackN, loadWAL), under the same conditions.
THEOREM TakesInOrder ==
    ASSUME Always, NeverTorn, CheckpointsLast
    PROVE  Spec => TakenInOrder
<1>1. Shape /\ WAL /\ Durable /\ [Next]_vars =>
        [\A k \in taken' \ taken : \A j \in 1..(k - 1) : j \in answered => j \in taken']_vars
  BY NextTakesInOrder
<1>. QED  BY <1>1, DurableAlways, PTL DEF Spec, TakenInOrder
================================================================================

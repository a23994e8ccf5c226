---------------------------- MODULE FileStoreProofs ----------------------------
(* What the store of the Raft log answers for survives, for any logs, keys and     *)
(* values, under either policy, whatever fails or crashes and in whatever order,   *)
(* and no append leaves a gap in the logs a start may load.                        *)
EXTENDS FileStore, Induction

\* The failures the store survives.  A short write that is not cut off, and an fsync
\* whose pages are dropped, it does not (FileStoreShortWrite, FileStoreFsyncLost).
Tolerated == Faults \cap {"shortwrite", "fsynclost"} = {}

--------------------------------------------------------------------------------
(* WALs.                                                                           *)

\* Every record parses, and is written or will be.
Sound(w) == w \in Seq(Record) /\ \A i \in 1..Len(w) : w[i].ok /\ w[i].at # "lost"
AllStored(w) == \A i \in 1..Len(w) : w[i].at = "stored"

\* WALs that load the same, since they differ in where their records are at most.
Same(v, w) == Len(v) = Len(w) /\ \A i \in 1..Len(w) : v[i].ok = w[i].ok /\ v[i].puts = w[i].puts

\* The records that name an item, and the last of them.
At(w, x) == {i \in DOMAIN w : w[i].ok /\ x \in DOMAIN w[i].puts}

LEMMA LoadIs ==
    ASSUME NEW c, NEW w, NEW x \in Item
    PROVE  Load(c, w)[x] = IF At(w, x) = {} THEN c[x] ELSE w[Max(At(w, x))].puts[x]
BY DEF Load, At

LEMMA MaxOfSome ==
    ASSUME NEW S \in SUBSET Int, S # {}, NEW b \in Int, \A n \in S : n <= b
    PROVE  Max(S) \in S /\ \A n \in S : n <= Max(S)
<1>1. PICK m \in S : \A n \in S : n <= m
  BY GreatestElement
<1>2. \E k \in S : \A n \in S : k >= n
  BY <1>1
<1>3. Max(S) \in S /\ \A n \in S : Max(S) >= n
  BY <1>2 DEF Max
<1>. QED  BY <1>3

LEMMA LastAt ==
    ASSUME NEW w \in Seq(Record), NEW x, At(w, x) # {}
    PROVE  /\ Max(At(w, x)) \in At(w, x) /\ Max(At(w, x)) \in 1..Len(w)
           /\ \A i \in At(w, x) : i <= Max(At(w, x))
<1>1. At(w, x) \subseteq 1..Len(w)
  BY DEF At
<1>2. At(w, x) \in SUBSET Int /\ Len(w) \in Int /\ \A i \in At(w, x) : i <= Len(w)
  BY <1>1
<1>3. Max(At(w, x)) \in At(w, x) /\ \A i \in At(w, x) : i <= Max(At(w, x))
  BY <1>2, MaxOfSome
<1>. QED  BY <1>1, <1>3

LEMMA SameLoad ==
    ASSUME NEW c, NEW v \in Seq(Record), NEW w \in Seq(Record), Same(v, w)
    PROVE  Load(c, v) = Load(c, w)
<1>1. ASSUME NEW x \in Item PROVE Load(c, v)[x] = Load(c, w)[x]
  <2>1. DOMAIN v = DOMAIN w
    BY DEF Same
  <2>2. At(v, x) = At(w, x)
    BY <2>1 DEF At, Same
  <2>3. CASE At(w, x) = {}
    BY <2>2, <2>3, LoadIs
  <2>4. CASE At(w, x) # {}
    <3>1. w[Max(At(w, x))].puts = v[Max(At(w, x))].puts
      BY <2>4, LastAt DEF Same
    <3>. QED  BY <2>2, <2>4, <3>1, LoadIs
  <2>. QED  BY <2>3, <2>4
<1>. QED  BY <1>1 DEF Load

\* A record that is appended wins for what it names.
LEMMA LoadAppend ==
    ASSUME NEW c, NEW w \in Seq(Record), NEW r \in Record, r.ok, NEW x \in Item
    PROVE  Load(c, Append(w, r))[x] = IF x \in DOMAIN r.puts THEN r.puts[x] ELSE Load(c, w)[x]
<1> DEFINE v == Append(w, r)
<1>1. /\ v \in Seq(Record) /\ Len(v) = Len(w) + 1 /\ v[Len(w) + 1] = r
      /\ \A i \in 1..Len(w) : v[i] = w[i]
  OBVIOUS
<1>2. Len(w) \in Nat /\ DOMAIN v = 1..(Len(w) + 1) /\ DOMAIN w = 1..Len(w)
  BY <1>1
<1> HIDE DEF v
<1>3. CASE x \in DOMAIN r.puts
  <2>1. Len(w) + 1 \in At(v, x)
    BY <1>1, <1>2, <1>3 DEF At
  <2>2. Max(At(v, x)) = Len(w) + 1
    <3>1. Max(At(v, x)) \in 1..(Len(w) + 1) /\ Len(w) + 1 <= Max(At(v, x))
      BY <1>1, <2>1, LastAt
    <3>. QED  BY <1>2, <3>1
  <2>3. Load(c, v)[x] = v[Max(At(v, x))].puts[x]
    BY <2>1, LoadIs
  <2>. QED  BY <1>1, <1>3, <2>2, <2>3 DEF v
<1>4. CASE x \notin DOMAIN r.puts
  <2>1. At(v, x) = At(w, x)
    <3>1. \A i \in 1..(Len(w) + 1) : i # Len(w) + 1 => i \in 1..Len(w)
      BY <1>2
    <3>2. \A i \in 1..Len(w) : i \in 1..(Len(w) + 1)
      BY <1>2
    <3>. QED  BY <1>1, <1>2, <1>4, <3>1, <3>2 DEF At
  <2>2. CASE At(w, x) = {}
    <3>1. Load(c, v)[x] = c[x] /\ Load(c, w)[x] = c[x]
      BY <2>1, <2>2, LoadIs
    <3>. QED  BY <1>4, <3>1 DEF v
  <2>3. CASE At(w, x) # {}
    <3>1. v[Max(At(w, x))] = w[Max(At(w, x))]
      BY <1>1, <2>3, LastAt
    <3>2. Load(c, v)[x] = w[Max(At(w, x))].puts[x] /\ Load(c, w)[x] = w[Max(At(w, x))].puts[x]
      BY <2>1, <2>3, <3>1, LoadIs
    <3>. QED  BY <1>4, <3>2 DEF v
  <2>. QED  BY <2>2, <2>3
<1>. QED  BY <1>3, <1>4

\* Under another checkpoint a WAL loads the same, or what that checkpoint holds.
LEMMA LoadOver ==
    ASSUME NEW c, NEW m, NEW w, NEW x \in Item
    PROVE  Load(m, w)[x] = m[x] \/ Load(m, w)[x] = Load(c, w)[x]
BY LoadIs

LEMMA LoadEmpty == ASSUME NEW c, NEW x \in Item PROVE Load(c, <<>>)[x] = c[x]
<1>1. At(<<>>, x) = {}
  BY DEF At
<1>. QED  BY <1>1, LoadIs

LEMMA LoadType ==
    ASSUME NEW c \in [Item -> Value], NEW w \in Seq(Record)
    PROVE  Load(c, w) \in [Item -> Value]
<1>1. ASSUME NEW x \in Item PROVE Load(c, w)[x] \in Value
  <2>1. CASE At(w, x) = {}
    BY <2>1, LoadIs
  <2>2. CASE At(w, x) # {}
    <3>1. PICK i \in 1..Len(w) : i = Max(At(w, x)) /\ x \in DOMAIN w[i].puts
      BY <2>2, LastAt DEF At
    <3>2. w[i].puts \in Puts
      <4>1. w[i] \in Record
        OBVIOUS
      <4>. QED  BY <4>1 DEF Record
    <3>3. w[i].puts[x] \in Value
      BY <3>1, <3>2 DEF Puts
    <3>. QED  BY <2>2, <3>1, <3>3, LoadIs
  <2>. QED  BY <2>1, <2>2
<1>. QED  BY <1>1 DEF Load

--------------------------------------------------------------------------------
(* What a power loss leaves of a WAL.                                              *)

LEMMA SurvivorIs ==
    ASSUME NEW w \in Seq(Record), NEW v \in AfterPowerLoss(w)
    PROVE  \E n \in 0..Len(w) :
              /\ v \in Seq(Record) /\ Len(v) = n
              /\ \A i \in 1..n : /\ v[i].puts = w[i].puts /\ v[i].at = "stored"
                                 /\ v[i].ok = (w[i].ok /\ w[i].at # "lost")
              /\ \A i \in (n + 1)..Len(w) : w[i].at # "stored"
<1>1. PICK n \in 0..Len(w) :
        /\ v = [i \in 1..n |-> [w[i] EXCEPT !.ok = @ /\ w[i].at # "lost", !.at = "stored"]]
        /\ \A i \in (n + 1)..Len(w) : w[i].at # "stored"
  BY DEF AfterPowerLoss
<1>2. ASSUME NEW i \in 1..n
      PROVE  /\ v[i] \in Record /\ v[i].puts = w[i].puts /\ v[i].at = "stored"
             /\ v[i].ok = (w[i].ok /\ w[i].at # "lost")
  <2>1. w[i] \in Record
    OBVIOUS
  <2>. QED  BY <1>1, <2>1 DEF Record
<1>3. v \in [1..n -> Record]
  BY <1>1, <1>2
<1>4. v \in Seq(Record) /\ Len(v) = n
  BY <1>3
<1>. QED  BY <1>1, <1>2, <1>4

LEMMA SurvivorSound ==
    ASSUME NEW w, Sound(w), NEW v \in AfterPowerLoss(w)
    PROVE  Sound(v) /\ AllStored(v)
<1>1. PICK n \in 0..Len(w) :
        /\ v \in Seq(Record) /\ Len(v) = n
        /\ \A i \in 1..n : v[i].at = "stored" /\ v[i].ok = (w[i].ok /\ w[i].at # "lost")
  BY SurvivorIs DEF Sound
<1>2. \A i \in 1..n : w[i].ok /\ w[i].at # "lost"
  BY DEF Sound
<1>. QED  BY <1>1, <1>2 DEF Sound, AllStored

\* All of it may be left.
LEMMA WholeSurvives ==
    ASSUME NEW w, Sound(w)
    PROVE  \E v \in AfterPowerLoss(w) : Same(v, w)
<1> DEFINE v == [i \in 1..Len(w) |-> [w[i] EXCEPT !.ok = @ /\ w[i].at # "lost", !.at = "stored"]]
<1>1. v \in AfterPowerLoss(w)
  BY DEF AfterPowerLoss, Sound
<1>2. Same(v, w)
  <2>1. ASSUME NEW i \in 1..Len(w) PROVE v[i].ok = w[i].ok /\ v[i].puts = w[i].puts
    <3>1. w[i] \in Record /\ w[i].ok /\ w[i].at # "lost"
      BY DEF Sound
    <3>. QED  BY <3>1 DEF Record
  <2>2. Len(v) = Len(w)
    BY DEF Sound
  <2>. QED  BY <2>1, <2>2 DEF Same
<1>. QED  BY <1>1, <1>2

\* When all is on disk nothing else is.
LEMMA StoredSurvives ==
    ASSUME NEW w, Sound(w), AllStored(w), NEW v \in AfterPowerLoss(w)
    PROVE  Same(v, w)
<1>1. PICK n \in 0..Len(w) :
        /\ Len(v) = n /\ \A i \in 1..n : v[i].puts = w[i].puts /\ v[i].ok = (w[i].ok /\ w[i].at # "lost")
        /\ \A i \in (n + 1)..Len(w) : w[i].at # "stored"
  BY SurvivorIs DEF Sound
<1>2. n = Len(w)
  BY <1>1 DEF AllStored, Sound
<1>. QED  BY <1>1, <1>2 DEF Same, Sound

LEMMA FsyncStores ==
    ASSUME NEW w, Sound(w)
    PROVE  Sound(Stored(w)) /\ AllStored(Stored(w)) /\ Same(Stored(w), w)
<1>1. ASSUME NEW i \in 1..Len(w)
      PROVE  /\ Stored(w)[i] \in Record /\ Stored(w)[i].ok = w[i].ok
             /\ Stored(w)[i].puts = w[i].puts /\ Stored(w)[i].at = "stored"
  <2>1. w[i] \in Record /\ w[i].at # "lost"
    BY DEF Sound
  <2>. QED  BY <2>1 DEF Stored, Record, Sound
<1>2. Len(w) \in Nat /\ Stored(w) \in [1..Len(w) -> Record]
  <2>1. Len(w) \in Nat /\ DOMAIN w = 1..Len(w)
    BY DEF Sound
  <2>2. Stored(w) = [i \in 1..Len(w) |-> Stored(w)[i]]
    BY <2>1 DEF Stored
  <2>. QED  BY <1>1, <2>1, <2>2
<1>3. Stored(w) \in Seq(Record) /\ Len(Stored(w)) = Len(w)
  BY <1>2
<1>. QED  BY <1>1, <1>3 DEF Sound, AllStored, Same

\* A record that is only in the page cache may or may not be left.
LEMMA AppendSurvives ==
    ASSUME NEW w, Sound(w), NEW r \in Record, r.ok, r.at = "cached",
           NEW v \in AfterPowerLoss(Append(w, r))
    PROVE  Same(v, Append(w, r)) \/ \E u \in AfterPowerLoss(w) : Same(v, u)
<1> DEFINE a == Append(w, r)
<1>1. a \in Seq(Record) /\ Len(a) = Len(w) + 1 /\ a[Len(w) + 1] = r /\ \A i \in 1..Len(w) : a[i] = w[i]
  BY DEF Sound
<1>2. Len(w) \in Nat
  BY DEF Sound
<1> HIDE DEF a
<1>3. PICK n \in 0..Len(a) :
        /\ v \in Seq(Record) /\ Len(v) = n
        /\ \A i \in 1..n : /\ v[i].puts = a[i].puts /\ v[i].at = "stored"
                           /\ v[i].ok = (a[i].ok /\ a[i].at # "lost")
        /\ \A i \in (n + 1)..Len(a) : a[i].at # "stored"
  <2>1. v \in AfterPowerLoss(a)
    BY DEF a
  <2>. QED  BY <1>1, <2>1, SurvivorIs
<1>4. \A i \in 1..Len(a) : a[i].ok /\ a[i].at # "lost"
  <2>1. \A i \in 1..Len(a) : i = Len(w) + 1 \/ i \in 1..Len(w)
    BY <1>1, <1>2
  <2>. QED  BY <1>1, <2>1 DEF Sound
<1>5. CASE n = Len(a)
  <2>1. Same(v, a)
    BY <1>3, <1>4, <1>5 DEF Same
  <2>. QED  BY <2>1 DEF a
<1>6. CASE n # Len(a)
  <2> DEFINE u == [i \in 1..n |-> [w[i] EXCEPT !.ok = @ /\ w[i].at # "lost", !.at = "stored"]]
  <2>1. n \in 0..Len(w)
    BY <1>1, <1>2, <1>6
  <2>2. \A i \in (n + 1)..Len(w) : w[i].at # "stored"
    BY <1>1, <1>2, <1>3, <2>1
  <2>3. u \in AfterPowerLoss(w)
    BY <2>1, <2>2 DEF AfterPowerLoss
  <2> HIDE DEF u
  <2>4. Len(u) = n /\ \A i \in 1..n : u[i].puts = w[i].puts /\ u[i].ok = (w[i].ok /\ w[i].at # "lost")
    <3>1. ASSUME NEW i \in 1..n PROVE u[i].puts = w[i].puts /\ u[i].ok = (w[i].ok /\ w[i].at # "lost")
      <4>1. w[i] \in Record
        BY <1>2, <2>1 DEF Sound
      <4>. QED  BY <4>1 DEF u, Record
    <3>2. Len(u) = n
      BY <1>2, <2>1 DEF u
    <3>. QED  BY <3>1, <3>2
  <2>5. \A i \in 1..n : a[i] = w[i]
    BY <1>1, <1>2, <2>1
  <2>6. Same(v, u)
    BY <1>3, <2>4, <2>5 DEF Same
  <2>. QED  BY <2>3, <2>6
<1>. QED  BY <1>5, <1>6

--------------------------------------------------------------------------------
(* Types.                                                                          *)

LEMMA WALTypes ==
    ASSUME NEW w \in Seq(Record)
    PROVE  /\ Stored(w) \in Seq(Record) /\ Lost(w) \in Seq(Record) /\ CutTail(w) \in Seq(Record)
           /\ AfterPowerLoss(w) \subseteq Seq(Record)
<1>1. Len(w) \in Nat /\ DOMAIN w = 1..Len(w)
  OBVIOUS
<1>2. ASSUME NEW i \in 1..Len(w)
      PROVE  Stored(w)[i] \in Record /\ Lost(w)[i] \in Record
  <2>1. w[i] \in Record
    OBVIOUS
  <2>. QED  BY <1>1, <2>1 DEF Stored, Lost, Record
<1>3. /\ Stored(w) = [i \in 1..Len(w) |-> Stored(w)[i]]
      /\ Lost(w) = [i \in 1..Len(w) |-> Lost(w)[i]]
  BY <1>1 DEF Stored, Lost
<1>4. Stored(w) \in Seq(Record) /\ Lost(w) \in Seq(Record)
  BY <1>1, <1>2, <1>3
<1>5. CutTail(w) \in Seq(Record)
  BY DEF CutTail
<1>6. AfterPowerLoss(w) \subseteq Seq(Record)
  BY SurvivorIs
<1>. QED  BY <1>4, <1>5, <1>6

LEMMA LastIndexType == ASSUME NEW m PROVE LastIndex(m) \in 0..MaxIndex
<1>1. CASE Logs(m) # {}
  <2>1. Logs(m) \in SUBSET Int /\ \A n \in Logs(m) : n <= MaxIndex
    BY StoreConstantsOK DEF Logs, Index
  <2>2. Max(Logs(m)) \in Logs(m)
    BY <1>1, <2>1, StoreConstantsOK, MaxOfSome
  <2>. QED  BY <1>1, <2>2, StoreConstantsOK DEF LastIndex, Logs, Index
<1>. QED  BY <1>1, StoreConstantsOK DEF LastIndex

LEMMA BeginType ==
    ASSUME TypeOK, NEW puts \in Puts, NEW durable \in BOOLEAN, NEW last \in 0..MaxIndex,
           NEW step \in {"append", "checkpoint"}, Begin(puts, durable, last, step),
           walOpen' \in BOOLEAN, step = "checkpoint" => ~walOpen'
    PROVE  TypeOK'
<1>1. DOMAIN puts \subseteq Item /\ \A x \in DOMAIN puts : puts[x] \in Value
  BY DEF Puts
<1>2. mem' \in [Item -> Value] /\ may' \in [Item -> SUBSET Value] /\ sure' \subseteq Item
  BY <1>1 DEF Begin, TypeOK, MemoryTypes, DiskTypes, GhostTypes
<1>3. nops' \in 0..MaxOps
  BY StoreConstantsOK DEF Begin, TypeOK, MemoryTypes, DiskTypes, GhostTypes
<1>4. op' \in [puts : Puts, durable : BOOLEAN, last : 0..MaxIndex]
  BY DEF Begin
<1>. QED  BY <1>2, <1>3, <1>4 DEF Begin, TypeOK, MemoryTypes, DiskTypes, GhostTypes, diskVars

LEMMA PutsAre ==
    ASSUME NEW S \in SUBSET Item, NEW v \in Value
    PROVE  [x \in S |-> v] \in Puts
<1>1. [x \in S |-> v] \in [S -> Value]
  OBVIOUS
<1>. QED  BY <1>1 DEF Puts

\* What Raft asks for is one of Begin's.
LEMMA AskBegins ==
    ASSUME TypeOK, Ask
    PROVE  \E puts \in Puts, durable \in BOOLEAN, last \in 0..MaxIndex, step \in {"append", "checkpoint"} :
              /\ Begin(puts, durable, last, step)
              /\ IF step = "append" THEN walOpen' = walOpen ELSE walOpen' = FALSE
<1>1. CASE StoreLogs
  <2>1. PICK hi \in (raftLast + 1)..MaxIndex, t \in Values :
          /\ Begin([i \in (raftLast + 1)..hi |-> t], FALSE, hi, "append") /\ UNCHANGED walOpen
    BY <1>1 DEF StoreLogs
  <2>2. (raftLast + 1)..hi \subseteq Item /\ hi \in 0..MaxIndex
    BY StoreConstantsOK DEF TypeOK, MemoryTypes, DiskTypes, GhostTypes, Item, Index
  <2>3. [i \in (raftLast + 1)..hi |-> t] \in Puts
    BY <2>2, PutsAre DEF Value
  <2>. QED  BY <2>1, <2>2, <2>3
<1>2. CASE SetKey
  <2>1. PICK k \in Keys, v \in Values :
          Begin([x \in {k} |-> v], TRUE, raftLast, "append") /\ UNCHANGED walOpen
    BY <1>2 DEF SetKey
  <2>2. [x \in {k} |-> v] \in Puts
    <3>1. {k} \subseteq Item /\ v \in Value
      BY DEF Item, Value
    <3>. QED  BY <3>1, PutsAre
  <2>. QED  BY <2>1, <2>2 DEF TypeOK, MemoryTypes, DiskTypes, GhostTypes
<1>3. CASE DeleteRange
  <2>1. PICK lo \in Logs(mem) : \E hi \in lo..raftLast :
          Begin([i \in lo..hi |-> None], TRUE, IF hi = raftLast THEN lo - 1 ELSE raftLast, "checkpoint")
    BY <1>3 DEF DeleteRange, BeginDelete
  <2>2. PICK hi \in lo..raftLast :
          Begin([i \in lo..hi |-> None], TRUE, IF hi = raftLast THEN lo - 1 ELSE raftLast, "checkpoint")
    BY <2>1
  <2>3. lo \in 1..MaxIndex
    BY DEF Logs, Index
  <2>4. lo..hi \subseteq Item /\ (IF hi = raftLast THEN lo - 1 ELSE raftLast) \in 0..MaxIndex
    BY <2>3, StoreConstantsOK DEF TypeOK, MemoryTypes, DiskTypes, GhostTypes, Item, Index
  <2>5. [i \in lo..hi |-> None] \in Puts
    BY <2>4, PutsAre DEF Value
  <2>6. walOpen' = FALSE
    BY <1>3 DEF DeleteRange
  <2>. QED  BY <2>2, <2>4, <2>5, <2>6
<1>. QED  BY <1>1, <1>2, <1>3 DEF Ask

LEMMA IdleType == Idle \in [puts : Puts, durable : BOOLEAN, last : 0..MaxIndex]
<1>1. <<>> \in [{} -> Value]
  OBVIOUS
<1>2. <<>> \in Puts
  BY <1>1 DEF Puts
<1>. QED  BY <1>2, StoreConstantsOK DEF Idle

LEMMA InitType == Init => TypeOK
<1> SUFFICES ASSUME Init PROVE TypeOK
  OBVIOUS
<1>1. Absent \in [Item -> Value] /\ None \in Value /\ <<>> \in Seq(Record) /\ 0 \in 0..MaxIndex
  BY StoreConstantsOK DEF Absent, Value
<1>2. MemoryTypes
  BY <1>1, IdleType, Zenon DEF Init, MemoryTypes
<1>3. DiskTypes
  BY <1>1, Zenon DEF Init, DiskTypes
<1>4. GhostTypes
  BY <1>1, StoreConstantsOK DEF Init, GhostTypes
<1>. QED  BY <1>2, <1>3, <1>4 DEF TypeOK

\* A failure counts, and an operation that returns leaves memory alone.
LEMMA FaultType ==
    ASSUME nfault \in 0..MaxFaults, NEW k, Fault(k) \/ NoFault
    PROVE  nfault' \in 0..MaxFaults
BY StoreConstantsOK DEF Fault, NoFault

LEMMA ReturnTypes ==
    ASSUME MemoryTypes, Succeed \/ Fail, walOpen' \in BOOLEAN, dirty' \in BOOLEAN
    PROVE  MemoryTypes'
<1>1. op.last \in 0..MaxIndex
  BY DEF MemoryTypes
<1>2. mem' = mem /\ pc' = "idle" /\ op' = Idle /\ raftLast' \in 0..MaxIndex
  BY <1>1 DEF MemoryTypes, Succeed, Fail, Return
<1>. QED  BY <1>2, IdleType DEF MemoryTypes

LEMMA SettleTypes ==
    ASSUME TypeOK, NEW S, Settle(S)
    PROVE  may' \in [Item -> SUBSET Value]
BY DEF TypeOK, MemoryTypes, DiskTypes, GhostTypes, Settle

LEMMA StopTypes == ASSUME Stop PROVE MemoryTypes' /\ sure' = {}
<1>1. Absent \in [Item -> Value] /\ 0 \in 0..MaxIndex
  BY StoreConstantsOK DEF Absent, Value
<1>. QED  BY <1>1, IdleType, Zenon DEF Stop, MemoryTypes

LEMMA TypeInvariant == TypeOK /\ [Next]_vars => TypeOK'
<1> SUFFICES ASSUME TypeOK, [Next]_vars
             PROVE  TypeOK'
  OBVIOUS
<1>0. MemoryTypes /\ DiskTypes /\ GhostTypes
  BY DEF TypeOK
<1>1. /\ Stored(wal) \in Seq(Record) /\ Lost(wal) \in Seq(Record) /\ CutTail(wal) \in Seq(Record)
      /\ AfterPowerLoss(wal) \subseteq Seq(Record) /\ Stored(CutTail(wal)) \in Seq(Record)
  BY WALTypes DEF TypeOK, MemoryTypes, DiskTypes, GhostTypes
<1>2. DOMAIN op.puts \subseteq Item
  <2>1. op.puts \in Puts
    BY DEF TypeOK, MemoryTypes, DiskTypes, GhostTypes
  <2>. QED  BY <2>1 DEF Puts
<1>3. CASE Ask
  <2>1. PICK puts \in Puts, durable \in BOOLEAN, last \in 0..MaxIndex, step \in {"append", "checkpoint"} :
          /\ Begin(puts, durable, last, step)
          /\ IF step = "append" THEN walOpen' = walOpen ELSE walOpen' = FALSE
    BY <1>3, AskBegins
  <2>2. walOpen' \in BOOLEAN /\ (step = "checkpoint" => ~walOpen')
    BY <1>0, <2>1 DEF MemoryTypes
  <2>. QED  BY <2>1, <2>2, BeginType
<1>4. CASE OpenWAL
  <2>7. MemoryTypes'
    BY <1>0, <1>4, ReturnTypes DEF MemoryTypes, OpenWAL, memVars
  <2>8. DiskTypes'
    BY <1>0, <1>1, <1>4 DEF DiskTypes, OpenWAL, memVars
  <2>9. GhostTypes'
    BY <1>0, <1>2, <1>4, FaultType, SettleTypes DEF GhostTypes, OpenWAL, memVars, Fail, Return
  <2>. QED  BY <2>7, <2>8, <2>9 DEF TypeOK
<1>5. CASE Write
  <2>1. [puts |-> op.puts, ok |-> ~torn, at |-> "cached"] \in Record
    BY DEF TypeOK, MemoryTypes, DiskTypes, GhostTypes, Record
  <2>2. wal' \in Seq(Record)
    BY <1>0, <1>5, <2>1 DEF DiskTypes, Write
  <2>3. may' \in [Item -> SUBSET Value] /\ sure' \subseteq Item
    BY <1>0, <1>2, <1>5, SettleTypes DEF GhostTypes, Write, Answer, Fail
  <2>7. MemoryTypes'
    BY <1>0, <1>5, ReturnTypes DEF MemoryTypes, Write, memVars
  <2>8. DiskTypes'
    BY <1>0, <1>5, <2>2 DEF DiskTypes, Write, WriteFails
  <2>9. GhostTypes'
    BY <1>0, <1>5, <2>3, FaultType DEF GhostTypes, Write, WriteFails, Fail, Succeed, Return
  <2>. QED  BY <2>7, <2>8, <2>9 DEF TypeOK
<1>6. CASE SyncWAL
  <2>7. MemoryTypes'
    BY <1>0, <1>6, ReturnTypes DEF MemoryTypes, SyncWAL
  <2>8. DiskTypes'
    BY <1>0, <1>1, <1>6 DEF DiskTypes, SyncWAL, FsyncFails
  <2>9. GhostTypes'
    BY <1>0, <1>2, <1>6, FaultType, SettleTypes DEF GhostTypes, SyncWAL, FsyncFails, Fail, Succeed, Return
  <2>. QED  BY <2>7, <2>8, <2>9 DEF TypeOK
<1>7. CASE WriteCheckpoint
  <2>7. MemoryTypes'
    BY <1>0, <1>7, ReturnTypes DEF MemoryTypes, WriteCheckpoint, memVars
  <2>8. DiskTypes'
    BY <1>0, <1>1, <1>7 DEF DiskTypes, WriteCheckpoint, memVars, MemoryTypes
  <2>9. GhostTypes'
    BY <1>0, <1>2, <1>7, FaultType, SettleTypes DEF GhostTypes, WriteCheckpoint, memVars, Fail, Return
  <2>. QED  BY <2>7, <2>8, <2>9 DEF TypeOK
<1>8. CASE SyncCheckpointDir
  <2>7. MemoryTypes'
    BY <1>0, <1>8, ReturnTypes DEF MemoryTypes, SyncCheckpointDir, memVars
  <2>8. DiskTypes'
    BY <1>0, <1>1, <1>8 DEF DiskTypes, SyncCheckpointDir, memVars
  <2>9. GhostTypes'
    BY <1>0, <1>2, <1>8, FaultType, SettleTypes DEF GhostTypes, SyncCheckpointDir, memVars, Fail, Return
  <2>. QED  BY <2>7, <2>8, <2>9 DEF TypeOK
<1>9. CASE TruncateWAL
  <2>7. MemoryTypes'
    BY <1>0, <1>9, ReturnTypes DEF MemoryTypes, TruncateWAL, memVars
  <2>8. DiskTypes'
    <3>1. <<>> \in Seq(Record)
      OBVIOUS
    <3>. QED  BY <1>0, <1>1, <1>9, <3>1 DEF DiskTypes, TruncateWAL
  <2>9. GhostTypes'
    BY <1>0, <1>2, <1>9, FaultType, SettleTypes DEF GhostTypes, TruncateWAL, memVars, Fail, Return
  <2>. QED  BY <2>7, <2>8, <2>9 DEF TypeOK
<1>10. CASE SyncWALDir
  <2>7. MemoryTypes'
    BY <1>0, <1>10, ReturnTypes DEF MemoryTypes, SyncWALDir
  <2>8. DiskTypes'
    BY <1>0, <1>1, <1>10 DEF DiskTypes, SyncWALDir
  <2>9. GhostTypes'
    BY <1>0, <1>2, <1>10, FaultType, SettleTypes DEF GhostTypes, SyncWALDir, Fail, Succeed, Return
  <2>. QED  BY <2>7, <2>8, <2>9 DEF TypeOK
<1>11. CASE SyncIfDirty
  <2>7. MemoryTypes'
    BY <1>0, <1>11, ReturnTypes DEF MemoryTypes, SyncIfDirty, memVars
  <2>8. DiskTypes'
    BY <1>0, <1>1, <1>11 DEF DiskTypes, SyncIfDirty, memVars, FsyncFails
  <2>9. GhostTypes'
    BY <1>0, <1>2, <1>11, FaultType, SettleTypes DEF GhostTypes, SyncIfDirty, memVars, FsyncFails
  <2>. QED  BY <2>7, <2>8, <2>9 DEF TypeOK
<1>12. CASE Close
  <2>7. MemoryTypes' /\ sure' = {}
    BY <1>12, StopTypes DEF Close
  <2>8. DiskTypes'
    BY <1>0, <1>1, <1>12 DEF DiskTypes, Close, FsyncFails
  <2>9. GhostTypes'
    BY <1>0, <1>12, <2>7, FaultType, SettleTypes DEF GhostTypes, Close, FsyncFails
  <2>. QED  BY <2>7, <2>8, <2>9 DEF TypeOK
<1>13. CASE Kill
  <2>7. MemoryTypes' /\ sure' = {}
    BY <1>13, StopTypes DEF Kill
  <2>8. DiskTypes'
    BY <1>0, <1>13 DEF DiskTypes, Kill
  <2>9. GhostTypes'
    BY <1>0, <1>13, <2>7, StoreConstantsOK DEF GhostTypes, Kill
  <2>. QED  BY <2>7, <2>8, <2>9 DEF TypeOK
<1>14. CASE PowerLoss
  <2>7. MemoryTypes' /\ sure' = {}
    BY <1>14, StopTypes DEF PowerLoss
  <2>8. DiskTypes'
    <3>1. chk' \in [Item -> Value] /\ wal' \in Seq(Record)
      BY <1>0, <1>1, <1>14 DEF DiskTypes, PowerLoss, Images
    <3>. QED  BY <1>14, <3>1 DEF DiskTypes, PowerLoss
  <2>9. GhostTypes'
    BY <1>0, <1>14, <2>7, StoreConstantsOK DEF GhostTypes, PowerLoss
  <2>. QED  BY <2>7, <2>8, <2>9 DEF TypeOK
<1>15. CASE Restart
  <2>1. chk' = chk /\ chkAlt' = chkAlt /\ walAlt' = walAlt /\ wal' \in Seq(Record)
    BY <1>1, <1>15 DEF TypeOK, MemoryTypes, DiskTypes, GhostTypes, Restart
  <2>2. mem' \in [Item -> Value]
    BY <1>15, LoadType DEF TypeOK, MemoryTypes, DiskTypes, GhostTypes, Restart
  <2>3. raftLast' \in 0..MaxIndex
    BY <1>15, LastIndexType DEF Restart
  <2>4. \A img \in Images' : img[1] \in [Item -> Value] /\ img[2] \in Seq(Record)
    BY <2>1, WALTypes DEF TypeOK, MemoryTypes, DiskTypes, GhostTypes, Images
  <2>5. \A img \in Images' : Load(img[1], img[2]) \in [Item -> Value]
    BY <2>4, LoadType
  <2>6. may' \in [Item -> SUBSET Value]
    <3>1. may' = [x \in Item |-> {Load(img[1], img[2])[x] : img \in Images'} \cup {mem'[x]}]
      BY <1>15 DEF Restart
    <3>2. \A x \in Item : {Load(img[1], img[2])[x] : img \in Images'} \cup {mem'[x]} \in SUBSET Value
      BY <2>2, <2>5
    <3>. QED  BY <3>1, <3>2
  <2>7. MemoryTypes'
    BY <1>0, <1>15, <2>2, <2>3 DEF MemoryTypes, Restart
  <2>8. DiskTypes'
    BY <1>0, <1>15, <2>1 DEF DiskTypes, Restart
  <2>9. GhostTypes'
    BY <1>0, <1>15, <2>6 DEF GhostTypes, Restart
  <2>. QED  BY <2>7, <2>8, <2>9 DEF TypeOK
<1>16. CASE UNCHANGED vars
  BY <1>16 DEF TypeOK, MemoryTypes, DiskTypes, GhostTypes, vars, memVars, diskVars
<1>. QED
  BY <1>3, <1>4, <1>5, <1>6, <1>7, <1>8, <1>9, <1>10, <1>11, <1>12, <1>13, <1>14, <1>15, <1>16
     DEF Next, AppendStep, Compact

\* Every reachable state of the store is well typed, with no WAL open while a checkpoint
\* is written, whatever fails (appendWALLocked, compactLocked, load).
THEOREM TypeCorrect == Spec => []TypeOK
BY InitType, TypeInvariant, PTL DEF Spec

--------------------------------------------------------------------------------
(* The inductive invariant.  SurvivesCrash is about what the files may turn into   *)
(* and does not say why the next fsync may promise more: that needs what the files *)
(* are, and how memory compares with them.                                         *)
Checkpoints == {chk} \cup chkAlt
WALs == AfterPowerLoss(wal) \cup walAlt

\* A WAL is only open when no older file can come back, and checkpointed memory stays
\* as it is until the compaction is over.
Files ==
    /\ Sound(wal) /\ \A w \in walAlt : Sound(w) /\ AllStored(w)
    /\ torn => ~Alive
    /\ walOpen => chkAlt = {} /\ walAlt = {}
    /\ pc \in {"checkpointdir", "truncate", "waldir"} => chk = mem
    /\ pc \in {"truncate", "waldir"} => chkAlt = {}
    /\ pc = "waldir" => wal = <<>>

\* What was answered without an error is what the files load as they are, whether they
\* are fsynced or not; memory holds what may have been put.
Answered ==
    /\ ~Alive => mem = Absent /\ sure = {} /\ ~walOpen /\ ~dirty
    /\ Alive => \A x \in Item : mem[x] \in may[x]
    /\ pc \notin {"idle", "dead"} => \A x \in DOMAIN op.puts : op.puts[x] = mem[x]
    /\ \A x \in sure : Load(chk, wal)[x] = mem[x]
    /\ pc = "sync" => \A x \in DOMAIN op.puts : Load(chk, wal)[x] = mem[x]

Kept == \A c \in Checkpoints, w \in WALs, x \in Item : Load(c, w)[x] \in may[x]

\* Unless the store is dirty, no crash takes back what this process answered.
Steady == ~dirty => \A c \in Checkpoints, w \in WALs, x \in sure : Load(c, w)[x] = mem[x]

Parts == Files /\ Answered /\ Kept /\ Steady
IInv == TypeOK /\ Parts

LEMMA ImageSound == Parts => \A w \in WALs : Sound(w) /\ AllStored(w)
BY SurvivorSound DEF Parts, Files, WALs

\* An empty WAL loads the checkpoint.
LEMMA EmptyImages ==
    Sound(<<>>) /\ \A w \in AfterPowerLoss(<<>>) : Sound(w) /\ \A c : \A x \in Item : Load(c, w)[x] = c[x]
<1>1. Sound(<<>>) /\ <<>> \in Seq(Record)
  BY DEF Sound
<1>2. ASSUME NEW w \in AfterPowerLoss(<<>>) PROVE w = <<>>
  <2>1. w \in Seq(Record) /\ Len(w) = 0
    <3>1. AllStored(<<>>)
      BY DEF AllStored
    <3>2. Same(w, <<>>) /\ Sound(w)
      BY <1>1, <3>1, StoredSurvives, SurvivorSound
    <3>. QED  BY <3>2 DEF Same, Sound
  <2>. QED  BY <2>1
<1>. QED  BY <1>1, <1>2, LoadEmpty

\* What the files load as they are is what a power loss may leave.
LEMMA FilesLoad == Parts => \A x \in Item : Load(chk, wal)[x] \in may[x]
<1> SUFFICES ASSUME Parts PROVE \A x \in Item : Load(chk, wal)[x] \in may[x]
  OBVIOUS
<1>1. Sound(wal)
  BY DEF Parts, Files
<1>2. PICK v \in AfterPowerLoss(wal) : Same(v, wal)
  BY <1>1, WholeSurvives
<1>3. Load(chk, v) = Load(chk, wal)
  BY <1>1, <1>2, SameLoad, SurvivorSound DEF Sound
<1>. QED  BY <1>2, <1>3 DEF Parts, Kept, Checkpoints, WALs

\* An operation that fails, and changes nothing but what it is at.
LEMMA FailStep == ASSUME IInv, Alive, Fail, UNCHANGED <<diskVars, walOpen, dirty>> PROVE Parts'
<1>1. UNCHANGED <<chk, wal, torn, chkAlt, walAlt, walOpen, dirty, mem, may, sure>> /\ pc' = "idle" /\ Alive'
  BY DEF Fail, Return, diskVars, Alive
<1>2. ~torn
  BY DEF IInv, Parts, Files
<1>3. Files'
  BY <1>1, <1>2 DEF IInv, Parts, Files
<1>4. Answered'
  BY <1>1 DEF IInv, Parts, Answered
<1>5. Kept' /\ Steady'
  BY <1>1 DEF IInv, Parts, Kept, Steady, Checkpoints, WALs
<1>. QED  BY <1>3, <1>4, <1>5 DEF Parts

\* Raft asks for something: memory is ahead of the files, and what is put may be read.
LEMMA AskStep == ASSUME IInv, TypeOK', Ask PROVE Parts'
<1>1. PICK puts \in Puts, durable \in BOOLEAN, last \in 0..MaxIndex, step \in {"append", "checkpoint"} :
        /\ Begin(puts, durable, last, step)
        /\ IF step = "append" THEN walOpen' = walOpen ELSE walOpen' = FALSE
  BY AskBegins DEF IInv
<1>2. /\ UNCHANGED <<chk, wal, torn, chkAlt, walAlt, dirty>> /\ Alive /\ Alive' /\ pc' \in {"append", "checkpoint"}
      /\ walOpen' => walOpen
      /\ mem' = [x \in Item |-> IF x \in DOMAIN puts THEN puts[x] ELSE mem[x]]
      /\ may' = [x \in Item |-> IF x \in DOMAIN puts THEN may[x] \cup {puts[x]} ELSE may[x]]
      /\ sure' = sure \ DOMAIN puts /\ op'.puts = puts
  BY <1>1 DEF Begin, diskVars, Alive
<1>3. DOMAIN puts \subseteq Item /\ sure \subseteq Item
  BY DEF Puts, IInv, TypeOK, GhostTypes
<1>4. Files'
  BY <1>2 DEF IInv, Parts, Files
<1>5. Answered'
  <2>1. \A x \in Item : mem'[x] \in may'[x]
    BY <1>2 DEF IInv, Parts, Answered
  <2>2. \A x \in DOMAIN puts : puts[x] = mem'[x]
    BY <1>2, <1>3
  <2>3. \A x \in sure' : Load(chk, wal)[x] = mem'[x]
    BY <1>2, <1>3 DEF IInv, Parts, Answered
  <2>. QED  BY <1>2, <2>1, <2>2, <2>3 DEF Answered
<1>6. Kept'
  <2>1. \A x \in Item : may[x] \subseteq may'[x]
    BY <1>2
  <2>. QED  BY <1>2, <2>1 DEF IInv, Parts, Kept, Checkpoints, WALs
<1>7. Steady'
  <2>1. \A x \in sure' : x \in sure /\ mem'[x] = mem[x]
    BY <1>2, <1>3
  <2>. QED  BY <1>2, <2>1 DEF IInv, Parts, Steady, Checkpoints, WALs
<1>. QED  BY <1>4, <1>5, <1>6, <1>7 DEF Parts

\* Opening fsyncs the directory: what was replaced is gone.
LEMMA OpenStep == ASSUME IInv, OpenWAL PROVE Parts'
<1>1. Alive
  BY DEF OpenWAL, Alive
<1>2. CASE Fail /\ UNCHANGED <<walOpen, chkAlt, walAlt>>
  BY <1>1, <1>2, FailStep DEF OpenWAL, diskVars
<1>3. CASE chkAlt' = {} /\ walAlt' = {} /\ UNCHANGED <<memVars, pc, op, may, sure, nops, ncrash>>
  <2>1. /\ UNCHANGED <<chk, wal, torn, dirty, mem, pc, op, may, sure>> /\ chkAlt' = {} /\ walAlt' = {}
        /\ pc = "append" /\ Alive'
    BY <1>1, <1>3 DEF OpenWAL, memVars, Alive
  <2>2. Files'
    BY <2>1 DEF IInv, Parts, Files, Alive
  <2>3. Answered'
    BY <2>1 DEF IInv, Parts, Answered, Alive
  <2>4. Checkpoints' \subseteq Checkpoints /\ WALs' \subseteq WALs
    BY <2>1 DEF Checkpoints, WALs
  <2>5. Kept' /\ Steady'
    BY <2>1, <2>4 DEF IInv, Parts, Kept, Steady
  <2>. QED  BY <2>2, <2>3, <2>5 DEF Parts
<1>. QED  BY <1>2, <1>3 DEF OpenWAL

\* A record is written.  The only new image has it, and loads what it puts.
LEMMA AppendedImages ==
    ASSUME Sound(wal), NEW r \in Record, r.ok, r.at = "cached",
           wal' = Append(wal, r), chk' = chk, chkAlt' = {}, walAlt' = {}
    PROVE  /\ Sound(wal')
           /\ \A x \in Item : Load(chk, wal')[x] = IF x \in DOMAIN r.puts THEN r.puts[x] ELSE Load(chk, wal)[x]
           /\ \A w \in WALs' : \/ Load(chk, w) = Load(chk, wal')
                              \/ \E u \in AfterPowerLoss(wal) : Load(chk, w) = Load(chk, u)
<1>1. Sound(wal')
  <2>1. wal' \in Seq(Record) /\ Len(wal') = Len(wal) + 1 /\ wal'[Len(wal) + 1] = r
        /\ \A i \in 1..Len(wal) : wal'[i] = wal[i]
    BY DEF Sound
  <2>2. \A i \in 1..Len(wal') : i = Len(wal) + 1 \/ i \in 1..Len(wal)
    BY <2>1 DEF Sound
  <2>. QED  BY <2>1, <2>2 DEF Sound
<1>2. ASSUME NEW x \in Item
      PROVE  Load(chk, wal')[x] = IF x \in DOMAIN r.puts THEN r.puts[x] ELSE Load(chk, wal)[x]
  <2>1. Load(chk, Append(wal, r))[x] = IF x \in DOMAIN r.puts THEN r.puts[x] ELSE Load(chk, wal)[x]
    BY LoadAppend, ZenonT(30) DEF Sound
  <2>. QED  BY <2>1
<1>3. ASSUME NEW w \in AfterPowerLoss(wal')
      PROVE  Load(chk, w) = Load(chk, wal') \/ \E u \in AfterPowerLoss(wal) : Load(chk, w) = Load(chk, u)
  <2>1. Same(w, wal') \/ \E u \in AfterPowerLoss(wal) : Same(w, u)
    BY AppendSurvives
  <2>2. Sound(w) /\ \A u \in AfterPowerLoss(wal) : Sound(u)
    BY <1>1, SurvivorSound
  <2>. QED  BY <1>1, <2>1, <2>2, SameLoad DEF Sound
<1>. QED  BY <1>1, <1>2, <1>3 DEF WALs

\* The only new image of a write has what memory has.
LEMMA WriteStep == ASSUME IInv, Tolerated, Write PROVE Parts'
<1> DEFINE r == [puts |-> op.puts, ok |-> ~torn, at |-> "cached"]
<1>0. Alive /\ ~torn /\ pc = "append" /\ walOpen /\ chkAlt = {} /\ walAlt = {} /\ Sound(wal)
  BY DEF Write, Alive, IInv, Parts, Files
<1>1. CASE WriteFails /\ Fail /\ UNCHANGED <<wal, dirty>>
  <2>1. UNCHANGED <<diskVars, walOpen, dirty>>
    <3>1. PICK k \in {"write", "shortwrite"} : k \in Faults /\ torn' = (torn \/ k = "shortwrite")
      BY <1>1 DEF WriteFails, Fault
    <3>2. k # "shortwrite"
      BY <3>1 DEF Tolerated
    <3>3. torn' = torn
      BY <1>0, <3>1, <3>2 DEF IInv, TypeOK, DiskTypes
    <3>. QED  BY <1>1, <3>3 DEF Write, diskVars
  <2>. QED  BY <1>0, <1>1, <2>1, FailStep
<1>2. CASE ~ (WriteFails /\ Fail /\ UNCHANGED <<wal, dirty>>)
  <2>1. /\ wal' = Append(wal, r) /\ ~torn' /\ UNCHANGED <<chk, chkAlt, walAlt, walOpen, mem>>
        /\ \/ pc' = "sync" /\ MustSync /\ UNCHANGED <<op, dirty, may, sure>>
           \/ pc' = "idle" /\ ~MustSync /\ dirty' = TRUE /\ sure' = sure \cup DOMAIN op.puts /\ UNCHANGED may
    BY <1>2 DEF Write, memVars, Succeed, Return, Answer, Owed, MustSync
  <2>2. r \in Record /\ r.ok /\ r.at = "cached" /\ r.puts = op.puts
    BY <1>0 DEF IInv, TypeOK, MemoryTypes, Record
  <2>3. op.puts \in Puts /\ DOMAIN op.puts \subseteq Item /\ sure \subseteq Item
    BY DEF IInv, TypeOK, MemoryTypes, GhostTypes, Puts
  <2> HIDE DEF r
  <2>4. /\ Sound(wal')
        /\ \A x \in Item : Load(chk, wal')[x] = IF x \in DOMAIN r.puts THEN r.puts[x] ELSE Load(chk, wal)[x]
        /\ \A w \in WALs' : \/ Load(chk, w) = Load(chk, wal')
                           \/ \E u \in AfterPowerLoss(wal) : Load(chk, w) = Load(chk, u)
    BY <1>0, <2>1, <2>2, AppendedImages
  <2>5. \A x \in Item : Load(chk, wal')[x] = IF x \in DOMAIN op.puts THEN mem[x] ELSE Load(chk, wal)[x]
    BY <1>0, <2>2, <2>4 DEF IInv, Parts, Answered
  <2>6. \A w \in WALs' : Load(chk, w) = Load(chk, wal') \/ \E u \in WALs : Load(chk, w) = Load(chk, u)
    BY <2>4 DEF WALs
  <2>7. Files'
    BY <1>0, <2>1, <2>4 DEF IInv, Parts, Files, Alive
  <2>8. Answered'
    <3>1. \A x \in sure \cup DOMAIN op.puts : Load(chk, wal')[x] = mem[x]
      BY <2>3, <2>5 DEF IInv, Parts, Answered
    <3>2. \A x \in DOMAIN op.puts : op.puts[x] = mem[x]
      BY <1>0 DEF IInv, Parts, Answered
    <3>3. \A x \in Item : mem[x] \in may[x]
      BY <1>0 DEF IInv, Parts, Answered
    <3>4. CASE pc' = "sync"
      BY <2>1, <3>1, <3>2, <3>3, <3>4 DEF Answered, Alive
    <3>5. CASE pc' = "idle"
      BY <2>1, <3>1, <3>2, <3>3, <3>5 DEF Answered, Alive
    <3>. QED  BY <2>1, <3>4, <3>5
  <2>9. Kept'
    <3>1. \A x \in Item : Load(chk, wal')[x] \in may[x]
      <4>1. \A x \in Item : Load(chk, wal)[x] \in may[x]
        BY FilesLoad DEF IInv
      <4>. QED  BY <1>0, <2>5, <4>1 DEF IInv, Parts, Answered
    <3>2. \A w \in WALs, x \in Item : Load(chk, w)[x] \in may[x]
      BY DEF IInv, Parts, Kept, Checkpoints
    <3>3. \A w \in WALs', x \in Item : Load(chk, w)[x] \in may[x]
      BY <2>6, <3>1, <3>2
    <3>. QED  BY <1>0, <2>1, <3>3 DEF Kept, Checkpoints
  <2>10. Steady'
    <3> SUFFICES ASSUME ~dirty' PROVE Steady'
      BY DEF Steady
    <3>1. ~dirty /\ UNCHANGED sure
      BY <2>1
    <3>2. \A x \in sure : Load(chk, wal')[x] = mem[x]
      BY <2>3, <2>5 DEF IInv, Parts, Answered
    <3>3. \A w \in WALs, x \in sure : Load(chk, w)[x] = mem[x]
      BY <3>1 DEF IInv, Parts, Steady, Checkpoints
    <3>4. \A w \in WALs', x \in sure : Load(chk, w)[x] = mem[x]
      BY <2>6, <3>2, <3>3
    <3>. QED  BY <1>0, <2>1, <3>1, <3>4 DEF Steady, Checkpoints
  <2>. QED  BY <2>7, <2>8, <2>9, <2>10 DEF Parts
<1>. QED  BY <1>1, <1>2

\* All of an open WAL is fsynced: there is one image left, which loads what the files do.
LEMMA FsyncedImages ==
    ASSUME Sound(wal), wal' = Stored(wal), chk' = chk, chkAlt' = {}, walAlt' = {}
    PROVE  /\ Sound(wal') /\ Load(chk', wal') = Load(chk, wal)
           /\ \A c \in Checkpoints', w \in WALs' : Load(c, w) = Load(chk, wal)
<1>1. Sound(wal') /\ AllStored(wal') /\ Same(wal', wal)
  BY FsyncStores
<1>2. Load(chk, wal') = Load(chk, wal)
  BY <1>1, SameLoad DEF Sound
<1>3. ASSUME NEW w \in AfterPowerLoss(wal') PROVE Load(chk, w) = Load(chk, wal)
  <2>1. Same(w, wal') /\ Sound(w)
    BY <1>1, StoredSurvives, SurvivorSound
  <2>2. Load(chk, w) = Load(chk, wal')
    BY <1>1, <2>1, SameLoad DEF Sound
  <2>. QED  BY <1>2, <2>2
<1>. QED  BY <1>1, <1>2, <1>3 DEF Checkpoints, WALs

\* Under Tolerated a failed fsync leaves the pages to be written later.
LEMMA FsyncFailsKeeps == ASSUME Tolerated, FsyncFails PROVE wal' = wal
<1>1. PICK k \in {"fsync", "fsynclost"} : k \in Faults /\ wal' = IF k = "fsynclost" THEN Lost(wal) ELSE wal
  BY DEF FsyncFails, Fault
<1>2. k # "fsynclost"
  BY <1>1 DEF Tolerated
<1>. QED  BY <1>1, <1>2

\* The record, and whatever was pending with it, is fsynced and answered for.
LEMMA SyncStep == ASSUME IInv, Tolerated, SyncWAL PROVE Parts'
<1>0. /\ Alive /\ ~torn /\ pc = "sync" /\ walOpen /\ chkAlt = {} /\ walAlt = {} /\ Sound(wal)
      /\ UNCHANGED <<walOpen, chk, torn, chkAlt, walAlt>>
  BY DEF SyncWAL, Alive, IInv, TypeOK, MemoryTypes, Parts, Files
<1>1. CASE FsyncFails /\ Fail /\ UNCHANGED dirty
  BY <1>0, <1>1, FsyncFailsKeeps, FailStep DEF diskVars
<1>2. CASE ~ (FsyncFails /\ Fail /\ UNCHANGED dirty)
  <2>1. /\ wal' = Stored(wal) /\ sure' = sure \cup DOMAIN op.puts /\ pc' = "idle" /\ UNCHANGED mem
        /\ may' = [x \in Item |-> IF x \in sure' THEN {mem[x]} ELSE may[x]]
    BY <1>2 DEF SyncWAL, Succeed, Return, Settle
  <2>2. /\ Sound(wal') /\ Load(chk', wal') = Load(chk, wal)
        /\ \A c \in Checkpoints', w \in WALs' : Load(c, w) = Load(chk, wal)
    BY <1>0, <2>1, FsyncedImages
  <2>3. sure' \subseteq Item
    <3>1. op.puts \in Puts /\ sure \subseteq Item
      BY DEF IInv, TypeOK, MemoryTypes, GhostTypes
    <3>. QED  BY <2>1, <3>1 DEF Puts
  <2>4. \A x \in sure' : Load(chk, wal)[x] = mem[x]
    BY <1>0, <2>1 DEF IInv, Parts, Answered
  <2>5. Files'
    BY <1>0, <2>1, <2>2 DEF Files
  <2>6. Answered'
    <3>1. \A x \in Item : mem[x] \in may'[x]
      BY <1>0, <2>1 DEF IInv, Parts, Answered
    <3>. QED  BY <2>1, <2>2, <2>4, <3>1 DEF Answered, Alive
  <2>7. Kept'
    <3>1. \A x \in Item : Load(chk, wal)[x] \in may[x]
      BY <1>0, FilesLoad DEF IInv
    <3>2. \A x \in Item : Load(chk, wal)[x] \in may'[x]
      BY <2>1, <2>4, <3>1
    <3>. QED  BY <2>2, <3>2 DEF Kept
  <2>8. Steady'
    BY <2>1, <2>2, <2>4 DEF Steady
  <2>. QED  BY <2>5, <2>6, <2>7, <2>8 DEF Parts
<1>. QED  BY <1>1, <1>2

\* So does the background loop fsync what was answered.
LEMMA TickStep == ASSUME IInv, Tolerated, SyncIfDirty PROVE Parts'
<1>0. /\ Alive /\ ~torn /\ pc = "idle" /\ walOpen /\ chkAlt = {} /\ walAlt = {} /\ Sound(wal)
      /\ UNCHANGED <<walOpen, chk, torn, chkAlt, walAlt, mem, sure, pc, op>>
  BY DEF SyncIfDirty, memVars, Alive, IInv, Parts, Files
<1>1. CASE FsyncFails /\ UNCHANGED <<dirty, may>>
  <2>1. wal' = wal
    BY <1>1, FsyncFailsKeeps
  <2>2. Files' /\ Answered'
    BY <1>0, <1>1, <2>1 DEF IInv, Parts, Files, Answered, Alive
  <2>3. Kept' /\ Steady'
    BY <1>0, <1>1, <2>1 DEF IInv, Parts, Kept, Steady, Checkpoints, WALs
  <2>. QED  BY <2>2, <2>3 DEF Parts
<1>2. CASE wal' = Stored(wal) /\ Settle(sure)
  <2>1. /\ Sound(wal') /\ Load(chk', wal') = Load(chk, wal)
        /\ \A c \in Checkpoints', w \in WALs' : Load(c, w) = Load(chk, wal)
    BY <1>0, <1>2, FsyncedImages
  <2>2. may' = [x \in Item |-> IF x \in sure THEN {mem[x]} ELSE may[x]]
    BY <1>2 DEF Settle
  <2>3. sure \subseteq Item /\ \A x \in sure : Load(chk, wal)[x] = mem[x]
    BY DEF IInv, TypeOK, GhostTypes, Parts, Answered
  <2>4. Files'
    BY <1>0, <2>1 DEF Files
  <2>5. Answered'
    <3>1. \A x \in Item : mem[x] \in may'[x]
      BY <1>0, <2>2 DEF IInv, Parts, Answered
    <3>. QED  BY <1>0, <2>1, <2>3, <3>1 DEF Answered, Alive
  <2>6. Kept'
    <3>1. \A x \in Item : Load(chk, wal)[x] \in may[x]
      BY <1>0, FilesLoad DEF IInv
    <3>2. \A x \in Item : Load(chk, wal)[x] \in may'[x]
      BY <2>2, <2>3, <3>1
    <3>. QED  BY <2>1, <3>2 DEF Kept
  <2>7. Steady'
    BY <1>0, <2>1, <2>3 DEF Steady
  <2>. QED  BY <2>4, <2>5, <2>6, <2>7 DEF Parts
<1>. QED  BY <1>1, <1>2 DEF SyncIfDirty

\* Close, and whatever else ends the process, leaves files that load what they did.
LEMMA CloseStep == ASSUME IInv, Tolerated, Close PROVE Parts'
<1>0. Sound(wal) /\ pc = "idle" /\ UNCHANGED <<chk, torn, chkAlt, walAlt>> /\ ~torn
  BY DEF Close, IInv, Parts, Files, Alive
<1>1. pc' = "dead" /\ mem' = Absent /\ sure' = {} /\ ~walOpen' /\ ~dirty'
  BY DEF Close, Stop
<1>2. Answered' /\ Steady'
  BY <1>1 DEF Answered, Steady, Alive
<1>3. CASE walOpen /\ wal' = Stored(wal) /\ Settle(sure)
  <2>0. chkAlt = {} /\ walAlt = {}
    BY <1>3 DEF IInv, Parts, Files
  <2>1. Sound(wal') /\ \A c \in Checkpoints', w \in WALs' : Load(c, w) = Load(chk, wal)
    BY <1>0, <1>3, <2>0, FsyncedImages
  <2>2. may' = [x \in Item |-> IF x \in sure THEN {mem[x]} ELSE may[x]]
    BY <1>3 DEF Settle
  <2>3. \A x \in Item : Load(chk, wal)[x] \in may'[x]
    <3>1. \A x \in Item : Load(chk, wal)[x] \in may[x]
      BY <1>0, FilesLoad DEF IInv
    <3>2. \A x \in sure : Load(chk, wal)[x] = mem[x]
      BY DEF IInv, Parts, Answered
    <3>. QED  BY <2>2, <3>1, <3>2
  <2>4. Kept'
    BY <2>1, <2>3 DEF Kept
  <2>5. Files'
    BY <1>0, <1>1, <2>0, <2>1 DEF Files, Alive
  <2>. QED  BY <1>2, <2>4, <2>5 DEF Parts
<1>4. CASE UNCHANGED <<wal, may>>
  <2>1. Files'
    BY <1>0, <1>1, <1>4 DEF IInv, Parts, Files, Alive
  <2>2. Kept'
    BY <1>0, <1>4 DEF IInv, Parts, Kept, Checkpoints, WALs
  <2>. QED  BY <1>2, <2>1, <2>2 DEF Parts
<1>. QED  BY <1>3, <1>4, FsyncFailsKeeps DEF Close

\* compactLocked.  The checkpoint has all of memory: under it, a WAL that comes back
\* loads what it did, or what memory has.
LEMMA CheckpointStep == ASSUME IInv, WriteCheckpoint PROVE Parts'
<1>0. Alive /\ ~walOpen /\ UNCHANGED <<walOpen, dirty, wal, torn, walAlt>>
  BY DEF WriteCheckpoint, Alive, IInv, TypeOK, MemoryTypes
<1>1. CASE Fail /\ UNCHANGED <<chk, chkAlt>>
  BY <1>0, <1>1, FailStep DEF diskVars
<1>2. CASE ~ (Fail /\ UNCHANGED <<chk, chkAlt>>)
  <2>1. /\ chk' = mem /\ chkAlt' = chkAlt \cup {chk} /\ pc' = "checkpointdir"
        /\ pc = "checkpoint" /\ UNCHANGED <<mem, op, may, sure>>
    BY <1>2 DEF WriteCheckpoint, memVars
  <2>2. Checkpoints' = Checkpoints \cup {mem} /\ WALs' = WALs /\ chk \in Checkpoints
    BY <1>0, <2>1 DEF Checkpoints, WALs
  <2>3. sure \subseteq Item /\ \A x \in Item : mem[x] \in may[x]
    BY <1>0 DEF IInv, TypeOK, GhostTypes, Parts, Answered
  <2>4. Files'
    BY <1>0, <2>1 DEF IInv, Parts, Files, Alive
  <2>5. Answered'
    <3>1. \A x \in sure : Load(mem, wal)[x] = mem[x]
      BY <2>3, LoadOver DEF IInv, Parts, Answered
    <3>2. \A x \in DOMAIN op.puts : op.puts[x] = mem[x]
      BY <2>1 DEF IInv, Parts, Answered
    <3>. QED  BY <1>0, <2>1, <2>3, <3>1, <3>2 DEF Answered, Alive
  <2>6. Kept'
    <3>1. \A w \in WALs, x \in Item : Load(mem, w)[x] \in may[x]
      <4>1. \A w \in WALs, x \in Item : Load(chk, w)[x] \in may[x]
        BY <2>2 DEF IInv, Parts, Kept
      <4>. QED  BY <2>3, <4>1, LoadOver, SMTT(30)
    <3>. QED  BY <2>1, <2>2, <3>1 DEF IInv, Parts, Kept
  <2>7. Steady'
    <3> SUFFICES ASSUME ~dirty' PROVE Steady'
      BY DEF Steady
    <3>1. \A w \in WALs, x \in sure : Load(mem, w)[x] = mem[x]
      <4>1. \A w \in WALs, x \in sure : Load(chk, w)[x] = mem[x]
        BY <1>0, <2>2 DEF IInv, Parts, Steady
      <4>. QED  BY <2>3, <4>1, LoadOver
    <3>. QED  BY <1>0, <2>1, <2>2, <3>1 DEF IInv, Parts, Steady
  <2>. QED  BY <2>4, <2>5, <2>6, <2>7 DEF Parts
<1>. QED  BY <1>1, <1>2

\* The directory is fsynced, and the WAL gives way to an empty one.
LEMMA CompactStep == ASSUME IInv, SyncCheckpointDir \/ TruncateWAL \/ SyncWALDir PROVE Parts'
<1>0. /\ Alive /\ ~walOpen /\ ~torn /\ Sound(wal) /\ UNCHANGED <<walOpen, chk>>
      /\ chk = mem /\ \A x \in Item : mem[x] \in may[x]
  BY DEF SyncCheckpointDir, TruncateWAL, SyncWALDir, Alive, IInv, TypeOK, MemoryTypes, Parts, Files, Answered
<1>1. CASE Fail /\ UNCHANGED <<dirty, diskVars>>
  BY <1>0, <1>1, FailStep DEF diskVars
<1>2. CASE SyncCheckpointDir /\ ~ (Fail /\ UNCHANGED <<dirty, diskVars>>)
  <2>1. /\ chkAlt' = {} /\ walAlt' = {} /\ pc' = "truncate"
        /\ UNCHANGED <<mem, op, may, sure, dirty, wal, torn>> /\ pc = "checkpointdir"
    BY <1>2 DEF SyncCheckpointDir, memVars, diskVars
  <2>2. Checkpoints' \subseteq Checkpoints /\ WALs' \subseteq WALs
    BY <1>0, <2>1 DEF Checkpoints, WALs
  <2>3. Files' /\ Answered'
    BY <1>0, <2>1 DEF IInv, Parts, Files, Answered, Alive
  <2>4. Kept' /\ Steady'
    BY <1>0, <2>1, <2>2 DEF IInv, Parts, Kept, Steady
  <2>. QED  BY <2>3, <2>4 DEF Parts
<1>3. CASE TruncateWAL /\ ~ (Fail /\ UNCHANGED <<dirty, diskVars>>)
  <2>1. /\ wal' = <<>> /\ ~torn' /\ walAlt' = walAlt \cup AfterPowerLoss(wal) /\ pc' = "waldir"
        /\ UNCHANGED <<mem, op, may, sure, dirty, chkAlt>> /\ pc = "truncate"
    BY <1>3 DEF TruncateWAL, memVars, diskVars
  <2>2. \A w \in AfterPowerLoss(<<>>) : Sound(w) /\ \A c : \A x \in Item : Load(c, w)[x] = c[x]
    BY EmptyImages
  <2>3. Sound(<<>>) /\ \A c : \A x \in Item : Load(c, <<>>)[x] = c[x]
    BY EmptyImages, LoadEmpty
  <2>4. chkAlt = {} /\ sure \subseteq Item
    BY <2>1 DEF IInv, Parts, Files, TypeOK, GhostTypes
  <2>5. Files'
    BY <1>0, <2>1, <2>3, <2>4, SurvivorSound DEF IInv, Parts, Files, Alive
  <2>6. Answered'
    BY <1>0, <2>1, <2>3, <2>4 DEF IInv, Parts, Answered, Alive
  <2>7. WALs' = AfterPowerLoss(<<>>) \cup WALs /\ Checkpoints' = {mem} /\ Checkpoints = {mem}
    BY <1>0, <2>1, <2>4 DEF Checkpoints, WALs
  <2>8. Kept'
    BY <1>0, <2>1, <2>2, <2>7 DEF IInv, Parts, Kept
  <2>9. Steady'
    BY <1>0, <2>1, <2>2, <2>4, <2>7 DEF IInv, Parts, Steady
  <2>. QED  BY <2>5, <2>6, <2>8, <2>9 DEF Parts
<1>4. CASE SyncWALDir /\ ~ (Fail /\ UNCHANGED <<dirty, diskVars>>)
  <2>1. /\ chkAlt' = {} /\ walAlt' = {} /\ dirty' = FALSE /\ pc' = "idle" /\ wal = <<>>
        /\ UNCHANGED <<wal, torn, mem>> /\ sure' = Item
        /\ may' = [x \in Item |-> IF x \in sure' THEN {mem[x]} ELSE may[x]]
    BY <1>4 DEF SyncWALDir, Succeed, Return, Settle, diskVars, IInv, Parts, Files
  <2>2. \A w \in AfterPowerLoss(<<>>) : \A c : \A x \in Item : Load(c, w)[x] = c[x]
    BY EmptyImages
  <2>3. \A c : \A x \in Item : Load(c, <<>>)[x] = c[x]
    BY LoadEmpty
  <2>4. WALs' = AfterPowerLoss(<<>>) /\ Checkpoints' = {mem}
    BY <1>0, <2>1 DEF Checkpoints, WALs
  <2>5. Files'
    BY <1>0, <2>1 DEF Files
  <2>6. Answered'
    BY <1>0, <2>1, <2>3 DEF Answered, Alive
  <2>7. Kept' /\ Steady'
    BY <1>0, <2>1, <2>2, <2>4 DEF Kept, Steady
  <2>. QED  BY <2>5, <2>6, <2>7 DEF Parts
<1>. QED
  BY <1>1, <1>2, <1>3, <1>4

--------------------------------------------------------------------------------
LEMMA CrashStep == ASSUME IInv, Kill \/ PowerLoss PROVE Parts'
<1>1. Stop /\ UNCHANGED may
  BY DEF Kill, PowerLoss
<1>2. pc' = "dead" /\ mem' = Absent /\ sure' = {} /\ ~walOpen' /\ ~dirty'
  BY <1>1 DEF Stop
<1>3. Answered' /\ Steady'
  BY <1>2 DEF Answered, Steady, Alive
<1>4. CASE Kill
  <2>1. UNCHANGED <<chk, wal, chkAlt, walAlt>>
    BY <1>4 DEF Kill
  <2>2. Files'
    BY <1>2, <2>1 DEF IInv, Parts, Files, Alive
  <2>3. Kept'
    BY <1>1, <2>1 DEF IInv, Parts, Kept, Checkpoints, WALs
  <2>. QED  BY <1>3, <2>2, <2>3 DEF Parts
<1>5. CASE PowerLoss
  <2>1. chk' \in Checkpoints /\ wal' \in WALs /\ chkAlt' = {} /\ walAlt' = {}
    BY <1>5 DEF PowerLoss, Images, Checkpoints, WALs
  <2>2. Sound(wal') /\ AllStored(wal')
    BY <2>1, ImageSound DEF IInv
  <2>3. Files'
    BY <1>2, <2>1, <2>2 DEF Files, Alive
  <2>4. ASSUME NEW w \in AfterPowerLoss(wal') PROVE Load(chk', w) = Load(chk', wal')
    BY <2>2, StoredSurvives, SurvivorSound, SameLoad DEF Sound
  <2>5. Checkpoints' = {chk'} /\ WALs' = AfterPowerLoss(wal')
    BY <2>1 DEF Checkpoints, WALs
  <2>6. Kept'
    BY <1>1, <2>1, <2>4, <2>5 DEF IInv, Parts, Kept
  <2>. QED  BY <1>3, <2>3, <2>6 DEF Parts
<1>. QED  BY <1>4, <1>5

\* load: nothing is cut off but a record that was being written, and what is read is
\* one of the images.
LEMMA RestartLoads ==
    ASSUME IInv, Restart
    PROVE  /\ Sound(wal') /\ mem' = Load(chk, wal) /\ mem' = Load(chk', wal')
           /\ Checkpoints' = Checkpoints
           /\ \A w \in WALs' : \E u \in WALs : \A c : Load(c, w) = Load(c, u)
<1>1. Sound(wal) /\ UNCHANGED <<chk, chkAlt, walAlt>> /\ mem' = Load(chk, wal)
  BY DEF IInv, Parts, Files, Restart
<1>2. CutTail(wal) = wal
  BY <1>1 DEF CutTail, Sound
<1>3. CASE wal' = wal
  BY <1>1, <1>3 DEF Checkpoints, WALs
<1>4. CASE wal' = Stored(wal)
  <2>1. Sound(wal') /\ AllStored(wal') /\ Same(wal', wal)
    BY <1>1, <1>4, FsyncStores
  <2>2. \A c : Load(c, wal') = Load(c, wal)
    BY <1>1, <2>1, SameLoad DEF Sound
  <2>3. PICK u \in AfterPowerLoss(wal) : Same(u, wal)
    BY <1>1, WholeSurvives
  <2>4. \A c : Load(c, u) = Load(c, wal)
    BY <1>1, <2>3, SurvivorSound, SameLoad DEF Sound
  <2>5. \A w \in AfterPowerLoss(wal') : \A c : Load(c, w) = Load(c, wal')
    BY <2>1, StoredSurvives, SurvivorSound, SameLoad DEF Sound
  <2>. QED  BY <1>1, <2>1, <2>2, <2>3, <2>4, <2>5 DEF Checkpoints, WALs
<1>. QED  BY <1>2, <1>3, <1>4 DEF Restart

LEMMA RestartStep == ASSUME IInv, TypeOK', Restart PROVE Parts'
<1>1. pc' = "idle" /\ ~torn' /\ UNCHANGED <<walOpen, dirty, op, chk, chkAlt, walAlt, sure>> /\ ~Alive
  BY DEF Restart
<1>2. sure = {} /\ ~walOpen /\ ~dirty
  BY <1>1 DEF IInv, Parts, Answered
<1>3. may' = [x \in Item |-> {Load(img[1], img[2])[x] : img \in Images'} \cup {mem'[x]}]
  BY DEF Restart
<1>4. Files'
  BY <1>1, <1>2, RestartLoads DEF IInv, Parts, Files, Alive
<1>5. Answered'
  <2>1. \A x \in Item : mem'[x] \in may'[x]
    BY <1>3
  <2>. QED  BY <1>1, <1>2, <2>1 DEF Answered, Alive
<1>6. Kept'
  <2>1. \A c \in Checkpoints', w \in WALs' : <<c, w>> \in Images'
    BY DEF Images, Checkpoints, WALs
  <2>2. \A c \in Checkpoints', w \in WALs', x \in Item : Load(c, w)[x] \in may'[x]
    <3> SUFFICES ASSUME NEW c \in Checkpoints', NEW w \in WALs', NEW x \in Item
                 PROVE  Load(c, w)[x] \in {Load(img[1], img[2])[x] : img \in Images'}
      BY <1>3
    <3>1. <<c, w>> \in Images' /\ <<c, w>>[1] = c /\ <<c, w>>[2] = w
      BY <2>1
    <3>. QED  BY <3>1
  <2>. QED  BY <2>2 DEF Kept
<1>7. Steady'
  BY <1>1, <1>2 DEF Steady
<1>. QED  BY <1>4, <1>5, <1>6, <1>7 DEF Parts

--------------------------------------------------------------------------------
LEMMA Starts == Init => Parts
<1> SUFFICES ASSUME Init PROVE Parts
  OBVIOUS
<1>1. /\ wal = <<>> /\ walAlt = {} /\ chkAlt = {} /\ ~torn /\ ~walOpen /\ pc = "idle" /\ sure = {}
      /\ chk = Absent /\ mem = Absent /\ may = [x \in Item |-> {None}]
  BY DEF Init
<1>2. \A x \in Item : Absent[x] \in may[x]
  BY <1>1 DEF Absent
<1>3. Files
  BY <1>1, EmptyImages DEF Files
<1>4. Answered
  BY <1>1, <1>2 DEF Answered, Alive
<1>5. Kept
  BY <1>1, <1>2, EmptyImages DEF Kept, Checkpoints, WALs
<1>6. Steady
  BY <1>1 DEF Steady
<1>. QED  BY <1>3, <1>4, <1>5, <1>6 DEF Parts

LEMMA Step == ASSUME Tolerated PROVE IInv /\ [Next]_vars => IInv'
<1> SUFFICES ASSUME IInv, [Next]_vars
             PROVE  IInv'
  OBVIOUS
<1>1. TypeOK'
  BY TypeInvariant DEF IInv
<1>2. CASE UNCHANGED vars
  <2>1. UNCHANGED <<chk, wal, torn, chkAlt, walAlt, walOpen, dirty, mem, may, sure, pc, op>>
    BY <1>2 DEF vars, memVars, diskVars
  <2>2. Files' /\ Answered'
    BY <2>1 DEF IInv, Parts, Files, Answered, Alive
  <2>3. Kept' /\ Steady'
    BY <2>1 DEF IInv, Parts, Kept, Steady, Checkpoints, WALs
  <2>. QED  BY <1>1, <2>2, <2>3 DEF IInv, Parts
<1>3. CASE Next
  BY <1>1, <1>3, AskStep, OpenStep, WriteStep, SyncStep, CheckpointStep, CompactStep, TickStep,
     CloseStep, CrashStep, RestartStep DEF Next, AppendStep, Compact, IInv
<1>. QED  BY <1>2, <1>3

LEMMA Invariant == ASSUME Tolerated PROVE Spec => []IInv
<1>1. Init => IInv
  BY InitType, Starts DEF IInv
<1>. QED  BY <1>1, Step, PTL DEF Spec

\* Whatever a power loss leaves, at any step of any operation, loads, and with the last
\* value that was answered for or one put since: terms and votes under either policy,
\* logs unless raft.fsync is everysec (filestore.go:271; appendWALLocked,
\* compactLocked, syncIfDirty, load).
THEOREM CrashSurvived == ASSUME Tolerated PROVE Spec => []SurvivesCrash
<1>1. IInv => SurvivesCrash
  <2> SUFFICES ASSUME IInv PROVE SurvivesCrash
    OBVIOUS
  <2>1. ASSUME NEW img \in Images
        PROVE  Loadable(img[2], FALSE) /\ \A x \in Item : Load(img[1], img[2])[x] \in may[x]
    <3>1. img[1] \in Checkpoints /\ img[2] \in WALs
      BY DEF Images, Checkpoints, WALs
    <3>2. Sound(img[2])
      BY <3>1, ImageSound DEF IInv
    <3>3. Loadable(img[2], FALSE)
      BY <3>2 DEF Loadable, Sound
    <3>. QED  BY <3>1, <3>3 DEF IInv, Parts, Kept
  <2>. QED  BY <2>1 DEF SurvivesCrash
<1>. QED  BY <1>1, Invariant, PTL

--------------------------------------------------------------------------------
(* The store implements the registers Raft asks for.                               *)
LEMMA PutImplemented == ASSUME IInv, TypeOK', Ask PROVE Registers!Put
<1>1. PICK puts \in Puts, durable \in BOOLEAN, last \in 0..MaxIndex, step \in {"append", "checkpoint"} :
        Begin(puts, durable, last, step)
  BY AskBegins DEF IInv
<1>2. /\ Alive /\ Alive'
      /\ mem' = [x \in Item |-> IF x \in DOMAIN puts THEN puts[x] ELSE mem[x]]
      /\ may' = [x \in Item |-> IF x \in DOMAIN puts THEN may[x] \cup {puts[x]} ELSE may[x]]
  BY <1>1 DEF Begin, Alive
<1>3. \A x \in Item : may'[x] = IF mem'[x] = mem[x] THEN may[x] ELSE may[x] \cup {mem'[x]}
  BY <1>2 DEF IInv, Parts, Answered
<1>4. may' = [x \in Item |-> IF mem'[x] = mem[x] THEN may[x] ELSE may[x] \cup {mem'[x]}]
  BY <1>2, <1>3
<1>. QED  BY <1>2, <1>4 DEF Registers!Put, TypeOK, MemoryTypes

LEMMA SettleImplemented ==
    ASSUME IInv, Alive, Alive', UNCHANGED mem, NEW S, Settle(S)
    PROVE  Registers!Settle
<1>1. may' = [x \in Item |-> IF x \in S \cap Item THEN {mem[x]} ELSE may[x]]
  BY DEF Settle
<1>. QED  BY <1>1 DEF Registers!Settle

LEMMA RunsImplemented ==
    ASSUME IInv, AppendStep \/ Compact \/ SyncIfDirty
    PROVE  Registers!Settle \/ UNCHANGED <<Alive, mem, may>>
<1>1. Alive /\ Alive'
  BY DEF AppendStep, OpenWAL, Write, SyncWAL, Compact, WriteCheckpoint, SyncCheckpointDir, TruncateWAL,
         SyncWALDir, SyncIfDirty, Succeed, Fail, Return, Alive
<1>2. UNCHANGED mem
  BY DEF AppendStep, OpenWAL, Write, SyncWAL, Compact, WriteCheckpoint, SyncCheckpointDir, TruncateWAL,
         SyncWALDir, SyncIfDirty, Succeed, Fail, Return, memVars
<1>3. UNCHANGED may \/ \E S : Settle(S)
  BY DEF AppendStep, OpenWAL, Write, SyncWAL, Compact, WriteCheckpoint, SyncCheckpointDir, TruncateWAL,
         SyncWALDir, SyncIfDirty, Answer, Fail
<1>. QED  BY <1>1, <1>2, <1>3, SettleImplemented

LEMMA StopImplemented ==
    ASSUME IInv, Close \/ Kill \/ PowerLoss
    PROVE  Registers!Crash \/ UNCHANGED <<Alive, mem, may>>
<1>1. Stop
  BY DEF Close, Kill, PowerLoss
<1>2. ~Alive' /\ mem' = [x \in Item |-> None]
  BY <1>1 DEF Stop, Alive, Absent
<1>3. CASE ~Alive
  <2>1. UNCHANGED may
    BY <1>3 DEF Close, Kill, PowerLoss, Alive
  <2>. QED  BY <1>2, <1>3, <2>1 DEF IInv, Parts, Answered, Absent, Alive
<1>4. CASE Alive
  <2>1. UNCHANGED may \/ Settle(sure)
    BY DEF Close, Kill, PowerLoss
  <2>2. \E S \in SUBSET Item : may' = [x \in Item |-> IF x \in S THEN {mem[x]} ELSE may[x]]
    <3>1. CASE UNCHANGED may
      <4>1. may' = [x \in Item |-> IF x \in {} THEN {mem[x]} ELSE may[x]]
        BY <3>1 DEF IInv, TypeOK, GhostTypes
      <4>2. {} \in SUBSET Item
        OBVIOUS
      <4>. QED  BY <4>1, <4>2, Zenon
    <3>2. CASE Settle(sure)
      BY <3>2 DEF Settle, IInv, TypeOK, GhostTypes
    <3>. QED  BY <2>1, <3>1, <3>2
  <2>. QED  BY <1>2, <1>4, <2>2 DEF Registers!Crash, Alive
<1>. QED  BY <1>3, <1>4

LEMMA RecoverImplemented == ASSUME IInv, TypeOK', Restart PROVE Registers!Recover
<1>1. ~Alive /\ Alive' /\ mem' = Load(chk, wal)
      /\ may' = [x \in Item |-> {Load(img[1], img[2])[x] : img \in Images'} \cup {mem'[x]}]
  BY DEF Restart, Alive
<1>2. \A x \in Item : mem'[x] \in may[x] /\ mem'[x] \in may'[x]
  BY <1>1, FilesLoad DEF IInv
<1>3. ASSUME NEW img \in Images', NEW x \in Item
      PROVE  Load(img[1], img[2])[x] \in may[x]
  <2>1. img[1] \in Checkpoints' /\ img[2] \in WALs'
    BY DEF Images, Checkpoints, WALs
  <2>2. PICK u \in WALs : Load(img[1], img[2]) = Load(img[1], u)
    BY <2>1, RestartLoads
  <2>3. img[1] \in Checkpoints
    BY <2>1, RestartLoads
  <2>. QED  BY <2>2, <2>3 DEF IInv, Parts, Kept
<1>4. \A x \in Item : may'[x] \subseteq may[x]
  BY <1>1, <1>2, <1>3
<1>. QED  BY <1>1, <1>2, <1>4 DEF Registers!Recover

\* Every step of the store is a put, a put becoming durable, a stop or a start of the
\* registers, or none of their business: the files and their replay implement them
\* (filestore.go; raft.LogStore and raft.StableStore).
THEOREM RegistersImplemented == ASSUME Tolerated PROVE Spec => Implements
<1>1. Init => Registers!Init
  BY DEF Init, Registers!Init, Alive, Absent
<1>2. IInv /\ IInv' /\ [Next]_vars => [Registers!Next]_(Registers!vars)
  <2> SUFFICES ASSUME IInv, IInv', [Next]_vars
               PROVE  Registers!Next \/ UNCHANGED <<Alive, mem, may>>
    BY DEF Registers!vars
  <2>1. CASE UNCHANGED vars
    BY <2>1 DEF vars, memVars, Alive
  <2>2. CASE Next
    BY <2>2, PutImplemented, RunsImplemented, StopImplemented, RecoverImplemented
       DEF Next, Registers!Next, IInv
  <2>. QED  BY <2>1, <2>2
<1>. QED  BY <1>1, <1>2, Invariant, PTL DEF Spec, Implements, Registers!Spec

--------------------------------------------------------------------------------
(* Close.  After a DeleteRange that failed, a dirty WAL that is closed is passed   *)
(* over, by the loop (FileStoreNotSynced) and by Close.                            *)
CompactionSucceeds == Faults \cap {"checkpoint", "rename", "dirsync"} = {}

DirtyOpen == dirty /\ pc \in {"idle", "append", "sync", "dead"} => walOpen

LEMMA DirtyOpenStep ==
    ASSUME CompactionSucceeds, Tolerated, IInv, IInv', DirtyOpen, [Next]_vars
    PROVE  DirtyOpen'
<1> USE DEF DirtyOpen
<1>1. CASE Ask
  BY <1>1 DEF Ask, StoreLogs, SetKey, DeleteRange, BeginDelete, Begin
<1>2. CASE OpenWAL
  BY <1>2 DEF OpenWAL, Fail, Return
<1>3. CASE Write \/ SyncWAL
  BY <1>3 DEF Write, SyncWAL, Fail, Succeed, Return, IInv, TypeOK, MemoryTypes
<1>4. CASE Compact
  BY <1>4 DEF Compact, WriteCheckpoint, SyncCheckpointDir, TruncateWAL, SyncWALDir, Fault, CompactionSucceeds
<1>5. CASE SyncIfDirty \/ Close \/ Kill \/ PowerLoss
  BY <1>5 DEF SyncIfDirty, Close, Kill, PowerLoss, Stop
<1>6. CASE Restart
  BY <1>6 DEF Restart, Alive
<1>7. CASE UNCHANGED vars
  BY <1>7 DEF vars, memVars
<1>. QED
  BY <1>1, <1>2, <1>3, <1>4, <1>5, <1>6, <1>7 DEF Next, AppendStep

\* Close leaves nothing that was answered to the page cache, unless its own fsync fails
\* or a compaction has (FileStore.Close).
THEOREM ClosedIsDurable == ASSUME Tolerated, CompactionSucceeds PROVE Spec => CloseKeeps
<1>1. Init => DirtyOpen
  BY DEF Init, DirtyOpen
<1>2. IInv /\ IInv' /\ DirtyOpen /\ [Next]_vars => DirtyOpen'
  BY DirtyOpenStep
<1>3. IInv /\ DirtyOpen /\ [Next]_vars
        => [(pc = "idle" /\ pc' = "dead" /\ UNCHANGED <<ncrash, nfault>>)
               => \A img \in Images', x \in sure : Load(img[1], img[2])[x] = mem[x]]_vars
  <2> SUFFICES ASSUME IInv, DirtyOpen, Next, pc = "idle", pc' = "dead", UNCHANGED <<ncrash, nfault>>,
                      NEW img \in Images', NEW x \in sure
               PROVE  Load(img[1], img[2])[x] = mem[x]
    OBVIOUS
  <2>1. Close
    <3>1. ncrash \in Nat /\ ncrash' = ncrash
      BY StoreConstantsOK DEF IInv, TypeOK, GhostTypes
    <3>2. ~Kill /\ ~PowerLoss
      <4>1. ncrash' # ncrash + 1
        BY <3>1
      <4>. QED  BY <4>1 DEF Kill, PowerLoss
    <3>3. ~Ask
      BY AskBegins DEF IInv, Begin
    <3>. QED  BY <3>2, <3>3 DEF Next, AppendStep, OpenWAL, Write, SyncWAL, Compact, WriteCheckpoint,
                    SyncCheckpointDir, TruncateWAL, SyncWALDir, SyncIfDirty, Restart, Alive
  <2>2. img[1] \in Checkpoints' /\ img[2] \in WALs'
    BY DEF Images, Checkpoints, WALs
  <2>3. UNCHANGED <<chk, chkAlt, walAlt>>
    BY <2>1 DEF Close
  <2>4. CASE walOpen /\ dirty
    <3>1. nfault \in Nat
      BY StoreConstantsOK DEF IInv, TypeOK, GhostTypes
    <3>2. wal' = Stored(wal)
      BY <2>1, <2>4, <3>1 DEF Close, FsyncFails, Fault
    <3>3. chkAlt = {} /\ walAlt = {} /\ Sound(wal)
      BY <2>4 DEF IInv, Parts, Files
    <3>4. Load(img[1], img[2]) = Load(chk, wal)
      BY <2>2, <2>3, <3>2, <3>3, FsyncedImages
    <3>. QED  BY <3>4 DEF IInv, Parts, Answered
  <2>5. CASE ~ (walOpen /\ dirty)
    <3>1. ~dirty /\ wal' = wal
      BY <2>1, <2>5 DEF Close, DirtyOpen
    <3>. QED  BY <2>2, <2>3, <3>1 DEF IInv, Parts, Steady, Checkpoints, WALs
  <2>. QED  BY <2>4, <2>5
<1>. QED  BY <1>1, <1>2, <1>3, Invariant, PTL DEF Spec, CloseKeeps

--------------------------------------------------------------------------------
(* Gaps.  An append goes after Raft's last log.  It opens no gap because that log, *)
(* if memory has it, is in the files, however the operations since have failed.    *)
LogsAreKept(w) == \A i \in 1..Len(w) : \A x \in DOMAIN w[i].puts \cap Index : w[i].puts[x] # None
Appends ==
    pc \in {"append", "sync"} =>
        /\ \A x \in DOMAIN op.puts \cap Index : op.puts[x] # None
        /\ \/ DOMAIN op.puts \cap Index = {} /\ op.last = raftLast
           \/ DOMAIN op.puts = (raftLast + 1)..op.last /\ raftLast < op.last
LastInFiles == raftLast \in Logs(mem) => raftLast \in Logs(Load(chk, wal))
LogInv == (\A w \in {wal} \cup walAlt : LogsAreKept(w)) /\ Appends /\ LastInFiles

LEMMA SameKept == ASSUME NEW v, NEW w, Same(v, w), LogsAreKept(w) PROVE LogsAreKept(v)
BY DEF Same, LogsAreKept

LEMMA KeptSurvives ==
    ASSUME NEW w \in Seq(Record), LogsAreKept(w), NEW v \in AfterPowerLoss(w)
    PROVE  LogsAreKept(v)
<1>1. PICK n \in 0..Len(w) : Len(v) = n /\ \A i \in 1..n : v[i].puts = w[i].puts
  BY SurvivorIs
<1>2. 1..n \subseteq 1..Len(w)
  OBVIOUS
<1>. QED  BY <1>1, <1>2 DEF LogsAreKept

\* Only a checkpoint can be without a log that an older file has.
LEMMA LoadKeeps ==
    ASSUME NEW c, NEW w \in Seq(Record), LogsAreKept(w), NEW x \in Index, c[x] # None
    PROVE  Load(c, w)[x] # None
<1>0. x \in Item
  BY DEF Item
<1>1. CASE At(w, x) = {}
  BY <1>0, <1>1, LoadIs
<1>2. CASE At(w, x) # {}
  <2>1. PICK i \in 1..Len(w) : i = Max(At(w, x)) /\ x \in DOMAIN w[i].puts
    BY <1>2, LastAt DEF At
  <2>. QED  BY <1>0, <1>2, <2>1, LoadIs DEF LogsAreKept
<1>. QED  BY <1>1, <1>2

\* A step that leaves the operation, memory and the files where they are.
LEMMA LogsStay ==
    ASSUME LogInv, UNCHANGED <<mem, raftLast, wal, walAlt, chk>>,
           pc' \notin {"append", "sync"} \/ UNCHANGED <<pc, op>>
    PROVE  LogInv'
BY DEF LogInv, Appends, LastInFiles, Logs

LEMMA FailedLogs ==
    ASSUME LogInv, Fail, UNCHANGED <<wal, walAlt, chk>>
    PROVE  LogInv'
<1>1. UNCHANGED <<mem, raftLast>> /\ pc' = "idle"
  BY DEF Fail, Return
<1>. QED  BY <1>1, LogsStay

\* When the process is gone Raft has no last log.
LEMMA StoppedLogs ==
    ASSUME Stop, \A w \in {wal'} \cup walAlt' : LogsAreKept(w)
    PROVE  LogInv'
<1>1. pc' = "dead" /\ mem' = Absent
  BY DEF Stop
<1>2. Logs(mem') = {}
  BY <1>1 DEF Logs, Absent, Item
<1>. QED  BY <1>1, <1>2 DEF LogInv, Appends, LastInFiles

\* What Raft asks for: an append of logs starts after its last one.
LEMMA AskedLogs == ASSUME IInv, LogInv, Ask PROVE LogInv'
<1>0. UNCHANGED <<raftLast, wal, walAlt, chk>> /\ raftLast \in 0..MaxIndex
  BY DEF Ask, StoreLogs, SetKey, DeleteRange, BeginDelete, Begin, diskVars, IInv, TypeOK, MemoryTypes
<1>1. CASE StoreLogs
  <2>1. PICK hi \in (raftLast + 1)..MaxIndex, t \in Values :
          Begin([i \in (raftLast + 1)..hi |-> t], FALSE, hi, "append")
    BY <1>1 DEF StoreLogs
  <2>2. /\ pc' = "append" /\ op'.last = hi /\ op'.puts = [i \in (raftLast + 1)..hi |-> t]
        /\ mem' = [x \in Item |-> IF x \in (raftLast + 1)..hi THEN t ELSE mem[x]]
    BY <2>1 DEF Begin
  <2>3. t # None /\ raftLast < hi /\ raftLast \notin (raftLast + 1)..hi
    BY <1>0, StoreConstantsOK
  <2>4. Appends'
    BY <1>0, <2>2, <2>3 DEF Appends
  <2>5. LastInFiles'
    BY <1>0, <2>2, <2>3 DEF LogInv, LastInFiles, Logs, Item
  <2>. QED  BY <1>0, <2>4, <2>5 DEF LogInv
<1>2. CASE SetKey
  <2>1. PICK k \in Keys, v \in Values : Begin([x \in {k} |-> v], TRUE, raftLast, "append")
    BY <1>2 DEF SetKey
  <2>2. /\ pc' = "append" /\ op'.last = raftLast /\ op'.puts = [x \in {k} |-> v]
        /\ mem' = [x \in Item |-> IF x \in {k} THEN v ELSE mem[x]]
    BY <2>1, Zenon DEF Begin
  <2>3. k \notin Index
    BY KeysAreNoIndexes
  <2>4. Appends'
    BY <1>0, <2>2, <2>3 DEF Appends
  <2>5. LastInFiles'
    BY <1>0, <2>2, <2>3 DEF LogInv, LastInFiles, Logs, Item
  <2>. QED  BY <1>0, <2>4, <2>5 DEF LogInv
<1>3. CASE DeleteRange
  <2>1. PICK lo, hi : Begin([i \in lo..hi |-> None], TRUE, IF hi = raftLast THEN lo - 1 ELSE raftLast, "checkpoint")
    BY <1>3 DEF DeleteRange, BeginDelete
  <2>2. pc' = "checkpoint" /\ mem' = [x \in Item |-> IF x \in lo..hi THEN None ELSE mem[x]]
    BY <2>1 DEF Begin
  <2>3. Logs(mem') \subseteq Logs(mem)
    BY <2>2 DEF Logs, Item
  <2>. QED  BY <1>0, <2>2, <2>3 DEF LogInv, Appends, LastInFiles
<1>. QED  BY <1>1, <1>2, <1>3 DEF Ask

\* A record is written: what it is, and what the files load then.
LEMMA WriteAppends ==
    ASSUME IInv, Tolerated, Write
    PROVE  \/ Fail /\ UNCHANGED <<wal, walAlt, chk, chkAlt>>
           \/ /\ pc = "append" /\ chkAlt = {} /\ walAlt = {} /\ UNCHANGED <<mem, chk, chkAlt, walAlt>>
              /\ \/ pc' = "sync" /\ UNCHANGED <<op, raftLast>>
                 \/ pc' = "idle" /\ raftLast' = op.last
              /\ \E r \in Record : wal' = Append(wal, r) /\ r.puts = op.puts
              /\ \A x \in Item : Load(chk, wal')[x] =
                                 IF x \in DOMAIN op.puts THEN op.puts[x] ELSE Load(chk, wal)[x]
              /\ \A w \in WALs' : \/ Load(chk, w) = Load(chk, wal')
                                 \/ \E u \in WALs : Load(chk, w) = Load(chk, u)
<1> DEFINE r == [puts |-> op.puts, ok |-> ~torn, at |-> "cached"]
<1>0. Alive /\ ~torn /\ pc = "append" /\ walOpen /\ chkAlt = {} /\ walAlt = {} /\ Sound(wal)
      /\ UNCHANGED <<chk, chkAlt, walAlt>>
  BY DEF Write, Alive, IInv, Parts, Files
<1>1. CASE WriteFails /\ Fail /\ UNCHANGED <<wal, dirty>>
  BY <1>0, <1>1
<1>2. CASE ~ (WriteFails /\ Fail /\ UNCHANGED <<wal, dirty>>)
  <2>1. /\ wal' = Append(wal, r) /\ UNCHANGED mem
        /\ \/ pc' = "sync" /\ UNCHANGED <<op, raftLast>>
           \/ pc' = "idle" /\ raftLast' = op.last
    BY <1>2 DEF Write, memVars, Succeed, Return
  <2>2. r \in Record /\ r.ok /\ r.at = "cached" /\ r.puts = op.puts
    BY <1>0 DEF IInv, TypeOK, MemoryTypes, Record
  <2> HIDE DEF r
  <2>3. /\ \A x \in Item : Load(chk, wal')[x] = IF x \in DOMAIN r.puts THEN r.puts[x] ELSE Load(chk, wal)[x]
        /\ \A w \in WALs' : \/ Load(chk, w) = Load(chk, wal')
                           \/ \E u \in AfterPowerLoss(wal) : Load(chk, w) = Load(chk, u)
    BY <1>0, <2>1, <2>2, AppendedImages
  <2>. QED  BY <1>0, <2>1, <2>2, <2>3 DEF WALs
<1>. QED  BY <1>1, <1>2

LEMMA WrittenLogs == ASSUME IInv, LogInv, Tolerated, Write PROVE LogInv'
<1>1. CASE Fail /\ UNCHANGED <<wal, walAlt, chk, chkAlt>>
  BY <1>1, FailedLogs
<1>2. CASE ~ (Fail /\ UNCHANGED <<wal, walAlt, chk, chkAlt>>)
  <2>1. /\ pc = "append" /\ walAlt = {} /\ UNCHANGED <<mem, chk, walAlt>>
        /\ \/ pc' = "sync" /\ UNCHANGED <<op, raftLast>>
           \/ pc' = "idle" /\ raftLast' = op.last
        /\ \A x \in Item : Load(chk, wal')[x] =
                           IF x \in DOMAIN op.puts THEN op.puts[x] ELSE Load(chk, wal)[x]
    BY <1>2, WriteAppends
  <2>2. PICK r \in Record : wal' = Append(wal, r) /\ r.puts = op.puts
    BY <1>2, WriteAppends
  <2>3. wal \in Seq(Record) /\ LogsAreKept(wal) /\ Appends /\ LastInFiles
    BY DEF IInv, TypeOK, DiskTypes, LogInv
  <2>4. LogsAreKept(wal')
    <3>1. /\ Len(wal') = Len(wal) + 1 /\ wal'[Len(wal) + 1] = r
          /\ \A i \in 1..Len(wal) : wal'[i] = wal[i]
      BY <2>2, <2>3
    <3>2. \A i \in 1..Len(wal') : i = Len(wal) + 1 \/ i \in 1..Len(wal)
      BY <2>3, <3>1
    <3>3. \A x \in DOMAIN r.puts \cap Index : r.puts[x] # None
      BY <2>1, <2>2, <2>3 DEF Appends
    <3>. QED  BY <2>3, <3>1, <3>2, <3>3 DEF LogsAreKept
  <2>5. \A w \in {wal'} \cup walAlt' : LogsAreKept(w)
    BY <2>1, <2>4
  <2>6. Appends'
    BY <2>1, <2>3 DEF Appends
  <2>7. LastInFiles'
    <3> SUFFICES ASSUME raftLast' \in Logs(mem) PROVE raftLast' \in Logs(Load(chk, wal'))
      BY <2>1 DEF LastInFiles
    <3>1. raftLast' \in Index /\ raftLast' \in Item
      BY DEF Logs, Item
    <3>2. CASE raftLast' \in DOMAIN op.puts
      BY <2>1, <2>3, <3>1, <3>2 DEF Appends, Logs
    <3>3. CASE raftLast' \notin DOMAIN op.puts
      <4>1. raftLast' = raftLast
        <5>1. op.last \in Int /\ raftLast \in Int
          BY StoreConstantsOK DEF IInv, TypeOK, MemoryTypes
        <5>2. raftLast < op.last => op.last \in (raftLast + 1)..op.last
          BY <5>1
        <5>. QED  BY <2>1, <2>3, <3>3, <5>2 DEF Appends
      <4>2. Load(chk, wal)[raftLast] # None
        BY <2>3, <4>1 DEF LastInFiles, Logs
      <4>. QED  BY <2>1, <3>1, <3>3, <4>1, <4>2 DEF Logs
    <3>. QED  BY <3>2, <3>3
  <2>. QED  BY <2>5, <2>6, <2>7 DEF LogInv
<1>. QED  BY <1>1, <1>2

\* Fsyncs, and a start, change neither what the files load nor what their records put.
LEMMA SyncedLogs == ASSUME IInv, LogInv, Tolerated, SyncWAL \/ SyncIfDirty PROVE LogInv'
<1>1. CASE wal' = wal /\ UNCHANGED <<mem, raftLast>> /\ pc' = "idle"
  <2>1. UNCHANGED <<chk, walAlt>>
    BY DEF SyncWAL, SyncIfDirty
  <2>. QED  BY <1>1, <2>1, LogsStay
<1>2. CASE wal' = Stored(wal)
  <2>1. Sound(wal) /\ UNCHANGED <<mem, chk, walAlt>> /\ pc' = "idle"
    BY <1>2 DEF IInv, Parts, Files, SyncWAL, SyncIfDirty, Succeed, Fail, Return, memVars
  <2>2. Sound(wal') /\ Same(wal', wal)
    BY <1>2, <2>1, FsyncStores
  <2>3. Load(chk, wal') = Load(chk, wal)
    BY <2>1, <2>2, SameLoad DEF Sound
  <2>4. \A w \in {wal'} \cup walAlt' : LogsAreKept(w)
    BY <2>1, <2>2, SameKept DEF LogInv
  <2>5. LastInFiles'
    <3>1. CASE raftLast' = raftLast
      BY <2>1, <2>3, <3>1 DEF LogInv, LastInFiles
    <3>2. CASE raftLast' # raftLast
      <4>1. pc = "sync" /\ raftLast' = op.last
        BY <3>2 DEF SyncWAL, SyncIfDirty, Succeed, Fail, memVars
      <4>2. op.last \in DOMAIN op.puts
        <5>1. op.last \in Int /\ raftLast \in Int
          BY StoreConstantsOK DEF IInv, TypeOK, MemoryTypes
        <5>2. raftLast < op.last => op.last \in (raftLast + 1)..op.last
          BY <5>1
        <5>. QED  BY <3>2, <4>1, <5>2 DEF LogInv, Appends
      <4>3. Load(chk, wal)[op.last] = mem[op.last]
        BY <4>1, <4>2 DEF IInv, Parts, Answered
      <4>. QED  BY <2>1, <2>3, <4>1, <4>3 DEF LastInFiles, Logs
    <3>. QED  BY <3>1, <3>2
  <2>. QED  BY <2>1, <2>4, <2>5 DEF LogInv, Appends
<1>3. wal' = Stored(wal) \/ (wal' = wal /\ UNCHANGED <<mem, raftLast>> /\ pc' = "idle")
  <2>1. FsyncFails => wal' = wal
    BY FsyncFailsKeeps
  <2>. QED  BY <2>1 DEF SyncWAL, SyncIfDirty, Fail, Return, memVars
<1>. QED  BY <1>1, <1>2, <1>3

\* A checkpoint has what memory has; over it the WAL loads no fewer logs.
LEMMA CompactedLogs == ASSUME IInv, LogInv, Compact PROVE LogInv'
<1>0. wal \in Seq(Record) /\ LogsAreKept(wal) /\ \A w \in walAlt : LogsAreKept(w)
  BY DEF IInv, TypeOK, DiskTypes, LogInv
<1>1. CASE Fail /\ UNCHANGED <<wal, chk>> /\ walAlt' = walAlt
  BY <1>1, FailedLogs
<1>2. CASE WriteCheckpoint /\ chk' = mem /\ pc' = "checkpointdir"
  <2>1. UNCHANGED <<mem, raftLast, wal, walAlt>>
    BY <1>2 DEF WriteCheckpoint, Fail, Return, memVars
  <2>2. LastInFiles'
    BY <1>0, <1>2, <2>1, LoadKeeps DEF LastInFiles, Logs
  <2>. QED  BY <1>0, <1>2, <2>1, <2>2 DEF LogInv, Appends
<1>3. CASE SyncCheckpointDir /\ walAlt' = {} /\ pc' = "truncate"
  <2>1. UNCHANGED <<mem, raftLast, wal, chk>>
    BY <1>3 DEF SyncCheckpointDir, Fail, Return, memVars
  <2>. QED  BY <1>0, <1>3, <2>1 DEF LogInv, Appends, LastInFiles
<1>4. CASE TruncateWAL /\ wal' = <<>> /\ walAlt' = walAlt \cup AfterPowerLoss(wal) /\ pc' = "waldir"
  <2>1. UNCHANGED <<mem, raftLast, chk>> /\ chk = mem
    BY <1>4 DEF TruncateWAL, Fail, Return, memVars, IInv, Parts, Files
  <2>2. \A w \in {<<>>} \cup walAlt' : LogsAreKept(w)
    <3>1. LogsAreKept(<<>>)
      BY DEF LogsAreKept
    <3>. QED  BY <1>0, <1>4, <3>1, KeptSurvives
  <2>3. LastInFiles'
    BY <1>4, <2>1, LoadEmpty DEF LastInFiles, Logs, Item
  <2>. QED  BY <1>4, <2>2, <2>3 DEF LogInv, Appends
<1>5. CASE SyncWALDir /\ walAlt' = {} /\ pc' = "idle"
  <2>1. UNCHANGED <<mem, chk, wal>> /\ chk = mem /\ wal = <<>>
    BY <1>5 DEF SyncWALDir, Succeed, Fail, Return, IInv, Parts, Files
  <2>2. LastInFiles'
    BY <2>1, LoadEmpty DEF LastInFiles, Logs, Item
  <2>. QED  BY <1>0, <1>5, <2>1, <2>2 DEF LogInv, Appends
<1>. QED
  BY <1>1, <1>2, <1>3, <1>4, <1>5
     DEF Compact, WriteCheckpoint, SyncCheckpointDir, TruncateWAL, SyncWALDir, Succeed, Return

LEMMA StoppedOrStartedLogs ==
    ASSUME IInv, TypeOK', LogInv, Tolerated, Close \/ Kill \/ PowerLoss \/ Restart
    PROVE  LogInv'
<1>0. wal \in Seq(Record) /\ Sound(wal) /\ LogsAreKept(wal) /\ \A w \in walAlt : LogsAreKept(w)
  BY DEF IInv, TypeOK, DiskTypes, Parts, Files, LogInv
<1>1. wal' = Stored(wal) => LogsAreKept(wal')
  BY <1>0, FsyncStores, SameKept
<1>2. CASE Close
  <2>1. wal' = wal \/ wal' = Stored(wal)
    BY <1>2, FsyncFailsKeeps DEF Close
  <2>2. Stop /\ walAlt' = walAlt
    BY <1>2 DEF Close
  <2>. QED  BY <1>0, <1>1, <2>1, <2>2, StoppedLogs
<1>3. CASE Kill
  <2>1. Stop /\ UNCHANGED <<wal, walAlt>>
    BY <1>3 DEF Kill
  <2>. QED  BY <1>0, <2>1, StoppedLogs
<1>4. CASE PowerLoss
  <2>1. Stop /\ walAlt' = {} /\ wal' \in AfterPowerLoss(wal) \cup walAlt
    BY <1>4 DEF PowerLoss, Images
  <2>2. LogsAreKept(wal')
    BY <1>0, <2>1, KeptSurvives
  <2>. QED  BY <2>1, <2>2, StoppedLogs
<1>5. CASE Restart
  <2>1. UNCHANGED <<chk, walAlt>> /\ pc' = "idle" /\ (wal' = wal \/ wal' = Stored(wal))
    <3>1. CutTail(wal) = wal
      BY <1>0 DEF CutTail, Sound
    <3>. QED  BY <1>5, <3>1 DEF Restart
  <2>2. mem' = Load(chk', wal')
    BY <1>5, RestartLoads
  <2>. QED  BY <1>0, <1>1, <2>1, <2>2 DEF LogInv, Appends, LastInFiles
<1>. QED  BY <1>2, <1>3, <1>4, <1>5

LEMMA LogStep == ASSUME Tolerated PROVE IInv /\ IInv' /\ LogInv /\ [Next]_vars => LogInv'
<1> SUFFICES ASSUME IInv, IInv', LogInv, [Next]_vars PROVE LogInv'
  OBVIOUS
<1>1. CASE OpenWAL
  <2>1. Fail \/ UNCHANGED <<pc, op, mem, raftLast>>
    BY <1>1 DEF OpenWAL, memVars
  <2>2. UNCHANGED <<wal, chk>> /\ (walAlt' = walAlt \/ walAlt' = {})
    BY <1>1 DEF OpenWAL
  <2>3. Appends' /\ LastInFiles'
    BY <2>1, <2>2 DEF Fail, Return, LogInv, Appends, LastInFiles
  <2>. QED  BY <2>2, <2>3 DEF LogInv
<1>2. CASE UNCHANGED vars
  BY <1>2, LogsStay DEF vars, memVars, diskVars
<1>. QED
  BY <1>1, <1>2, AskedLogs, WrittenLogs, SyncedLogs, CompactedLogs, StoppedOrStartedLogs
     DEF Next, AppendStep, IInv

LEMMA LogStart == Init => LogInv
<1> SUFFICES ASSUME Init PROVE LogInv
  OBVIOUS
<1>1. pc = "idle" /\ mem = Absent /\ wal = <<>> /\ walAlt = {}
  BY DEF Init
<1>2. Logs(mem) = {} /\ LogsAreKept(<<>>)
  BY <1>1 DEF Logs, Absent, Item, LogsAreKept
<1>. QED  BY <1>1, <1>2 DEF LogInv, Appends, LastInFiles

\* A step after which the files load nothing that they could not load before.
LEMMA NothingNewLoads ==
    ASSUME Parts, LoadsWithoutGap,
           \A c \in Checkpoints', w \in WALs' :
               \E d \in Checkpoints, u \in WALs : Load(c, w) = Load(d, u)
    PROVE  LoadsWithoutGap'
<1>1. ASSUME NEW d \in Checkpoints, NEW u \in WALs PROVE NoGap(Load(d, u))
  <2>1. <<d, u>> \in Images
    BY DEF Images, Checkpoints, WALs
  <2>2. Loadable(u, FALSE)
    BY ImageSound DEF Loadable, Sound
  <2>. QED  BY <2>1, <2>2, Zenon DEF LoadsWithoutGap
<1>2. \A img \in Images' : img[1] \in Checkpoints' /\ img[2] \in WALs'
  BY DEF Images, Checkpoints, WALs
<1>3. ASSUME NEW img \in Images' PROVE NoGap(Load(img[1], img[2]))
  <2>1. PICK d \in Checkpoints, u \in WALs : Load(img[1], img[2]) = Load(d, u)
    BY <1>2
  <2>. QED  BY <1>1, <2>1
<1>. QED  BY <1>3 DEF LoadsWithoutGap

\* What the files load as they are is what some power loss leaves.
LEMMA FilesAreImage == ASSUME Parts PROVE chk \in Checkpoints /\ \E u \in WALs : Load(chk, u) = Load(chk, wal)
<1>1. Sound(wal)
  BY DEF Parts, Files
<1>2. PICK v \in AfterPowerLoss(wal) : Same(v, wal)
  BY <1>1, WholeSurvives
<1>3. Load(chk, v) = Load(chk, wal)
  BY <1>1, <1>2, SameLoad, SurvivorSound DEF Sound
<1>. QED  BY <1>2, <1>3 DEF Checkpoints, WALs

LEMMA OtherStepsLoad ==
    ASSUME IInv, Tolerated, Next, ~Write, pc \notin {"checkpoint", "truncate"}
    PROVE  \A c \in Checkpoints', w \in WALs' :
               \E d \in Checkpoints, u \in WALs : Load(c, w) = Load(d, u)
<1>1. CASE Checkpoints' \subseteq Checkpoints /\ WALs' \subseteq WALs
  BY <1>1
<1>2. CASE walOpen /\ wal' = Stored(wal) /\ UNCHANGED <<chk, chkAlt, walAlt>>
  <2>1. Sound(wal) /\ chkAlt' = {} /\ walAlt' = {}
    BY <1>2 DEF IInv, Parts, Files
  <2>2. \A c \in Checkpoints', w \in WALs' : Load(c, w) = Load(chk, wal)
    BY <1>2, <2>1, FsyncedImages
  <2>. QED  BY <2>2, FilesAreImage DEF IInv
<1>3. CASE Ask
  BY <1>1, <1>3 DEF Ask, StoreLogs, SetKey, DeleteRange, BeginDelete, Begin, diskVars, Checkpoints, WALs
<1>4. CASE OpenWAL \/ Compact
  <2>1. UNCHANGED <<chk, wal>> /\ chkAlt' \subseteq chkAlt /\ walAlt' \subseteq walAlt
    BY <1>4 DEF OpenWAL, Compact, WriteCheckpoint, SyncCheckpointDir, TruncateWAL, SyncWALDir
  <2>. QED  BY <1>1, <2>1 DEF Checkpoints, WALs
<1>5. CASE SyncWAL \/ SyncIfDirty \/ Close
  <2>1. UNCHANGED <<chk, chkAlt, walAlt>>
    BY <1>5 DEF SyncWAL, SyncIfDirty, Close
  <2>2. wal' = wal \/ (walOpen /\ wal' = Stored(wal))
    BY <1>5, FsyncFailsKeeps DEF SyncWAL, SyncIfDirty, Close, IInv, TypeOK, MemoryTypes
  <2>. QED  BY <1>1, <1>2, <2>1, <2>2 DEF Checkpoints, WALs
<1>6. CASE Kill
  BY <1>1, <1>6 DEF Kill, Checkpoints, WALs
<1>7. CASE PowerLoss
  <2>1. chk' \in Checkpoints /\ wal' \in WALs /\ chkAlt' = {} /\ walAlt' = {}
    BY <1>7 DEF PowerLoss, Images, Checkpoints, WALs
  <2>2. Sound(wal') /\ AllStored(wal')
    BY <2>1, ImageSound DEF IInv
  <2>3. \A w \in AfterPowerLoss(wal') : Load(chk', w) = Load(chk', wal')
    BY <2>2, StoredSurvives, SurvivorSound, SameLoad DEF Sound
  <2>4. \A c \in Checkpoints', w \in WALs' : Load(c, w) = Load(chk', wal')
    BY <2>1, <2>3 DEF Checkpoints, WALs
  <2>. QED  BY <2>1, <2>4
<1>8. CASE Restart
  <2>1. Checkpoints' = Checkpoints /\ \A w \in WALs' : \E u \in WALs : \A c : Load(c, w) = Load(c, u)
    BY <1>8, RestartLoads
  <2>. QED  BY <2>1
<1>. QED  BY <1>3, <1>4, <1>5, <1>6, <1>7, <1>8 DEF Next, AppendStep

\* What an append adds comes right after a log that the files have, or they have none
\* that comes before it.
LEMMA WriteOpensNoGap ==
    ASSUME IInv, LogInv, Tolerated, Write, LoadsWithoutGap, KnowsLog
    PROVE  LoadsWithoutGap'
<1>1. CASE Fail /\ UNCHANGED <<wal, walAlt, chk, chkAlt>>
  BY <1>1, NothingNewLoads DEF IInv, Checkpoints, WALs
<1>2. CASE ~ (Fail /\ UNCHANGED <<wal, walAlt, chk, chkAlt>>)
  <2> DEFINE L == Load(chk, wal)
             M == Load(chk, wal')
             D == DOMAIN op.puts \cap Index
  <2>1. /\ pc = "append" /\ chkAlt' = {} /\ chk' = chk
        /\ \A x \in Item : M[x] = IF x \in DOMAIN op.puts THEN op.puts[x] ELSE L[x]
        /\ \A w \in WALs' : Load(chk, w) = M \/ \E u \in WALs : Load(chk, w) = Load(chk, u)
    BY <1>2, WriteAppends
  <2>2. /\ \A x \in D : op.puts[x] # None
        /\ (D = {} /\ op.last = raftLast)
             \/ (DOMAIN op.puts = (raftLast + 1)..op.last /\ raftLast < op.last)
    BY <2>1 DEF LogInv, Appends
  <2>3. raftLast \in Nat /\ op.last \in Nat
    BY StoreConstantsOK DEF IInv, TypeOK, MemoryTypes
  <2>4. NoGap(L) /\ Logs(L) \subseteq Logs(mem)
    <3>1. PICK u \in WALs : Load(chk, u) = L
      BY FilesAreImage DEF IInv
    <3>2. <<chk, u>> \in Images
      BY <3>1 DEF Images, WALs
    <3>3. Loadable(u, FALSE)
      BY <3>1, ImageSound DEF IInv, Loadable, Sound
    <3>4. NoGap(Load(chk, u))
      BY <3>2, <3>3, Zenon DEF LoadsWithoutGap
    <3>5. Logs(Load(chk, u)) \subseteq Logs(mem)
      BY <3>2, Zenon DEF KnowsLog
    <3>. QED  BY <3>1, <3>4, <3>5
  <2>5. D \subseteq Logs(mem)
    <3>1. \A x \in DOMAIN op.puts : op.puts[x] = mem[x]
      BY <2>1 DEF IInv, Parts, Answered
    <3>. QED  BY <2>2, <3>1 DEF Logs
  <2>6. Logs(M) = Logs(L) \cup D
    BY <2>1, <2>2 DEF Logs, Item
  <2>7. Logs(L) \subseteq Index /\ Index \subseteq Nat
    BY DEF Logs, Index
  <2> HIDE DEF L, M, D
  <2>8. NoGap(M)
    <3>1. CASE D = {}
      <4>1. Logs(M) = Logs(L)
        BY <2>6, <3>1
      <4>. QED  BY <2>4, <4>1 DEF NoGap
    <3>2. CASE D # {}
      <4>1. DOMAIN op.puts = (raftLast + 1)..op.last /\ raftLast < op.last
        BY <2>2, <3>2
      <4>2. \A k \in Index : k \in (raftLast + 1)..op.last => k \in D
        BY <4>1 DEF D
      <4>3. \A k \in D : k \in (raftLast + 1)..op.last
        BY <4>1 DEF D
      <4> SUFFICES ASSUME NEW i \in Logs(M), NEW j \in Logs(M), NEW k \in i..j
                   PROVE  k \in Logs(M)
        BY DEF NoGap
      <4>4. D \subseteq Index
        BY DEF D
      <4>5. i \in Nat /\ j \in Nat /\ k \in Nat /\ i <= k /\ k <= j
        <5>1. i \in Nat /\ j \in Nat
          BY <2>6, <2>7, <4>4
        <5>2. k \in Int /\ i <= k /\ k <= j
          BY <5>1
        <5>. QED  BY <5>1, <5>2
      <4>6. i \in Index /\ j \in Index
        BY <2>6, <2>7, <4>4
      <4>7. k \in Index
        BY <4>5, <4>6, StoreConstantsOK DEF Index
      <4>8. CASE k \in D
        BY <2>6, <4>8
      <4>9. CASE k \notin D
        <5>1. j <= op.last
          <6>1. j \in Logs(mem)
            BY <2>4, <2>5, <2>6
          <6>. QED  BY <2>3, <4>1, <4>5, <6>1 DEF KnowsLog
        <5>2. k <= raftLast
          BY <2>3, <4>2, <4>5, <4>7, <4>9, <5>1
        <5>3. i \in Logs(L)
          BY <2>3, <2>6, <4>3, <4>5, <5>2
        <5>4. CASE j <= raftLast
          <6>1. j \in Logs(L)
            BY <2>3, <2>6, <4>3, <4>5, <5>4
          <6>. QED  BY <2>4, <2>6, <5>3, <6>1 DEF NoGap
        <5>5. CASE j > raftLast
          <6>1. raftLast \in i..j /\ j \in Logs(mem) /\ i \in Logs(mem)
            BY <2>3, <2>4, <2>5, <2>6, <4>5, <5>2, <5>3, <5>5
          <6>2. raftLast \in Logs(mem)
            BY <6>1 DEF KnowsLog, NoGap
          <6>3. raftLast \in Logs(L)
            BY <6>2 DEF LogInv, LastInFiles, L
          <6>4. k \in i..raftLast
            BY <2>3, <4>5, <5>2
          <6>. QED  BY <2>4, <2>6, <5>3, <6>3, <6>4 DEF NoGap
        <5>. QED  BY <2>3, <4>5, <5>4, <5>5
      <4>. QED  BY <4>8, <4>9
    <3>. QED  BY <3>1, <3>2
  <2>9. ASSUME NEW img \in Images' PROVE NoGap(Load(img[1], img[2]))
    <3>1. img[1] = chk /\ img[2] \in WALs'
      BY <2>1 DEF Images, WALs
    <3>2. CASE Load(chk, img[2]) = M
      BY <2>8, <3>1, <3>2
    <3>3. CASE \E u \in WALs : Load(chk, img[2]) = Load(chk, u)
      <4>1. PICK u \in WALs : Load(chk, img[2]) = Load(chk, u)
        BY <3>3
      <4>2. <<chk, u>> \in Images
        BY DEF Images, WALs
      <4>3. Loadable(u, FALSE)
        BY ImageSound DEF IInv, Loadable, Sound
      <4>4. NoGap(Load(chk, u))
        BY <4>2, <4>3, Zenon DEF LoadsWithoutGap
      <4>. QED  BY <3>1, <4>1, <4>4
    <3>. QED  BY <2>1, <3>1, <3>2, <3>3
  <2>. QED  BY <2>9 DEF LoadsWithoutGap
<1>. QED  BY <1>1, <1>2

\* While memory is the log that Raft knows, only the two replacements of a DeleteRange
\* open a gap in what a start may load (filestore.go: StoreLogs, compactLocked).
THEOREM NoOtherGap == ASSUME Tolerated PROVE Spec => OnlyDeleteOpensGap
<1>1. IInv /\ LogInv /\ [Next]_vars
        => [LoadsWithoutGap /\ (Alive => KnowsLog) /\ pc \notin {"checkpoint", "truncate"}
              => LoadsWithoutGap']_vars
  <2> SUFFICES ASSUME IInv, LogInv, Next, LoadsWithoutGap, Alive => KnowsLog,
                      pc \notin {"checkpoint", "truncate"}
               PROVE  LoadsWithoutGap'
    OBVIOUS
  <2>1. CASE Write
    <3>1. KnowsLog
      BY <2>1 DEF Write, Alive
    <3>. QED  BY <2>1, <3>1, WriteOpensNoGap
  <2>2. CASE ~Write
    BY <2>2, OtherStepsLoad, NothingNewLoads DEF IInv
  <2>. QED  BY <2>1, <2>2
<1>. QED  BY <1>1, Invariant, LogStart, LogStep, PTL DEF Spec, OnlyDeleteOpensGap
================================================================================

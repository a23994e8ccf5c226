----------------------------- MODULE PeerLinkProofs -----------------------------
(* That a peer ends with the document its queue spells, however often answers, acks, *)
(* connections and processes are lost, for any number of handlers, writes, batches   *)
(* and failures.                                                                    *)
EXTENDS PeerLink, Induction, FiniteSetTheorems

--------------------------------------------------------------------------------
(* What is assumed.                                                               *)

\* The peer's goroutine is done before the sender gives up, and no write copies a value:
\* PeerLinkSlow and PeerLinkClone show how the peer differs otherwise.
Prompt == ~SlowPeer /\ "clone" \notin OpKinds

\* A node that comes back with the sender's document has what the sender queued or will:
\* one handler at a time writes (PeerLinkRace), and none is killed before its hook.
InOrder == ~Kills /\ \A v, w \in Writers : v = w

--------------------------------------------------------------------------------
(* The invariants.                                                                *)

InHand == {w \in Writers : writing[w] # None}
Bounded == IsFiniteSet(InHand) /\ Len(log) + Cardinality(InHand) <= MaxOps

\* The batch that is waited for starts where the queue does.
Asked == waiting => srv[conn].phase \in {"applying", "answering"} /\ srv[conn].first = acked
Shape == TypeOK /\ Bounded /\ Asked

\* Only the connection that is waited for applies writes.
Alone == \A c \in Conn : srv[c].phase = "applying" => c = conn /\ waiting

\* The writes up to here are applied, if no answer is lost.
Position == IF waiting THEN acked + srv[conn].done ELSE acked

\* Some write after the first p, queued or not yet, sets or deletes k.
Coming(k, p) ==
    \/ \E i \in (p + 1)..Len(log) : log[i].key = k
    \/ \E w \in InHand : writing[w].key = k

\* Where the peer differs from what the queue spells a write that is still to come (or to
\* come again) sets it right: this is why sending a batch again does no harm.  What a
\* start of the sender brought back is left aside.
Kept == Keys \ revived
Reaches(p) == \A k \in Kept : doc[k] = Queued[k] \/ Coming(k, p)

\* The sender's document is what it queued and the write in hand.
Own == \A k \in Kept : /\ InHand = {} => local[k] = Queued[k]
                       /\ \A w \in InHand : local[k] = Apply(writing[w], Queued)[k]

IInv == Shape /\ Alone /\ Reaches(Position)

--------------------------------------------------------------------------------
(* What writes do.                                                                *)

\* What a set or a delete leaves at its key.
Left(o) == IF o.kind = "set" THEN o.value ELSE None

LEMMA OpKind ==
    ASSUME NEW o \in Op
    PROVE  /\ o \in Set \cup Del \cup Clone /\ o.kind \in OpKinds
           /\ o.key \in Keys /\ o # None
BY NoneIsNoOp DEF Op, Set, Del, Clone

LEMMA ApplyType == ASSUME NEW o \in Op, NEW d \in Document PROVE Apply(o, d) \in Document
<1>1. CASE o \in Set
  BY <1>1 DEF Set, Apply, Document
<1>2. CASE o \in Del
  BY <1>2 DEF Del, Apply, Document
<1>3. CASE o \in Clone
  BY <1>3 DEF Clone, Apply, Document
<1>. QED  BY <1>1, <1>2, <1>3, OpKind

\* Without clones a write is about one key, whatever the document.
LEMMA ApplyPlain ==
    ASSUME NEW o \in Op, NEW d \in Document, "clone" \notin OpKinds
    PROVE  \A k \in Keys : Apply(o, d)[k] = IF k = o.key THEN Left(o) ELSE d[k]
<1>1. CASE o \in Set
  BY <1>1 DEF Set, Apply, Document, Left
<1>2. CASE o \in Del
  BY <1>2 DEF Del, Apply, Document, Left
<1>3. o \notin Clone
  BY OpKind DEF Clone
<1>. QED  BY <1>1, <1>2, <1>3, OpKind

--------------------------------------------------------------------------------
(* What a sequence of writes spells.                                              *)

Steps(l, d) == d = [i \in 0..Len(l) |-> IF i = 0 THEN Blank ELSE Apply(l[i], d[i - 1])]

LEMMA BlankType == Blank \in Document
BY DEF Blank, Document

LEMMA StepsExist ==
    ASSUME NEW l \in Seq(Op)
    PROVE  \E d : Steps(l, d) /\ d \in [0..Len(l) -> Document]
<1> DEFINE Is(n, d) == /\ d \in [0..n -> Document] /\ d[0] = Blank
                       /\ \A i \in 1..n : d[i] = Apply(l[i], d[i - 1])
           S == {n \in Nat : n <= Len(l) => \E d : Is(n, d)}
<1>1. 0 \in S
  <2>1. Is(0, [i \in 0..0 |-> Blank])
    BY BlankType
  <2>. QED  BY <2>1
<1>2. ASSUME NEW n \in Nat, n \in S PROVE n + 1 \in S
  <2> SUFFICES ASSUME n + 1 <= Len(l) PROVE \E d : Is(n + 1, d)
    OBVIOUS
  <2>1. PICK d : Is(n, d)
    BY <1>2
  <2> DEFINE e == [i \in 0..(n + 1) |-> IF i <= n THEN d[i] ELSE Apply(l[n + 1], d[n])]
  <2>2. Apply(l[n + 1], d[n]) \in Document
    <3>1. l[n + 1] \in Op /\ d[n] \in Document
      BY <2>1
    <3>. QED  BY <3>1, ApplyType
  <2>3. e \in [0..(n + 1) -> Document] /\ e[0] = Blank
    BY <2>1, <2>2
  <2>4. \A i \in 1..(n + 1) : e[i] = Apply(l[i], e[i - 1])
    <3> TAKE i \in 1..(n + 1)
    <3>1. i - 1 \in 0..(n + 1) /\ i - 1 <= n /\ e[i - 1] = d[i - 1]
      OBVIOUS
    <3>2. CASE i <= n
      BY <2>1, <3>1, <3>2
    <3>3. CASE i = n + 1
      BY <3>1, <3>3
    <3>. QED  BY <3>2, <3>3
  <2>. QED  BY <2>3, <2>4
<1>3. Len(l) \in S
  <2> HIDE DEF S
  <2>. QED  BY <1>1, <1>2, SetInduction
<1>4. PICK d : Is(Len(l), d)
  BY <1>3
<1>5. Steps(l, d)
  <2> DEFINE e == [i \in 0..Len(l) |-> IF i = 0 THEN Blank ELSE Apply(l[i], d[i - 1])]
  <2>1. \A i \in 0..Len(l) : d[i] = e[i]
    BY <1>4
  <2>2. d = [i \in 0..Len(l) |-> d[i]]
    BY <1>4
  <2>. QED  BY <2>1, <2>2 DEF Steps
<1>. QED  BY <1>4, <1>5

LEMMA StepsAre ==
    ASSUME NEW l \in Seq(Op), NEW d, Steps(l, d)
    PROVE  d[0] = Blank /\ \A i \in 1..Len(l) : d[i] = Apply(l[i], d[i - 1])
<1> DEFINE e == [i \in 0..Len(l) |-> IF i = 0 THEN Blank ELSE Apply(l[i], d[i - 1])]
<1>1. d = e
  BY DEF Steps
<1>2. e[0] = Blank /\ \A i \in 1..Len(l) : e[i] = Apply(l[i], d[i - 1])
  OBVIOUS
<1> HIDE DEF e
<1>. QED  BY <1>1, <1>2

\* What the first writes spell depends on them alone.
LEMMA StepsSame ==
    ASSUME NEW l \in Seq(Op), NEW d, Steps(l, d), NEW m \in Seq(Op), NEW e, Steps(m, e),
           NEW n \in Nat, n <= Len(l), n <= Len(m), \A i \in 1..n : m[i] = l[i]
    PROVE  d[n] = e[n]
<1> DEFINE S == {i \in Nat : i <= n => d[i] = e[i]}
<1>1. 0 \in S
  BY StepsAre
<1>2. ASSUME NEW i \in Nat, i \in S PROVE i + 1 \in S
  <2> SUFFICES ASSUME i + 1 <= n PROVE d[i + 1] = e[i + 1]
    OBVIOUS
  <2>1. i + 1 \in 1..Len(l) /\ i + 1 \in 1..Len(m) /\ (i + 1) - 1 = i
    OBVIOUS
  <2>2. d[i + 1] = Apply(l[i + 1], d[i]) /\ e[i + 1] = Apply(m[i + 1], e[i])
    BY <2>1, StepsAre
  <2>. QED  BY <1>2, <2>2
<1>3. n \in S
  <2> HIDE DEF S
  <2>. QED  BY <1>1, <1>2, SetInduction
<1>. QED  BY <1>3

LEMMA SpellIs ==
    ASSUME NEW l \in Seq(Op), NEW d, Steps(l, d)
    PROVE  Spell(l) = d[Len(l)]
<1> DEFINE e == CHOOSE x : Steps(l, x)
<1>1. Steps(l, e)
  OBVIOUS
<1>2. Spell(l) = e[Len(l)]
  BY DEF Spell, Steps
<1> HIDE DEF e
<1>. QED  BY <1>1, <1>2, StepsSame

LEMMA SpellType == ASSUME NEW l \in Seq(Op) PROVE Spell(l) \in Document
BY StepsExist, SpellIs

LEMMA SpellNone == Spell(<<>>) = Blank
<1>1. <<>> \in Seq(Op) /\ Len(<<>>) = 0
  OBVIOUS
<1>. QED  BY <1>1, StepsExist, SpellIs, StepsAre

LEMMA SpellAppend ==
    ASSUME NEW l \in Seq(Op), NEW o \in Op
    PROVE  Spell(Append(l, o)) = Apply(o, Spell(l))
<1> DEFINE m == Append(l, o)
<1>1. m \in Seq(Op) /\ Len(m) = Len(l) + 1 /\ m[Len(l) + 1] = o /\ \A i \in 1..Len(l) : m[i] = l[i]
  OBVIOUS
<1> HIDE DEF m
<1>2. PICK d : Steps(l, d)
  BY StepsExist
<1>3. PICK e : Steps(m, e)
  BY <1>1, StepsExist
<1>4. d[Len(l)] = e[Len(l)]
  BY <1>1, <1>2, <1>3, StepsSame
<1>5. Len(l) + 1 \in 1..Len(m) /\ (Len(l) + 1) - 1 = Len(l)
  BY <1>1
<1>6. e[Len(l) + 1] = Apply(m[Len(l) + 1], e[Len(l)])
  BY <1>1, <1>3, <1>5, StepsAre
<1>. QED  BY <1>1, <1>2, <1>3, <1>4, <1>6, SpellIs DEF m

\* The last write of a key decides.
LEMMA LastWrite ==
    ASSUME NEW l \in Seq(Op), "clone" \notin OpKinds, NEW i \in 1..Len(l),
           \A j \in (i + 1)..Len(l) : l[j].key # l[i].key
    PROVE  Spell(l)[l[i].key] = Left(l[i])
<1> DEFINE k == l[i].key
<1>1. l[i] \in Op /\ k \in Keys /\ Len(l) \in Nat
  BY OpKind
<1>2. PICK d : Steps(l, d) /\ d \in [0..Len(l) -> Document]
  BY StepsExist
<1>3. ASSUME NEW j \in 1..Len(l)
      PROVE  d[j][k] = IF k = l[j].key THEN Left(l[j]) ELSE d[j - 1][k]
  <2>1. l[j] \in Op /\ j - 1 \in 0..Len(l) /\ d[j] = Apply(l[j], d[j - 1])
    BY <1>2, StepsAre
  <2>2. d[j - 1] \in Document
    BY <1>2, <2>1
  <2> HIDE DEF k
  <2>. QED  BY <1>1, <2>1, <2>2, ApplyPlain
<1> DEFINE S == {n \in Nat : n \in i..Len(l) => d[n][k] = Left(l[i])}
<1>4. 0 \in S
  OBVIOUS
<1>5. ASSUME NEW n \in Nat, n \in S PROVE n + 1 \in S
  <2> SUFFICES ASSUME n + 1 \in i..Len(l) PROVE d[n + 1][k] = Left(l[i])
    OBVIOUS
  <2>1. n + 1 \in 1..Len(l) /\ (n + 1) - 1 = n
    OBVIOUS
  <2>2. CASE n + 1 = i
    BY <1>3, <2>1, <2>2
  <2>3. CASE n + 1 # i
    <3>1. n \in i..Len(l) /\ n + 1 \in (i + 1)..Len(l)
      BY <2>3
    <3>. QED  BY <1>3, <1>5, <2>1, <3>1
  <2>. QED  BY <2>2, <2>3
<1>6. Len(l) \in S
  <2> HIDE DEF S
  <2>. QED  BY <1>1, <1>4, <1>5, SetInduction
<1>. QED  BY <1>2, <1>6, SpellIs
--------------------------------------------------------------------------------
(* Types, and how far the sender and the peer are with a batch.                   *)

Phases == {"gone", "idle", "applying", "answering"}
Server == [phase : Phases, first : 0..MaxOps, len : 0..MaxBatch, done : 0..MaxBatch]
Within(s, n) == s.done <= s.len /\ s.first + s.len <= n

LEMMA TypesAre ==
    ASSUME Shape
    PROVE  /\ local \in Document /\ doc \in Document /\ log \in Seq(Op) /\ Len(log) \in 0..MaxOps
           /\ writing \in [Writers -> Op \cup {None}] /\ acked \in 0..Len(log)
           /\ conn \in 0..nconn /\ nconn \in 0..MaxConns /\ waiting \in BOOLEAN
           /\ srv \in [Conn -> Server] /\ \A c \in Conn : Within(srv[c], Len(log))
           /\ nrefused \in 0..MaxRefusals /\ nrestart \in 0..MaxRestarts
           /\ starting \in BOOLEAN /\ revived \subseteq Keys
           /\ waiting => conn \in Conn
           /\ MaxOps \in Nat /\ MaxConns \in Nat /\ MaxBatch \in Nat \ {0}
           /\ MaxRefusals \in Nat /\ MaxRestarts \in Nat
<1>1. Len(log) \in Nat /\ Cardinality(InHand) \in Nat
  BY FS_CardinalityType DEF Shape, TypeOK, Bounded
<1>2. Len(log) \in 0..MaxOps
  BY <1>1, LinkConstantsOK DEF Shape, Bounded
<1>3. waiting => conn \in Conn
  BY LinkConstantsOK DEF Shape, TypeOK, Conn
<1>4. srv \in [Conn -> Server] /\ \A c \in Conn : Within(srv[c], Len(log))
  BY DEF Shape, TypeOK, Server, Phases, Within
<1>. QED  BY <1>2, <1>3, <1>4, LinkConstantsOK DEF Shape, TypeOK

LEMMA ShapeIs ==
    ASSUME local \in Document, doc \in Document, log \in Seq(Op),
           writing \in [Writers -> Op \cup {None}], acked \in 0..Len(log),
           conn \in 0..nconn, nconn \in 0..MaxConns, waiting \in BOOLEAN, waiting => conn # 0,
           srv \in [Conn -> Server], \A c \in Conn : Within(srv[c], Len(log)),
           nrefused \in 0..MaxRefusals, nrestart \in 0..MaxRestarts,
           starting \in BOOLEAN, revived \subseteq Keys, Bounded, Asked
    PROVE  Shape
BY DEF Shape, TypeOK, Server, Phases, Within

LEMMA GoneType == Gone \in Server /\ \A n \in Nat : Within(Gone, n)
BY LinkConstantsOK DEF Gone, Server, Phases, Within

LEMMA SenderGoneType ==
    ASSUME Shape, NEW c \in Conn
    PROVE  /\ SenderGone(c) \in [Conn -> Server]
           /\ \A d \in Conn : Within(SenderGone(c)[d], Len(log))
           /\ \A d \in Conn : SenderGone(c)[d] = IF d # c \/ srv[d].phase = "applying" THEN srv[d] ELSE Gone
<1>1. srv \in [Conn -> Server] /\ (\A d \in Conn : Within(srv[d], Len(log))) /\ Len(log) \in Nat
  BY TypesAre
<1>2. \A d \in Conn : SenderGone(c)[d] = IF d # c \/ srv[d].phase = "applying" THEN srv[d] ELSE Gone
  BY <1>1 DEF SenderGone
<1>3. DOMAIN SenderGone(c) = Conn /\ SenderGone(c) = [d \in Conn |-> SenderGone(c)[d]]
  BY <1>1 DEF SenderGone
<1>4. \A d \in Conn : SenderGone(c)[d] \in Server /\ Within(SenderGone(c)[d], Len(log))
  BY <1>1, <1>2, GoneType
<1>. QED  BY <1>2, <1>3, <1>4

\* A step of the goroutine of one connection changes what it has done, and whether it
\* goes on.
LEMMA ServerStep ==
    ASSUME Shape, NEW c \in Conn, NEW p \in Phases, NEW n \in 0..srv[c].len,
           srv' = [srv EXCEPT ![c].done = n, ![c].phase = p],
           UNCHANGED <<log, acked, conn, waiting, writing>>,
           waiting /\ c = conn => p \in {"applying", "answering"}
    PROVE  /\ srv' \in [Conn -> Server] /\ \A d \in Conn : Within(srv'[d], Len(log))
           /\ \A d \in Conn \ {c} : srv'[d] = srv[d]
           /\ srv'[c].phase = p /\ srv'[c].done = n
           /\ UNCHANGED <<srv[c].first, srv[c].len>>
           /\ Asked' /\ Bounded'
<1>1. srv \in [Conn -> Server] /\ (\A d \in Conn : Within(srv[d], Len(log))) /\ Len(log) \in Nat
      /\ (waiting => conn \in Conn)
  BY TypesAre
<1>2. srv[c] \in Server /\ srv[c].len \in 0..MaxBatch /\ n \in 0..MaxBatch /\ srv[c].first \in Nat
  BY <1>1, LinkConstantsOK DEF Server
<1>3. /\ DOMAIN srv' = Conn /\ \A d \in Conn \ {c} : srv'[d] = srv[d]
      /\ srv'[c] = [srv[c] EXCEPT !.done = n, !.phase = p]
  BY <1>1
<1>4. /\ srv'[c] \in Server /\ srv'[c].phase = p /\ srv'[c].done = n
      /\ UNCHANGED <<srv[c].first, srv[c].len>>
  BY <1>2, <1>3 DEF Server
<1>5. srv' = [d \in Conn |-> srv'[d]]
  BY <1>1
<1>6. srv' \in [Conn -> Server]
  BY <1>1, <1>3, <1>4, <1>5
<1>7. \A d \in Conn : Within(srv'[d], Len(log))
  BY <1>1, <1>2, <1>3, <1>4 DEF Within
<1>8. Asked'
  BY <1>1, <1>3, <1>4 DEF Asked, Shape
<1>9. Bounded'
  BY DEF Bounded, InHand, Shape
<1>. QED  BY <1>3, <1>4, <1>6, <1>7, <1>8, <1>9

LEMMA ShapeWrites ==
    ASSUME Shape, NEW w \in Writers, WriteLocally(w) \/ QueueWrite(w)
    PROVE  Shape'
<1>0. UNCHANGED <<sendVars, doc, srv, nrefused, nrestart>>
  BY DEF WriteLocally, QueueWrite
<1>1. /\ log \in Seq(Op) /\ Len(log) \in Nat /\ local \in Document
      /\ writing \in [Writers -> Op \cup {None}]
      /\ IsFiniteSet(InHand) /\ Cardinality(InHand) \in Nat /\ MaxOps \in Nat
  BY TypesAre, FS_CardinalityType DEF Shape, Bounded
<1>2. CASE WriteLocally(w)
  <2>1. PICK o \in Op : /\ writing' = [writing EXCEPT ![w] = o] /\ local' = Apply(o, local)
                        /\ revived' = revived \ Overwritten(o)
    BY <1>2 DEF WriteLocally
  <2>2. UNCHANGED <<log, starting>> /\ w \notin InHand /\ Len(log) + Cardinality(InHand) < MaxOps
    BY <1>2 DEF WriteLocally, InHand
  <2>3. InHand' = InHand \cup {w}
    BY <1>1, <2>1, OpKind DEF InHand
  <2>4. IsFiniteSet(InHand') /\ Cardinality(InHand') = Cardinality(InHand) + 1
    BY <1>1, <2>2, <2>3, FS_AddElement
  <2>5. Bounded'
    BY <1>1, <2>2, <2>4 DEF Bounded
  <2>6. local' \in Document /\ writing' \in [Writers -> Op \cup {None}] /\ revived' \subseteq Keys
    BY <1>1, <2>1, ApplyType, TypesAre
  <2>. QED  BY <1>0, <2>2, <2>5, <2>6 DEF Shape, TypeOK, Asked, sendVars
<1>3. CASE QueueWrite(w)
  <2>1. /\ w \in InHand /\ log' = Append(log, writing[w]) /\ UNCHANGED <<local, starting, revived>>
        /\ writing' = [writing EXCEPT ![w] = None] /\ writing[w] \in Op
    BY <1>1, <1>3 DEF QueueWrite, InHand
  <2>2. InHand' = InHand \ {w}
    BY <1>1, <2>1 DEF InHand
  <2>3. IsFiniteSet(InHand') /\ Cardinality(InHand') = Cardinality(InHand) - 1
    BY <1>1, <2>1, <2>2, FS_RemoveElement
  <2>4. log' \in Seq(Op) /\ Len(log') = Len(log) + 1
    BY <1>1, <2>1
  <2>5. Bounded'
    BY <1>1, <2>3, <2>4 DEF Bounded, Shape
  <2>6. writing' \in [Writers -> Op \cup {None}]
    BY <1>1, <2>1
  <2>7. srv \in [Conn -> Server] /\ \A c \in Conn : Within(srv[c], Len(log'))
    BY <1>1, <2>4, TypesAre, SMTT(30) DEF Within, Server
  <2>8. acked \in 0..Len(log')
    BY <1>1, <2>4, TypesAre
  <2>. QED  BY <1>0, <2>1, <2>4, <2>5, <2>6, <2>7, <2>8
            DEF Shape, TypeOK, Asked, sendVars, Server, Phases, Within
<1>. QED  BY <1>2, <1>3

\* What is sent is a batch from the start of the queue.
LEMMA SendIs ==
    ASSUME Shape, Send
    PROVE  /\ ~waiting /\ waiting' /\ UNCHANGED <<localVars, acked, doc, nrefused, nrestart>>
           /\ conn' \in Conn /\ conn' <= nconn' /\ nconn' \in 0..MaxConns
           /\ srv' \in [Conn -> Server] /\ \A c \in Conn : Within(srv'[c], Len(log))
           /\ \A c \in Conn \ {conn'} : srv'[c] = srv[c]
           /\ srv'[conn'].phase = "applying" /\ srv'[conn'].first = acked
           /\ srv'[conn'].done = 0
<1>1. /\ ~waiting /\ UNCHANGED <<localVars, acked, doc, nrefused, nrestart>>
      /\ IF conn # 0 THEN SendOn(conn) /\ UNCHANGED nconn
         ELSE nconn < MaxConns /\ nconn' = nconn + 1 /\ SendOn(nconn')
  BY DEF Send
<1>2. /\ conn \in 0..nconn /\ nconn \in 0..MaxConns /\ MaxConns \in Nat /\ MaxBatch \in Nat \ {0}
      /\ srv \in [Conn -> Server] /\ (\A c \in Conn : Within(srv[c], Len(log)))
      /\ acked \in 0..Len(log) /\ Len(log) \in 0..MaxOps /\ MaxOps \in Nat
  BY TypesAre
<1>3. PICK c \in Conn : SendOn(c) /\ c <= nconn' /\ nconn' \in 0..MaxConns
  BY <1>1, <1>2 DEF Conn
<1>4. PICK n \in 1..MaxBatch :
          /\ acked + n <= Len(log) /\ conn' = c /\ waiting' = TRUE
          /\ srv' = [srv EXCEPT ![c] =
                         [phase |-> "applying", first |-> acked, len |-> n, done |-> 0]]
  BY <1>3 DEF SendOn
<1> DEFINE s == [phase |-> "applying", first |-> acked, len |-> n, done |-> 0]
<1>5. /\ s \in Server /\ Within(s, Len(log)) /\ s.phase = "applying" /\ s.first = acked
      /\ s.done = 0
  BY <1>2, <1>4 DEF Server, Phases, Within
<1> HIDE DEF s
<1>6. srv' = [srv EXCEPT ![c] = s]
  BY <1>4 DEF s
<1>7. srv' \in [Conn -> Server] /\ srv'[c] = s /\ \A d \in Conn \ {c} : srv'[d] = srv[d]
  BY <1>2, <1>5, <1>6
<1>8. \A d \in Conn : Within(srv'[d], Len(log))
  BY <1>2, <1>5, <1>7
<1>. QED  BY <1>1, <1>3, <1>4, <1>5, <1>7, <1>8

LEMMA ShapeSends ==
    ASSUME Shape, Send \/ Receive \/ LoseAnswer \/ PeerDrops \/ SenderRestarts \/ PeerRestarts
    PROVE  Shape'
<1>0. /\ local \in Document /\ doc \in Document /\ log \in Seq(Op) /\ Len(log) \in 0..MaxOps
      /\ writing \in [Writers -> Op \cup {None}] /\ acked \in 0..Len(log)
      /\ conn \in 0..nconn /\ nconn \in 0..MaxConns /\ waiting \in BOOLEAN
      /\ srv \in [Conn -> Server] /\ (\A c \in Conn : Within(srv[c], Len(log)))
      /\ nrefused \in 0..MaxRefusals /\ nrestart \in 0..MaxRestarts /\ MaxRestarts \in Nat
      /\ starting \in BOOLEAN /\ revived \subseteq Keys
      /\ MaxOps \in Nat /\ MaxBatch \in Nat /\ Bounded /\ Asked
      /\ (waiting => conn \in Conn)
  BY TypesAre DEF Shape
<1>1. ASSUME UNCHANGED <<writing, log>> PROVE Bounded'
  BY <1>0, <1>1 DEF Bounded, InHand
<1>2. CASE Send
  <2>1. Asked' /\ conn' # 0
    BY <1>2, SendIs DEF Asked, Conn
  <2>2. conn' \in 0..nconn' /\ Bounded'
    BY <1>1, <1>2, SendIs DEF localVars, Conn
  <2>. QED  BY <1>0, <1>2, <2>1, <2>2, SendIs DEF localVars, Shape, TypeOK, Server, Phases, Within
<1>3. CASE Receive
  <2>1. /\ waiting /\ acked' = acked + srv[conn].done /\ waiting' = FALSE
        /\ srv' = [srv EXCEPT ![conn].phase = "idle"]
        /\ UNCHANGED <<localVars, conn, nconn, doc, nrefused, nrestart>>
    BY <1>3 DEF Receive, TakenBy
  <2>2. conn \in Conn /\ srv[conn].first = acked
    BY <1>0, <2>1 DEF Asked
  <2>3. acked' \in 0..Len(log)
    <3>1. srv[conn] \in Server /\ Within(srv[conn], Len(log))
      BY <1>0, <2>2
    <3>. QED  BY <1>0, <2>1, <2>2, <3>1 DEF Within, Server
  <2>4. srv' \in [Conn -> Server] /\ \A c \in Conn : Within(srv'[c], Len(log))
    BY <1>0, <2>1, <2>2 DEF Server, Phases, Within
  <2>5. Bounded' /\ Asked'
    BY <1>1, <2>1 DEF localVars, Asked
  <2>. QED  BY <1>0, <2>1, <2>3, <2>4, <2>5 DEF localVars, Shape, TypeOK, Server, Phases, Within
<1>4. CASE LoseAnswer
  <2>1. /\ conn' = 0 /\ waiting' = FALSE /\ srv' = SenderGone(conn) /\ waiting
        /\ UNCHANGED <<localVars, acked, nconn, doc, nrefused, nrestart>>
    BY <1>4 DEF LoseAnswer, GiveUp
  <2>2. srv' \in [Conn -> Server] /\ \A c \in Conn : Within(srv'[c], Len(log))
    BY <1>0, <2>1, SenderGoneType
  <2>3. Bounded' /\ Asked'
    BY <1>1, <2>1 DEF localVars, Asked
  <2>4. conn' \in 0..nconn
    BY <1>0, <2>1
  <2>. QED  BY <1>0, <2>1, <2>2, <2>3, <2>4 DEF localVars, Shape, TypeOK, Server, Phases, Within
<1>5. CASE PeerDrops
  <2>1. /\ conn' = 0 /\ waiting' = FALSE /\ srv' = [srv EXCEPT ![conn] = Gone] /\ waiting
        /\ UNCHANGED <<localVars, acked, nconn, doc, nrefused, nrestart>>
    BY <1>5 DEF PeerDrops, GiveUp
  <2>2. srv' \in [Conn -> Server] /\ \A c \in Conn : Within(srv'[c], Len(log))
    BY <1>0, <2>1, GoneType
  <2>3. Bounded' /\ Asked'
    BY <1>1, <2>1 DEF localVars, Asked
  <2>4. conn' \in 0..nconn
    BY <1>0, <2>1
  <2>. QED  BY <1>0, <2>1, <2>2, <2>3, <2>4 DEF localVars, Shape, TypeOK, Server, Phases, Within
<1>6. CASE SenderRestarts
  <2>1. /\ conn' = 0 /\ waiting' = FALSE /\ acked' \in 0..acked /\ nrestart' = nrestart + 1
        /\ nrestart < MaxRestarts /\ writing' = [w \in Writers |-> None]
        /\ srv' = (IF conn = 0 THEN srv ELSE SenderGone(conn))
        /\ starting' = TRUE /\ UNCHANGED <<local, log, revived, nconn, doc, nrefused>>
    BY <1>6 DEF SenderRestarts
  <2>2. srv' \in [Conn -> Server] /\ \A c \in Conn : Within(srv'[c], Len(log))
    <3>1. conn # 0 => conn \in Conn
      BY <1>0, LinkConstantsOK DEF Conn
    <3>. QED  BY <1>0, <2>1, <3>1, SenderGoneType
  <2>3. Bounded' /\ Asked'
    <3>1. InHand' = {}
      BY <2>1 DEF InHand
    <3>2. IsFiniteSet(InHand') /\ Cardinality(InHand') = 0
      BY <3>1, FS_EmptySet
    <3>. QED  BY <1>0, <2>1, <3>2 DEF Bounded, Asked
  <2>4. nrestart' \in 0..MaxRestarts /\ acked' \in 0..Len(log) /\ conn' \in 0..nconn
    BY <1>0, <2>1
  <2>5. writing' \in [Writers -> Op \cup {None}]
    BY <2>1
  <2>. QED  BY <1>0, <2>1, <2>2, <2>3, <2>4, <2>5 DEF Shape, TypeOK, Server, Phases, Within
<1>7. CASE PeerRestarts
  <2>1. /\ conn' = 0 /\ waiting' = FALSE /\ nrestart' = nrestart + 1 /\ nrestart < MaxRestarts
        /\ (doc' = doc \/ doc' = local) /\ srv' = [c \in Conn |-> Gone]
        /\ UNCHANGED <<localVars, acked, nconn, nrefused>>
    BY <1>7 DEF PeerRestarts
  <2>2. srv' \in [Conn -> Server] /\ \A c \in Conn : Within(srv'[c], Len(log))
    BY <1>0, <2>1, GoneType
  <2>3. Bounded' /\ Asked'
    BY <1>1, <2>1 DEF localVars, Asked
  <2>4. nrestart' \in 0..MaxRestarts /\ doc' \in Document /\ conn' \in 0..nconn
    BY <1>0, <2>1
  <2>. QED  BY <1>0, <2>1, <2>2, <2>3, <2>4 DEF localVars, Shape, TypeOK, Server, Phases, Within
<1>. QED  BY <1>2, <1>3, <1>4, <1>5, <1>6, <1>7

\* What a goroutine of the peer does: it applies the next write, or stops.
LEMMA PeerIs ==
    ASSUME Shape, NEW c \in Conn, Peer(c)
    PROVE  /\ srv[c].phase = "applying" /\ UNCHANGED <<localVars, sendVars, nrestart>>
           /\ nrefused' \in 0..MaxRefusals
           /\ srv' \in [Conn -> Server] /\ \A d \in Conn : Within(srv'[d], Len(log))
           /\ \A d \in Conn \ {c} : srv'[d] = srv[d]
           /\ UNCHANGED <<srv[c].first, srv[c].len>>
           /\ srv'[c].phase = "applying" \/ srv'[c].phase = Answering(c)
           /\ Asked' /\ Bounded'
           /\ \/ doc' = doc /\ srv'[c].done = srv[c].done
              \/ /\ srv[c].first + srv[c].done + 1 \in 1..Len(log)
                 /\ doc' = Apply(log[srv[c].first + srv[c].done + 1], doc)
                 /\ srv'[c].done = srv[c].done + 1
<1>1. /\ srv \in [Conn -> Server] /\ Within(srv[c], Len(log)) /\ Len(log) \in Nat
      /\ nrefused \in 0..MaxRefusals /\ MaxRefusals \in Nat
  BY TypesAre
<1>2. srv[c] \in Server /\ srv[c].len \in Nat /\ srv[c].done \in 0..srv[c].len /\ srv[c].first \in Nat
  BY <1>1, LinkConstantsOK DEF Server, Within
<1>3. Answering(c) \in Phases /\ (c = conn => Answering(c) = "answering")
  BY DEF Answering, Phases
<1>4. ASSUME NEW p \in {"applying", Answering(c)}, NEW n \in 0..srv[c].len,
             srv' = [srv EXCEPT ![c].done = n, ![c].phase = p],
             UNCHANGED <<localVars, sendVars>>
      PROVE  /\ srv' \in [Conn -> Server] /\ \A d \in Conn : Within(srv'[d], Len(log))
             /\ \A d \in Conn \ {c} : srv'[d] = srv[d]
             /\ srv'[c].phase = p /\ srv'[c].done = n
             /\ UNCHANGED <<srv[c].first, srv[c].len>>
             /\ Asked' /\ Bounded'
  <2>1. p \in Phases /\ (c = conn => p \in {"applying", "answering"})
    BY <1>3 DEF Phases
  <2>2. UNCHANGED <<log, acked, conn, waiting, writing>>
    BY <1>4 DEF localVars, sendVars
  <2>. QED  BY <1>4, <2>1, <2>2, ServerStep
<1>5. CASE ApplyNext(c)
  <2> DEFINE p == IF srv[c].done + 1 = srv[c].len THEN Answering(c) ELSE "applying"
  <2>1. /\ srv[c].phase = "applying" /\ srv[c].done < srv[c].len
        /\ doc' = Apply(log[srv[c].first + srv[c].done + 1], doc)
        /\ UNCHANGED <<localVars, sendVars, nrefused, nrestart>>
        /\ srv' = [srv EXCEPT ![c].done = srv[c].done + 1, ![c].phase = p]
    BY <1>1, <1>5 DEF ApplyNext
  <2>2. srv[c].done + 1 \in 0..srv[c].len /\ p \in {"applying", Answering(c)}
        /\ srv[c].first + srv[c].done + 1 \in 1..Len(log)
    BY <1>1, <1>2, <2>1, SMTT(30) DEF Within
  <2> HIDE DEF p
  <2>3. /\ srv' \in [Conn -> Server] /\ \A d \in Conn : Within(srv'[d], Len(log))
        /\ \A d \in Conn \ {c} : srv'[d] = srv[d]
        /\ srv'[c].phase = p /\ srv'[c].done = srv[c].done + 1
        /\ UNCHANGED <<srv[c].first, srv[c].len>>
        /\ Asked' /\ Bounded'
    BY <1>4, <2>1, <2>2
  <2>. QED  BY <1>1, <2>1, <2>2, <2>3
<1>6. CASE BudgetSpent(c) \/ Refused(c)
  <2>1. /\ srv[c].phase = "applying" /\ nrefused' \in 0..MaxRefusals
        /\ UNCHANGED <<localVars, sendVars, doc, nrestart>>
    BY <1>1, <1>6 DEF BudgetSpent, Refused
  <2>2. srv' = [srv EXCEPT ![c].done = srv[c].done, ![c].phase = Answering(c)]
    BY <1>1, <1>2, <1>6 DEF BudgetSpent, Refused, StopsAt, Server
  <2>3. /\ srv' \in [Conn -> Server] /\ \A d \in Conn : Within(srv'[d], Len(log))
        /\ \A d \in Conn \ {c} : srv'[d] = srv[d]
        /\ srv'[c].phase = Answering(c) /\ srv'[c].done = srv[c].done
        /\ UNCHANGED <<srv[c].first, srv[c].len>>
        /\ Asked' /\ Bounded'
    BY <1>2, <1>4, <2>1, <2>2
  <2>. QED  BY <2>1, <2>3
<1>. QED  BY <1>5, <1>6 DEF Peer

LEMMA ShapeNext == ASSUME Shape, [Next]_vars PROVE Shape'
<1>1. ASSUME NEW c \in Conn, Peer(c) PROVE Shape'
  <2>1. doc' \in Document
    <3>1. ASSUME NEW i \in 1..Len(log) PROVE Apply(log[i], doc) \in Document
      BY TypesAre, ApplyType
    <3>. QED  BY <1>1, <3>1, PeerIs, TypesAre
  <2>. QED  BY <1>1, <2>1, PeerIs, TypesAre
            DEF localVars, sendVars, Shape, TypeOK, Server, Phases, Within
<1>2. CASE UNCHANGED vars
  BY <1>2 DEF vars, localVars, sendVars, Shape, TypeOK, Bounded, InHand, Asked
<1>3. CASE Restore
  <2>1. starting' \in BOOLEAN /\ revived' \subseteq Keys /\ local' \in Document
    BY <1>3, TypesAre DEF Restore
  <2>. QED  BY <1>3, <2>1 DEF Restore, sendVars, Shape, TypeOK, Bounded, InHand, Asked
<1>. QED  BY <1>1, <1>2, <1>3, ShapeWrites, ShapeSends DEF Next

LEMMA ShapeFirst == Init => Shape
<1> SUFFICES ASSUME Init PROVE Shape
  OBVIOUS
<1>1. InHand = {}
  BY DEF Init, InHand
<1>2. Bounded
  <2>1. Len(log) = 0
    BY DEF Init
  <2>. QED  BY <1>1, <2>1, FS_EmptySet, LinkConstantsOK DEF Bounded
<1>3. srv \in [Conn -> Server] /\ \A c \in Conn : Within(srv[c], 0)
  BY GoneType DEF Init
<1>4. local \in Document /\ doc \in Document /\ log \in Seq(Op) /\ Len(log) = 0
  BY BlankType DEF Init
<1>5. /\ acked \in 0..Len(log) /\ conn \in 0..nconn /\ nconn \in 0..MaxConns
      /\ nrefused \in 0..MaxRefusals /\ nrestart \in 0..MaxRestarts
  BY <1>4, LinkConstantsOK DEF Init
<1>6. waiting = FALSE /\ starting = FALSE /\ revived = {} /\ writing \in [Writers -> Op \cup {None}]
  BY DEF Init
<1>. QED  BY <1>2, <1>3, <1>4, <1>5, <1>6, ShapeIs DEF Asked

\* Every reachable state of the link is well typed: an answer never acknowledges more
\* than is queued, nor the peer takes more than it was sent (run, serveTCP).
THEOREM TypeCorrect == Spec => []TypeOK
<1>1. Spec => []Shape
  BY ShapeFirst, ShapeNext, PTL DEF Spec
<1>. QED  BY <1>1, PTL DEF Shape

--------------------------------------------------------------------------------
(* The sender's document.                                                         *)

LEMMA OwnNext == ASSUME Prompt, InOrder, Shape, Own, [Next]_vars PROVE Own'
<1>0. /\ log \in Seq(Op) /\ writing \in [Writers -> Op \cup {None}]
      /\ local \in Document /\ Queued = Spell(log) /\ Queued \in Document
  BY TypesAre, SpellType DEF Queued
<1>1. ASSUME UNCHANGED <<local, writing, log, revived>> PROVE Own'
  BY <1>1 DEF Own, Kept, InHand, Queued
<1>2. ASSUME NEW w \in Writers, WriteLocally(w) PROVE Own'
  <2>1. PICK o \in Op : /\ writing' = [writing EXCEPT ![w] = o] /\ local' = Apply(o, local)
                        /\ revived' = revived \ Overwritten(o)
    BY <1>2 DEF WriteLocally
  <2>2. writing[w] = None /\ log' = log /\ InHand = {}
    BY <1>2 DEF WriteLocally, InHand, InOrder
  <2>3. InHand' = {w} /\ writing'[w] = o
    BY <1>0, <2>1, <2>2, OpKind DEF InHand, InOrder
  <2>4. Queued' = Queued /\ \A k \in Kept : local[k] = Queued[k]
    BY <2>2 DEF Queued, Own
  <2>5. \A k \in Keys : /\ Apply(o, local)[k] = IF k = o.key THEN Left(o) ELSE local[k]
                        /\ Apply(o, Queued)[k] = IF k = o.key THEN Left(o) ELSE Queued[k]
    BY <1>0, <2>1, ApplyPlain DEF Prompt
  <2>6. \A k \in Kept' : k \in Keys /\ (k = o.key \/ k \in Kept)
    BY <2>1 DEF Kept, Overwritten
  <2>7. \A k \in Kept' : local'[k] = Apply(o, Queued)[k]
    BY <2>1, <2>4, <2>5, <2>6
  <2>. QED  BY <2>3, <2>4, <2>7 DEF Own
<1>3. ASSUME NEW w \in Writers, QueueWrite(w) PROVE Own'
  <2>1. /\ w \in InHand /\ log' = Append(log, writing[w]) /\ UNCHANGED <<local, revived>>
        /\ writing' = [writing EXCEPT ![w] = None] /\ writing[w] \in Op
    BY <1>0, <1>3 DEF QueueWrite, InHand
  <2>2. InHand' = {}
    BY <1>0, <2>1 DEF InHand, InOrder
  <2>3. Queued' = Apply(writing[w], Queued)
    BY <1>0, <2>1, SpellAppend DEF Queued
  <2>. QED  BY <2>1, <2>2, <2>3 DEF Own, Kept
<1>4. CASE SenderRestarts
  <2>1. UNCHANGED <<local, log, revived>> /\ writing' = [w \in Writers |-> None]
        /\ \A w \in Writers : writing[w] = None
    BY <1>4 DEF SenderRestarts, InOrder
  <2>. QED  BY <2>1 DEF Own, Kept, InHand, Queued
<1>5. CASE Send \/ Receive \/ LoseAnswer \/ PeerDrops \/ PeerRestarts \/ UNCHANGED vars
  BY <1>1, <1>5 DEF Send, Receive, LoseAnswer, PeerDrops, PeerRestarts, vars, localVars
<1>6. ASSUME NEW c \in Conn, Peer(c) PROVE Own'
  BY <1>1, <1>6 DEF Peer, ApplyNext, BudgetSpent, Refused, localVars
<1>7. CASE Restore
  <2>1. CASE UNCHANGED <<local, revived>>
    BY <1>1, <1>7, <2>1 DEF Restore
  <2>2. CASE ~UNCHANGED <<local, revived>>
    <3>1. /\ local = Blank /\ local' = doc /\ revived' = revived \cup {k \in Keys : doc[k] # None}
          /\ UNCHANGED <<writing, log>>
      BY <1>7, <2>2 DEF Restore
    <3>2. \A k \in Kept' : k \in Kept /\ local'[k] = local[k]
      BY <3>1 DEF Kept, Blank
    <3>. QED  BY <3>1, <3>2 DEF Own, InHand, Queued
  <2>. QED  BY <2>1, <2>2
<1>. QED  BY <1>2, <1>3, <1>4, <1>5, <1>6, <1>7 DEF Next

LEMMA OwnFirst == Init => Own
BY SpellNone DEF Init, Own, Kept, InHand, Queued

--------------------------------------------------------------------------------
(* The peer's document.                                                           *)

LEMMA AloneNext == ASSUME Prompt, Shape, Alone, [Next]_vars PROVE Alone'
<1>0. srv \in [Conn -> Server] /\ (waiting => conn \in Conn)
  BY TypesAre
<1>1. CASE Send
  BY <1>1, SendIs DEF Alone
<1>2. CASE Receive
  BY <1>0, <1>2 DEF Receive, Alone, Server, Phases
<1>3. CASE LoseAnswer
  <2>1. /\ srv[conn].phase # "applying" /\ conn \in Conn
        /\ srv' = SenderGone(conn)
    BY <1>0, <1>3 DEF LoseAnswer, Prompt
  <2>2. \A d \in Conn : srv'[d].phase # "applying"
    BY <2>1, SenderGoneType DEF Alone, Gone
  <2>. QED  BY <2>2 DEF Alone
<1>4. CASE PeerDrops
  BY <1>0, <1>4 DEF PeerDrops, Alone, Gone
<1>5. CASE SenderRestarts
  <2>1. conn # 0 => conn \in Conn /\ srv[conn].phase # "applying"
    BY <1>0, <1>5, TypesAre DEF SenderRestarts, Prompt, Conn
  <2>2. srv' = IF conn = 0 THEN srv ELSE SenderGone(conn)
    BY <1>5 DEF SenderRestarts
  <2>3. \A d \in Conn : srv[d].phase # "applying"
    BY <2>1 DEF Alone, Conn
  <2>4. \A d \in Conn : srv'[d].phase # "applying"
    BY <2>1, <2>2, <2>3, SenderGoneType DEF Gone
  <2>. QED  BY <2>4 DEF Alone
<1>6. CASE PeerRestarts
  BY <1>6 DEF PeerRestarts, Alone, Gone
<1>7. ASSUME NEW c \in Conn, Peer(c) PROVE Alone'
  BY <1>7, PeerIs DEF Alone, sendVars, Answering
<1>8. ASSUME NEW w \in Writers, WriteLocally(w) \/ QueueWrite(w) PROVE Alone'
  BY <1>8 DEF WriteLocally, QueueWrite, sendVars, Alone
<1>9. CASE Restore \/ UNCHANGED vars
  BY <1>9 DEF Restore, vars, sendVars, Alone
<1>. QED  BY <1>1, <1>2, <1>3, <1>4, <1>5, <1>6, <1>7, <1>8, <1>9 DEF Next

\* A document that reaches the queue from p does from any write before it.
LEMMA ReachesEarlier ==
    ASSUME NEW p \in Nat, NEW q \in 0..p, Reaches(p), Len(log) \in Nat
    PROVE  Reaches(q)
<1>1. (p + 1)..Len(log) \subseteq (q + 1)..Len(log)
  OBVIOUS
<1>. QED  BY <1>1 DEF Reaches, Coming

LEMMA PositionIs ==
    ASSUME Shape
    PROVE  Position \in Nat /\ acked \in 0..Position /\ Position <= Len(log)
<1>1. /\ acked \in 0..Len(log) /\ Len(log) \in Nat /\ (waiting => conn \in Conn)
      /\ srv \in [Conn -> Server] /\ (\A c \in Conn : Within(srv[c], Len(log)))
      /\ waiting \in BOOLEAN
  BY TypesAre
<1>2. CASE waiting
  <2>1. srv[conn].done \in Nat /\ srv[conn].len \in Nat /\ srv[conn].first = acked
        /\ Within(srv[conn], Len(log))
    BY <1>1, <1>2, LinkConstantsOK DEF Server, Shape, Asked
  <2>. QED  BY <1>1, <1>2, <2>1 DEF Position, Within
<1>3. CASE ~waiting
  BY <1>1, <1>3 DEF Position
<1>. QED  BY <1>2, <1>3

LEMMA ReachesWrites ==
    ASSUME Prompt, Shape, Shape', NEW p \in 0..Len(log), Reaches(p),
           NEW w \in Writers, WriteLocally(w) \/ QueueWrite(w)
    PROVE  Reaches(p)'
<1>0. /\ log \in Seq(Op) /\ writing \in [Writers -> Op \cup {None}] /\ Queued = Spell(log)
      /\ doc' = doc /\ Len(log) \in Nat
  BY TypesAre DEF Queued, WriteLocally, QueueWrite
<1>1. CASE WriteLocally(w)
  <2>1. PICK o \in Op : /\ writing' = [writing EXCEPT ![w] = o]
                        /\ revived' = revived \ Overwritten(o)
    BY <1>1 DEF WriteLocally
  <2>2. log' = log /\ writing[w] = None /\ Queued' = Queued
    BY <1>1 DEF WriteLocally, Queued
  <2>3. \A v \in InHand : v \in InHand' /\ writing'[v] = writing[v]
    BY <1>0, <2>1, <2>2 DEF InHand
  <2>4. \A k \in Keys : Coming(k, p) => Coming(k, p)'
    BY <2>2, <2>3 DEF Coming
  <2>5. w \in InHand' /\ writing'[w] = o
    BY <1>0, <2>1, OpKind DEF InHand
  <2>6. \A k \in Kept' : k \in Kept \/ Coming(k, p)'
    BY <2>1, <2>5 DEF Kept, Overwritten, Coming
  <2>7. Kept' \subseteq Keys
    BY DEF Kept
  <2>. QED  BY <1>0, <2>2, <2>4, <2>6, <2>7 DEF Reaches
<1>2. CASE QueueWrite(w)
  <2> DEFINE o == writing[w]
  <2>1. o \in Op /\ log' = Append(log, o) /\ writing' = [writing EXCEPT ![w] = None]
    BY <1>0, <1>2 DEF QueueWrite
  <2>2. /\ Len(log') = Len(log) + 1 /\ log'[Len(log) + 1] = o
        /\ \A i \in 1..Len(log) : log'[i] = log[i]
    BY <1>0, <2>1
  <2>3. \A v \in InHand \ {w} : v \in InHand' /\ writing'[v] = writing[v]
    BY <1>0, <2>1 DEF InHand
  <2>4. Queued' = Apply(o, Queued) /\ Queued \in Document
    BY <1>0, <2>1, SpellAppend, SpellType DEF Queued
  <2> HIDE DEF o
  <2>5. \A k \in Keys : k # o.key => Queued'[k] = Queued[k]
    BY <2>1, <2>4, ApplyPlain DEF Prompt
  <2>6. Len(log) + 1 \in (p + 1)..Len(log') /\ \A i \in (p + 1)..Len(log) : i \in 1..Len(log) /\ i \in (p + 1)..Len(log')
    BY <1>0, <2>2
  <2>7. ASSUME NEW k \in Kept PROVE doc'[k] = Queued'[k] \/ Coming(k, p)'
    <3>0. k \in Keys
      BY DEF Kept
    <3>1. CASE k = o.key
      BY <2>2, <2>6, <3>1 DEF Coming
    <3>2. CASE k # o.key
      <4>1. Coming(k, p) => Coming(k, p)'
        <5>1. ASSUME NEW i \in (p + 1)..Len(log), log[i].key = k PROVE Coming(k, p)'
          BY <2>2, <2>6, <5>1 DEF Coming
        <5>2. ASSUME NEW v \in InHand, writing[v].key = k PROVE Coming(k, p)'
          <6>1. v # w
            BY <3>2, <5>2 DEF o
          <6>. QED  BY <2>3, <5>2, <6>1 DEF Coming
        <5>. QED  BY <5>1, <5>2 DEF Coming
      <4>. QED  BY <1>0, <2>5, <3>0, <3>2, <4>1 DEF Reaches
    <3>. QED  BY <3>1, <3>2
  <2>8. Kept' = Kept
    BY <1>2 DEF QueueWrite, Kept
  <2>. QED  BY <2>7, <2>8 DEF Reaches
<1>. QED  BY <1>1, <1>2

\* The next write of a batch is applied.
LEMMA ReachesNext ==
    ASSUME Prompt, Shape, NEW p \in Nat, p + 1 \in 1..Len(log), Reaches(p),
           doc' = Apply(log[p + 1], doc), UNCHANGED <<log, writing, revived>>
    PROVE  Reaches(p + 1)'
<1>0. log \in Seq(Op) /\ doc \in Document /\ Len(log) \in Nat /\ Queued' = Queued
  BY TypesAre DEF Queued
<1> DEFINE o == log[p + 1]
<1>1. o \in Op
  BY <1>0
<1>2. \A k \in Keys : doc'[k] = IF k = o.key THEN Left(o) ELSE doc[k]
  BY <1>0, <1>1, ApplyPlain DEF Prompt
<1>3. ASSUME NEW k \in Kept PROVE doc'[k] = Queued'[k] \/ Coming(k, p + 1)
  <2>0. k \in Keys
    BY DEF Kept
  <2>1. CASE k = o.key
    <3>1. SUFFICES ASSUME ~Coming(k, p + 1) PROVE doc'[k] = Queued'[k]
      OBVIOUS
    <3>2. \A j \in ((p + 1) + 1)..Len(log) : log[j].key # k
      BY <3>1 DEF Coming
    <3>3. Spell(log)[k] = Left(o)
      BY <1>0, <2>1, <3>2, LastWrite DEF Prompt
    <3>. QED  BY <1>0, <1>2, <2>0, <2>1, <3>3 DEF Queued
  <2>2. CASE k # o.key
    <3>1. \A i \in (p + 1)..Len(log) : i = p + 1 \/ i \in ((p + 1) + 1)..Len(log)
      BY <1>0
    <3>2. Coming(k, p) => Coming(k, p + 1)
      BY <2>2, <3>1 DEF Coming
    <3>3. doc'[k] = doc[k]
      BY <1>2, <2>0, <2>2
    <3>. QED  BY <1>0, <3>2, <3>3 DEF Reaches
  <2>. QED  BY <2>1, <2>2
<1>4. Kept' = Kept /\ \A k \in Keys : Coming(k, p + 1)' = Coming(k, p + 1)
  BY DEF Kept, Coming, InHand
<1>5. Kept \subseteq Keys
  BY DEF Kept
<1>. QED  BY <1>3, <1>4, <1>5 DEF Reaches

LEMMA ReachesStep ==
    ASSUME Prompt, MaxRestarts = 0 \/ (InOrder /\ Own), IInv, Shape', [Next]_vars
    PROVE  Reaches(Position)'
<1>0. /\ Shape /\ Alone /\ Reaches(Position)
      /\ Position \in Nat /\ acked \in 0..Position /\ Position <= Len(log) /\ Len(log) \in Nat
      /\ nrestart \in 0..MaxRestarts /\ (waiting => conn \in Conn)
      /\ srv \in [Conn -> Server]
  BY PositionIs, TypesAre DEF IInv
<1>1. ASSUME UNCHANGED <<log, writing, doc>>, Kept' \subseteq Kept,
             NEW q \in 0..Position, Position' = q
      PROVE  Reaches(Position)'
  <2>1. Reaches(q)
    BY <1>0, <1>1, ReachesEarlier
  <2>2. Queued' = Queued /\ \A k \in Keys : Coming(k, q)' = Coming(k, q)
    BY <1>1 DEF Queued, Coming, InHand
  <2>4. Kept \subseteq Keys
    BY DEF Kept
  <2>3. Reaches(q)'
    BY <1>1, <2>1, <2>2, <2>4 DEF Reaches
  <2>. QED  BY <1>1, <2>3 DEF Reaches, Coming
<1>2. ASSUME NEW w \in Writers, WriteLocally(w) \/ QueueWrite(w) PROVE Reaches(Position)'
  <2>1. PICK p \in 0..Len(log) : p = Position
    BY <1>0
  <2>2. Position' = Position
    BY <1>2 DEF WriteLocally, QueueWrite, sendVars, Position
  <2>3. Reaches(p)'
    BY <1>0, <1>2, <2>1, ReachesWrites
  <2>. QED  BY <2>1, <2>2, <2>3 DEF Reaches, Coming
<1>3. CASE Send
  <2>1. UNCHANGED <<log, writing, doc, revived>> /\ Position' = Position
    BY <1>0, <1>3, SendIs, TypesAre DEF localVars, Position
  <2>. QED  BY <1>0, <1>1, <2>1 DEF Kept
<1>4. CASE Receive
  <2>1. UNCHANGED <<log, writing, doc, revived>> /\ Position' = Position
    BY <1>4 DEF Receive, TakenBy, localVars, Position
  <2>. QED  BY <1>0, <1>1, <2>1 DEF Kept
<1>5. CASE LoseAnswer \/ PeerDrops
  <2>1. UNCHANGED <<log, writing, doc, revived>> /\ Position' = acked
    BY <1>5 DEF LoseAnswer, PeerDrops, GiveUp, localVars, Position
  <2>. QED  BY <1>0, <1>1, <2>1 DEF Kept
<1>6. CASE SenderRestarts
  <2>1. /\ UNCHANGED <<log, doc, revived>> /\ Position' \in 0..acked /\ writing' = [w \in Writers |-> None]
        /\ nrestart < MaxRestarts
        /\ Kills \/ \A w \in Writers : writing[w] = None
    BY <1>6 DEF SenderRestarts, Position
  <2>2. \A w \in Writers : writing[w] = None
    BY <1>0, <2>1 DEF InOrder
  <2>3. writing' = writing
    BY <2>1, <2>2, TypesAre, <1>0
  <2>. QED  BY <1>0, <1>1, <2>1, <2>3 DEF Kept
<1>7. CASE PeerRestarts
  <2>1. /\ UNCHANGED <<log, writing, revived>> /\ Position' = acked /\ nrestart < MaxRestarts
        /\ doc' = doc \/ doc' = local
    BY <1>7 DEF PeerRestarts, localVars, Position
  <2>2. CASE doc' = doc
    BY <1>0, <1>1, <2>1, <2>2 DEF Kept
  <2>3. CASE doc' = local
    <3>1. Own /\ Queued' = Queued /\ Queued \in Document
      BY <1>0, <2>1, TypesAre, SpellType DEF Queued
    <3>2. ASSUME NEW k \in Kept PROVE doc'[k] = Queued[k] \/ \E w \in InHand : writing[w].key = k
      <4>1. CASE InHand = {}
        BY <2>3, <3>1, <4>1 DEF Own
      <4>2. ASSUME NEW w \in InHand PROVE doc'[k] = Queued[k] \/ writing[w].key = k
        <5>1. writing[w] \in Op /\ k \in Keys /\ local[k] = Apply(writing[w], Queued)[k]
          BY <1>0, <3>1, TypesAre DEF InHand, Own, Kept
        <5>. QED  BY <2>3, <3>1, <5>1, ApplyPlain DEF Prompt
      <4>. QED  BY <4>1, <4>2
    <3>3. \A k \in Keys : (\E w \in InHand : writing[w].key = k) => Coming(k, Position)'
      BY <2>1 DEF Coming, InHand
    <3>4. Kept' = Kept /\ Kept \subseteq Keys
      BY <2>1 DEF Kept
    <3>. QED  BY <3>1, <3>2, <3>3, <3>4 DEF Reaches
  <2>. QED  BY <2>1, <2>2, <2>3
<1>8. ASSUME NEW c \in Conn, Peer(c) PROVE Reaches(Position)'
  <2>1. /\ srv[c].phase = "applying" /\ UNCHANGED <<log, writing, revived, acked, conn, waiting>>
        /\ \/ doc' = doc /\ srv'[c].done = srv[c].done
           \/ /\ srv[c].first + srv[c].done + 1 \in 1..Len(log)
              /\ doc' = Apply(log[srv[c].first + srv[c].done + 1], doc)
              /\ srv'[c].done = srv[c].done + 1
    BY <1>0, <1>8, PeerIs DEF localVars, sendVars
  <2>2. c = conn /\ waiting /\ srv[c].first = acked /\ srv[c].done \in Nat
    BY <1>0, <2>1, LinkConstantsOK DEF Alone, Shape, Asked, Server
  <2>3. Position = acked + srv[c].done /\ Position' = acked + srv'[c].done /\ acked \in Nat
    BY <1>0, <2>1, <2>2 DEF Position
  <2>4. CASE doc' = doc /\ srv'[c].done = srv[c].done
    BY <1>0, <1>1, <2>1, <2>3, <2>4 DEF Kept
  <2>5. CASE /\ srv[c].first + srv[c].done + 1 \in 1..Len(log)
             /\ doc' = Apply(log[srv[c].first + srv[c].done + 1], doc)
             /\ srv'[c].done = srv[c].done + 1
    <3>1. PICK p \in Nat : p = Position
      BY <1>0
    <3>2. srv[c].first + srv[c].done + 1 = p + 1 /\ Position' = p + 1
      BY <2>2, <2>3, <2>5, <3>1
    <3>3. p + 1 \in 1..Len(log) /\ doc' = Apply(log[p + 1], doc) /\ Reaches(p)
      BY <1>0, <2>5, <3>1, <3>2
    <3>4. Reaches(p + 1)'
      BY <1>0, <2>1, <3>3, ReachesNext
    <3>. QED  BY <3>2, <3>4 DEF Reaches, Coming
  <2>. QED  BY <2>1, <2>4, <2>5
<1>10. CASE Restore
  <2>1. UNCHANGED <<log, writing, doc>> /\ Position' = Position /\ Kept' \subseteq Kept
    BY <1>10 DEF Restore, sendVars, Position, Kept
  <2>. QED  BY <1>0, <1>1, <2>1
<1>9. CASE UNCHANGED vars
  <2>1. UNCHANGED <<log, writing, doc, revived>> /\ Position' = Position
    BY <1>9 DEF vars, localVars, sendVars, Position
  <2>. QED  BY <1>0, <1>1, <2>1 DEF Kept
<1>. QED  BY <1>2, <1>3, <1>4, <1>5, <1>6, <1>7, <1>8, <1>9, <1>10 DEF Next

LEMMA ReachesFirst == Init => Reaches(Position)
BY SpellNone DEF Init, Reaches, Kept, Queued

LEMMA AloneFirst == Init => Alone
BY DEF Init, Alone, Gone

LEMMA AtTheEnd ==
    ASSUME IInv, Quiet
    PROVE  \A k \in Kept : doc[k] = Queued[k]
<1>1. Position = Len(log) /\ Len(log) \in Nat
  BY PositionIs, TypesAre DEF IInv, Quiet
<1>2. \A k \in Keys : ~Coming(k, Position)
  BY <1>1 DEF Coming, InHand, Quiet
<1>3. Kept \subseteq Keys
  BY DEF Kept
<1>. QED  BY <1>2, <1>3 DEF IInv, Reaches

\* Once the queue is empty the peer has the document the queue spells, though answers are
\* lost and batches sent again in full (sync.go:481; run, sendBatch, applyBatch), and
\* though the peer comes back with the sender's document, or an emptied sender with the
\* peer's, but for what that copy brought back (Restore).
THEOREM PeerEndsTheSame ==
    ASSUME Prompt, MaxRestarts = 0 \/ InOrder
    PROVE  Spec => []EndsTheSame
<1> DEFINE J == IInv /\ (InOrder => Own)
<1>1. Init => J
  BY ShapeFirst, AloneFirst, ReachesFirst, OwnFirst DEF IInv
<1>2. J /\ [Next]_vars => J'
  BY ShapeNext, AloneNext, ReachesStep, OwnNext DEF IInv
<1>3. J => EndsTheSame
  BY AtTheEnd DEF EndsTheSame, Kept
<1>. QED  BY <1>1, <1>2, <1>3, PTL DEF Spec

\* And with one handler at a time that document is the sender's own (README.md:375; the
\* write hook in ApplySetRaw).
THEOREM PeerSameAsLocal ==
    ASSUME Prompt, InOrder
    PROVE  Spec => []SameAsLocal
<1> DEFINE J == IInv /\ Own
<1>1. Init => J
  BY ShapeFirst, AloneFirst, ReachesFirst, OwnFirst DEF IInv
<1>2. J /\ [Next]_vars => J'
  BY ShapeNext, AloneNext, ReachesStep, OwnNext DEF IInv
<1>3. J => SameAsLocal
  BY AtTheEnd DEF SameAsLocal, Own, Kept, InHand, Quiet, IInv
<1>. QED  BY <1>1, <1>2, <1>3, PTL DEF Spec
================================================================================

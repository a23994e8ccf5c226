---------------------------- MODULE DocumentProofs ----------------------------
(* That the file rebuilds the document (Document).  The tree is compared as its     *)
(* readers see it, whatever the order of its keys; what an operation does is said   *)
(* of the children of one node, and the rest follows by induction on the path.      *)
EXTENDS Document, Induction, FiniteSetTheorems, SequenceTheorems

--------------------------------------------------------------------------------
(* Trees.                                                                        *)

IsLeaf(n) == \E t \in DOMAIN Canonical : Canonical[t] = t /\ n = Leaf(t)
ArrIn(n, S) == n = Arr(n.elems) /\ n.elems \in Seq(S)
ObjIn(n, S) ==
    /\ n = [kind |-> "obj", keys |-> n.keys, vals |-> n.vals, idx |-> n.idx]
    /\ n.keys \in Seq(STRING) /\ n.vals \in Seq(S) /\ Len(n.keys) = Len(n.vals)
    /\ n.idx \in [ToSet(n.keys) -> 1..Len(n.keys)]
    /\ \A i \in 1..Len(n.keys) : n.idx[n.keys[i]] = i

\* A tree is in a set of nodes whose children are in it.
Proper(S) == \A n \in S : n = Nil \/ IsLeaf(n) \/ ArrIn(n, S) \/ ObjIn(n, S)
IsTree(n) == \E S : n \in S /\ Proper(S)
Trees(T) == \A x \in T : IsTree(x)
Item(c) == c = Absent \/ IsTree(c)

\* Trees are in one such set together.
LEMMA Gather ==
    ASSUME NEW T, Trees(T)
    PROVE  \E S : T \subseteq S /\ Proper(S)
<1> DEFINE Of(x) == CHOOSE S : x \in S /\ Proper(S)
           U == UNION {Of(x) : x \in T}
<1>1. \A x \in T : x \in Of(x) /\ Proper(Of(x))
  BY DEF Trees, IsTree
<1>2. T \subseteq U
  BY <1>1
<1>3. ASSUME NEW n \in U PROVE n = Nil \/ IsLeaf(n) \/ ArrIn(n, U) \/ ObjIn(n, U)
  <2>1. PICK x \in T : n \in Of(x)
    OBVIOUS
  <2>2. Of(x) \subseteq U
    BY <2>1
  <2> HIDE DEF U, Of
  <2>3. Seq(Of(x)) \subseteq Seq(U)
    BY <2>2
  <2>4. n = Nil \/ IsLeaf(n) \/ ArrIn(n, Of(x)) \/ ObjIn(n, Of(x))
    BY <1>1, <2>1 DEF Proper
  <2>. QED  BY <2>3, <2>4 DEF ArrIn, ObjIn
<1>4. Proper(U)
  BY <1>3 DEF Proper
<1>. QED  BY <1>2, <1>4

LEMMA TreeKinds ==
    ASSUME NEW n, IsTree(n)
    PROVE  n = Nil \/ IsLeaf(n) \/ \E T : Trees(T) /\ (ArrIn(n, T) \/ ObjIn(n, T))
BY DEF IsTree, Trees, Proper

LEMMA TreeOfKids ==
    ASSUME NEW n, NEW T, Trees(T), ArrIn(n, T) \/ ObjIn(n, T)
    PROVE  IsTree(n)
<1>1. PICK S : T \subseteq S /\ Proper(S)
  BY Gather
<1> DEFINE U == S \cup {n}
<1>2. Seq(T) \subseteq Seq(U) /\ Seq(S) \subseteq Seq(U)
  BY <1>1
<1>3. ASSUME NEW m \in U PROVE m = Nil \/ IsLeaf(m) \/ ArrIn(m, U) \/ ObjIn(m, U)
  <2>1. CASE m = n
    BY <1>2, <2>1 DEF ArrIn, ObjIn
  <2>2. CASE m \in S
    BY <1>1, <1>2, <2>2 DEF Proper, ArrIn, ObjIn
  <2>. QED  BY <2>1, <2>2
<1>. QED  BY <1>3 DEF IsTree, Proper

LEMMA SimpleTrees ==
    /\ IsTree(Nil) /\ IsTree(Null) /\ IsTree(NewObj)
    /\ \A n : IsLeaf(n) => IsTree(n)
<1>1. \A n : n = Nil \/ IsLeaf(n) => IsTree(n)
  <2>1. \A n : n = Nil \/ IsLeaf(n) => n \in {n} /\ Proper({n})
    BY DEF Proper
  <2>. QED  BY <2>1 DEF IsTree
<1>2. IsLeaf(Null)
  BY NullAssumption DEF IsLeaf, Null
<1>3. ObjIn(NewObj, {})
  <2>1. NewObj = [kind |-> "obj", keys |-> NewObj.keys, vals |-> NewObj.vals, idx |-> NewObj.idx]
    BY DEF NewObj
  <2>2. NewObj.keys = <<>> /\ NewObj.vals = <<>> /\ NewObj.idx = <<>>
    BY DEF NewObj
  <2>3. ToSet(<<>>) = {}
    BY DEF ToSet
  <2>4. <<>> \in [{} -> 1..Len(<<>>)]
    OBVIOUS
  <2>. QED  BY <2>1, <2>2, <2>3, <2>4 DEF ObjIn
<1>4. IsTree(NewObj)
  BY <1>3, TreeOfKids DEF Trees
<1>. QED  BY <1>1, <1>2, <1>4

--------------------------------------------------------------------------------
(* The children of a node, by key or by position.                                *)

Sub(n) == IF n.kind = "obj" THEN [k \in DOMAIN n.idx |-> n.vals[n.idx[k]]]
          ELSE IF n.kind = "arr" THEN n.elems ELSE <<>>
Kid(n, d) == IF d \in DOMAIN Sub(n) THEN Sub(n)[d] ELSE Absent

\* What a reader is told of a node.
Face(n) == CASE n.kind = "nil" -> Null
             [] IsContainer(n) -> [kind |-> n.kind]
             [] OTHER -> n

\* The position of a segment in a container, unless it is an array and no number.
Bad(n, s) == n.kind = "arr" /\ ~IsIndex(s)
Pos(n, s) == IF n.kind = "arr" THEN Index(s) ELSE s

LEMMA IndexProperties ==
    /\ \A s : IsIndex(s) => Index(s) \in 1..12 /\ Names[Index(s)] = s
    /\ ~IsIndex("-1")
<1>1. DOMAIN Names = 1..12
  BY DEF Names
<1>2. ToSet(Names) = {Names[i] : i \in 1..12}
  BY <1>1 DEF ToSet
<1>3. ASSUME NEW s, IsIndex(s) PROVE Index(s) \in 1..12 /\ Names[Index(s)] = s
  <2>1. \E i \in DOMAIN Names : Names[i] = s
    BY <1>1, <1>2, <1>3 DEF IsIndex
  <2>. QED  BY <1>1, <2>1 DEF Index
<1>4. \A i \in 1..12 : Names[i] # "-1"
  <2>1. /\ Names[1] = "0" /\ Names[2] = "1" /\ Names[3] = "2" /\ Names[4] = "3"
        /\ Names[5] = "4" /\ Names[6] = "5" /\ Names[7] = "6" /\ Names[8] = "7"
        /\ Names[9] = "8" /\ Names[10] = "9" /\ Names[11] = "10" /\ Names[12] = "11"
    BY DEF Names
  <2>2. \A i \in 1..12 : i \in {1, 2, 3, 4, 5, 6, 7, 8, 9, 10, 11, 12}
    OBVIOUS
  <2>. QED  BY <2>1, <2>2
<1>. QED  BY <1>2, <1>3, <1>4 DEF IsIndex

LEMMA PosDiffers ==
    ASSUME NEW n, NEW a, NEW b, a # b, ~Bad(n, a), ~Bad(n, b)
    PROVE  Pos(n, a) # Pos(n, b)
BY IndexProperties DEF Pos, Bad

LEMMA ObjKids ==
    ASSUME NEW n, NEW T, ObjIn(n, T)
    PROVE  /\ n.kind = "obj" /\ DOMAIN Sub(n) = ToSet(n.keys) /\ DOMAIN n.idx = ToSet(n.keys)
           /\ \A i \in 1..Len(n.keys) : Sub(n)[n.keys[i]] = n.vals[i]
           /\ \A d \in DOMAIN Sub(n) : Sub(n)[d] = n.vals[n.idx[d]] /\ n.idx[d] \in 1..Len(n.keys)
           /\ \A d \in DOMAIN Sub(n) : Sub(n)[d] \in T
<1>1. n.kind = "obj" /\ DOMAIN n.idx = ToSet(n.keys)
  BY DEF ObjIn
<1>2. \A i \in 1..Len(n.keys) : n.keys[i] \in ToSet(n.keys)
  BY DEF ToSet, ObjIn
<1>. QED  BY <1>1, <1>2 DEF Sub, ObjIn

LEMMA ArrKids ==
    ASSUME NEW n, NEW T, ArrIn(n, T)
    PROVE  /\ n.kind = "arr" /\ Sub(n) = n.elems /\ DOMAIN Sub(n) = 1..Len(n.elems)
           /\ n.elems \in Seq(T) /\ n = Arr(n.elems) /\ Len(n.elems) \in Nat
           /\ \A d \in DOMAIN Sub(n) : Sub(n)[d] \in T
<1>1. n.kind = "arr"
  BY DEF ArrIn, Arr
<1>. QED  BY <1>1 DEF Sub, ArrIn

LEMMA BareKids ==
    ASSUME NEW n, n.kind \notin {"obj", "arr"}
    PROVE  DOMAIN Sub(n) = {} /\ \A d : Kid(n, d) = Absent
BY DEF Sub, Kid

LEMMA Kinds ==
    /\ Nil.kind = "nil" /\ Absent.kind = "absent" /\ NewObj.kind = "obj" /\ Refused.kind = "refused"
    /\ \A n : IsLeaf(n) => n.kind = "leaf"
    /\ \A e : Arr(e).kind = "arr" /\ Arr(e).elems = e
BY DEF Nil, Absent, NewObj, IsLeaf, Leaf, Refused, Arr

LEMMA KindOfTree ==
    ASSUME NEW n, IsTree(n)
    PROVE  n.kind \in {"nil", "leaf", "arr", "obj"} /\ n # Absent /\ n # Refused
BY TreeKinds, ObjKids, ArrKids, Kinds

LEMMA KidItem ==
    ASSUME NEW n, Item(n), NEW d
    PROVE  Item(Kid(n, d))
<1>1. CASE n.kind \notin {"obj", "arr"}
  BY <1>1, BareKids DEF Item
<1>2. CASE n.kind \in {"obj", "arr"}
  <2>1. n # Absent /\ n # Nil /\ ~IsLeaf(n)
    BY <1>2, Kinds
  <2>2. PICK T : Trees(T) /\ (ArrIn(n, T) \/ ObjIn(n, T))
    BY <2>1, TreeKinds DEF Item
  <2>. QED  BY <2>2, ObjKids, ArrKids DEF Kid, Item, Trees
<1>. QED  BY <1>1, <1>2

LEMMA ChildIsKid ==
    ASSUME NEW n, Item(n), NEW s
    PROVE  Child(n, s) = IF Bad(n, s) THEN Absent ELSE Kid(n, Pos(n, s))
<1>1. CASE n.kind \notin {"obj", "arr"}
  BY <1>1, BareKids DEF Child, Bad
<1>2. CASE n.kind \in {"obj", "arr"}
  <2>1. n # Absent /\ n # Nil /\ ~IsLeaf(n)
    BY <1>2, Kinds
  <2>2. PICK T : Trees(T) /\ (ArrIn(n, T) \/ ObjIn(n, T))
    BY <2>1, TreeKinds DEF Item
  <2>3. CASE ObjIn(n, T)
    BY <2>3, ObjKids DEF Child, Bad, Pos, Kid
  <2>4. CASE ArrIn(n, T)
    <3>1. n.kind = "arr" /\ DOMAIN Sub(n) = 1..Len(n.elems) /\ Len(n.elems) \in Nat /\ Sub(n) = n.elems
      BY <2>4, ArrKids
    <3>2. CASE ~IsIndex(s)
      BY <3>1, <3>2 DEF Child, Bad
    <3>3. CASE IsIndex(s)
      BY <3>1, <3>3, IndexProperties DEF Child, Bad, Pos, Kid
    <3>. QED  BY <3>2, <3>3
  <2>. QED  BY <2>2, <2>3, <2>4
<1>. QED  BY <1>1, <1>2

LEMMA ChildItem ==
    ASSUME NEW n, Item(n), NEW s
    PROVE  Item(Child(n, s))
BY ChildIsKid, KidItem DEF Item

--------------------------------------------------------------------------------
(* What the steps of tree.go do to the children of a node.                       *)

LEMMA RemoveAtElements ==
    ASSUME NEW T, NEW s \in Seq(T), NEW i \in 1..Len(s)
    PROVE  /\ RemoveAt(s, i) \in Seq(T) /\ Len(RemoveAt(s, i)) = Len(s) - 1
           /\ \A j \in 1..(Len(s) - 1) : RemoveAt(s, i)[j] = IF j < i THEN s[j] ELSE s[j + 1]
<1> DEFINE a == SubSeq(s, 1, i - 1)
           b == SubSeq(s, i + 1, Len(s))
<1>1. a \in Seq(T) /\ Len(a) = i - 1 /\ \A j \in 1..(i - 1) : a[j] = s[j]
  OBVIOUS
<1>2. b \in Seq(T) /\ Len(b) = Len(s) - i /\ \A j \in 1..(Len(s) - i) : b[j] = s[j + i]
  OBVIOUS
<1>3. RemoveAt(s, i) = a \o b
  BY DEF RemoveAt
<1> HIDE DEF a, b
<1>4. a \o b \in Seq(T) /\ Len(a \o b) = Len(s) - 1
  <2>1. a \o b \in Seq(T) /\ Len(a \o b) = Len(a) + Len(b)
    BY <1>1, <1>2, ConcatProperties
  <2>2. Len(s) \in Nat
    OBVIOUS
  <2>. QED  BY <1>1, <1>2, <2>1, <2>2
<1>5. ASSUME NEW j \in 1..(Len(s) - 1) PROVE (a \o b)[j] = IF j < i THEN s[j] ELSE s[j + 1]
  <2>1. CASE j < i
    BY <1>1, <1>2, <2>1
  <2>2. CASE ~ (j < i)
    <3>1. (a \o b)[j] = b[j - (i - 1)]
      BY <1>1, <1>2, <2>2
    <3>2. j - (i - 1) \in 1..(Len(s) - i) /\ (j - (i - 1)) + i = j + 1
      BY <2>2
    <3>. QED  BY <1>2, <2>2, <3>1, <3>2
  <2>. QED  BY <2>1, <2>2
<1>. QED  BY <1>3, <1>4, <1>5

Keys == STRING

LEMMA PutIn ==
    ASSUME NEW n, NEW U, ObjIn(n, U), NEW k, k \in Keys, NEW x, x \in U
    PROVE  /\ ObjIn(Put(n, k, x), U)
           /\ \A d : Kid(Put(n, k, x), d) = IF d = k THEN x ELSE Kid(n, d)
<1> SUFFICES ASSUME NEW m, m = Put(n, k, x)
             PROVE  ObjIn(m, U) /\ \A d : Kid(m, d) = IF d = k THEN x ELSE Kid(n, d)
  OBVIOUS
<1>0. n = [kind |-> "obj", keys |-> n.keys, vals |-> n.vals, idx |-> n.idx]
  BY DEF ObjIn
<1>1. ObjIn(n, U)
  OBVIOUS
<1>2. x \in U /\ k \in STRING
  BY DEF Keys
<1>3. DOMAIN n.idx = ToSet(n.keys) /\ ToSet(n.keys) = {n.keys[i] : i \in 1..Len(n.keys)}
  BY <1>1, ObjKids, SMTT(30) DEF ToSet, ObjIn
<1>4. ObjIn(m, U) /\ \A d : Kid(m, d) = IF d = k THEN x ELSE Kid(n, d)
  <2>1. CASE k \in DOMAIN n.idx
    <3>1. m = [kind |-> "obj", keys |-> n.keys, vals |-> [n.vals EXCEPT ![n.idx[k]] = x], idx |-> n.idx]
      BY <1>0, <2>1 DEF Put
    <3>2. n.idx[k] \in 1..Len(n.keys)
      BY <1>1, <1>3, <2>1 DEF ObjIn
    <3>3. [n.vals EXCEPT ![n.idx[k]] = x] \in Seq(U) /\ Len([n.vals EXCEPT ![n.idx[k]] = x]) = Len(n.keys)
      BY <1>1, <1>2, <3>2 DEF ObjIn
    <3>4. ObjIn(m, U)
      BY <1>1, <3>1, <3>3 DEF ObjIn
    <3>5. DOMAIN Sub(m) = DOMAIN Sub(n)
      BY <1>1, <3>1, <3>4, ObjKids
    <3>6. ASSUME NEW d \in DOMAIN Sub(n) PROVE Sub(m)[d] = IF d = k THEN x ELSE Sub(n)[d]
      <4>0. m.idx = n.idx /\ d \in DOMAIN Sub(m)
        BY <3>1, <3>5
      <4>1. Sub(m)[d] = m.vals[n.idx[d]] /\ Sub(n)[d] = n.vals[n.idx[d]] /\ n.idx[d] \in 1..Len(n.keys)
        BY <1>1, <3>4, <4>0, ObjKids
      <4>2. \E i \in 1..Len(n.keys) : d = n.keys[i] /\ n.idx[d] = i
        <5>1. d \in ToSet(n.keys)
          BY <1>1, ObjKids
        <5>2. PICK i \in 1..Len(n.keys) : d = n.keys[i]
          BY <1>3, <5>1
        <5>. QED  BY <1>1, <5>2 DEF ObjIn
      <4>3. \E i \in 1..Len(n.keys) : k = n.keys[i] /\ n.idx[k] = i
        BY <1>1, <1>3, <2>1 DEF ObjIn
      <4>. QED  BY <1>1, <3>1, <3>2, <4>1, <4>2, <4>3 DEF ObjIn
    <3>7. k \in DOMAIN Sub(n)
      BY <1>1, <1>3, <2>1, ObjKids
    <3>. QED  BY <3>4, <3>5, <3>6, <3>7 DEF Kid
  <2>2. CASE k \notin DOMAIN n.idx
    <3> DEFINE L == Len(n.keys)
               ix == [d \in DOMAIN n.idx \cup {k} |-> IF d = k THEN L + 1 ELSE n.idx[d]]
    <3>1. m = [kind |-> "obj", keys |-> Append(n.keys, k), vals |-> Append(n.vals, x), idx |-> ix]
      <4>1. m = [n EXCEPT !.keys = Append(@, k), !.vals = Append(@, x), !.idx = ix]
        BY <2>2 DEF Put
      <4> HIDE DEF ix
      <4>2. ASSUME NEW ks, NEW vs, NEW is,
                   n = [kind |-> "obj", keys |-> ks, vals |-> vs, idx |-> is]
            PROVE  m = [kind |-> "obj", keys |-> Append(ks, k), vals |-> Append(vs, x), idx |-> ix]
        BY <4>1, <4>2
      <4>. QED  BY <1>0, <4>2
    <3>2. L \in Nat /\ n.keys \in Seq(STRING) /\ n.vals \in Seq(U) /\ Len(n.vals) = L
      BY <1>1, <1>2 DEF ObjIn
    <3>3. /\ Append(n.keys, k) \in Seq(STRING) /\ Len(Append(n.keys, k)) = L + 1
          /\ Append(n.vals, x) \in Seq(U) /\ Len(Append(n.vals, x)) = L + 1
          /\ \A i \in 1..L : Append(n.keys, k)[i] = n.keys[i] /\ Append(n.vals, x)[i] = n.vals[i]
          /\ Append(n.keys, k)[L + 1] = k /\ Append(n.vals, x)[L + 1] = x
      BY <1>2, <3>2
    <3>4. ToSet(Append(n.keys, k)) = DOMAIN n.idx \cup {k}
      <4>1. ToSet(Append(n.keys, k)) = {Append(n.keys, k)[i] : i \in 1..(L + 1)}
        BY <3>2, <3>3 DEF ToSet
      <4>2. \A i \in 1..(L + 1) : i \in 1..L \/ i = L + 1
        BY <3>2
      <4>3. 1..L \subseteq 1..(L + 1) /\ L + 1 \in 1..(L + 1)
        BY <3>2
      <4> HIDE DEF L
      <4>. QED  BY <1>3, <3>3, <4>1, <4>2, <4>3 DEF L
    <3>5. \A d \in DOMAIN n.idx : n.idx[d] \in 1..L
      BY <1>1, <1>3 DEF ObjIn
    <3>6. ix \in [ToSet(Append(n.keys, k)) -> 1..(L + 1)]
      BY <3>2, <3>4, <3>5
    <3>7. \A i \in 1..(L + 1) : ix[Append(n.keys, k)[i]] = i
      <4>1. \A i \in 1..L : n.keys[i] \in DOMAIN n.idx /\ n.idx[n.keys[i]] = i
        BY <1>1, <1>3 DEF ObjIn
      <4>2. \A i \in 1..(L + 1) : i \in 1..L \/ i = L + 1
        BY <3>2
      <4>. QED  BY <2>2, <3>3, <4>1, <4>2
    <3> HIDE DEF ix, L
    <3>8. ObjIn(m, U)
      BY <3>1, <3>3, <3>6, <3>7 DEF ObjIn
    <3>12. m.keys = Append(n.keys, k) /\ m.vals = Append(n.vals, x) /\ m.idx = ix
      BY <3>1
    <3>13. DOMAIN Sub(n) = DOMAIN n.idx
      BY <1>1, <1>3, ObjKids
    <3>9. DOMAIN Sub(m) = DOMAIN Sub(n) \cup {k}
      BY <3>4, <3>8, <3>12, <3>13, ObjKids
    <3>10. ASSUME NEW d \in DOMAIN n.idx PROVE Sub(m)[d] = Sub(n)[d] /\ d # k
      <4>1. Sub(m)[d] = m.vals[m.idx[d]] /\ Sub(n)[d] = n.vals[n.idx[d]]
        BY <1>1, <3>8, <3>9, <3>13, ObjKids
      <4>2. m.idx[d] = n.idx[d] /\ d # k
        BY <2>2, <3>12 DEF ix
      <4>. QED  BY <3>3, <3>5, <3>12, <4>1, <4>2
    <3>11. Sub(m)[k] = x
      <4>1. Sub(m)[k] = m.vals[m.idx[k]]
        BY <3>8, <3>9, ObjKids
      <4>2. m.idx[k] = L + 1
        BY <3>12 DEF ix
      <4>. QED  BY <3>3, <3>12, <4>1, <4>2
    <3>. QED  BY <2>2, <3>8, <3>9, <3>10, <3>11, <3>13 DEF Kid
  <2>. QED  BY <2>1, <2>2
<1>. QED  BY <1>4

LEMMA PutKids ==
    ASSUME NEW n, IsTree(n), n.kind = "obj", NEW k \in STRING, NEW x, IsTree(x),
           NEW m, m = Put(n, k, x)
    PROVE  /\ IsTree(m) /\ m.kind = "obj"
           /\ \A d : Kid(m, d) = IF d = k THEN x ELSE Kid(n, d)
<1>1. PICK T : Trees(T) /\ ObjIn(n, T)
  BY TreeKinds, Kinds, ArrKids
<1> DEFINE U == T \cup {x}
<1>2. Trees(U) /\ Seq(T) \subseteq Seq(U) /\ x \in U
  BY <1>1 DEF Trees
<1> HIDE DEF U
<1>3. ObjIn(n, U)
  BY <1>1, <1>2 DEF ObjIn
<1>4. ObjIn(m, U) /\ \A d : Kid(m, d) = IF d = k THEN x ELSE Kid(n, d)
  BY <1>2, <1>3, PutIn DEF Keys
<1>5. IsTree(m) /\ m.kind = "obj"
  BY <1>2, <1>4, TreeOfKids, ObjKids
<1>. QED  BY <1>4, <1>5

LEMMA DelKeyKids ==
    ASSUME NEW n, IsTree(n), n.kind = "obj", NEW k, NEW m, m = DelKey(n, k)
    PROVE  /\ IsTree(m) /\ m.kind = "obj"
           /\ \A d : Kid(m, d) = IF d = k THEN Absent ELSE Kid(n, d)
<1>1. PICK T : Trees(T) /\ ObjIn(n, T)
  BY TreeKinds, Kinds, ArrKids
<1>2. DOMAIN n.idx = ToSet(n.keys) /\ ToSet(n.keys) = {n.keys[i] : i \in 1..Len(n.keys)}
  BY <1>1, ObjKids, SMTT(30) DEF ToSet, ObjIn
<1>3. DOMAIN Sub(n) = DOMAIN n.idx
  BY <1>1, <1>2, ObjKids
<1>4. CASE k \notin DOMAIN n.idx
  BY <1>3, <1>4 DEF DelKey, Kid
<1>5. CASE k \in DOMAIN n.idx
  <2> DEFINE L == Len(n.keys)
             p == n.idx[k]
             ix == [d \in DOMAIN n.idx \ {k} |-> IF n.idx[d] > n.idx[k] THEN n.idx[d] - 1 ELSE n.idx[d]]
  <2>1. m.keys = RemoveAt(n.keys, p) /\ m.vals = RemoveAt(n.vals, p) /\ m.idx = ix
        /\ m = [kind |-> "obj", keys |-> m.keys, vals |-> m.vals, idx |-> m.idx]
    <3>1. m = [kind |-> "obj", keys |-> RemoveAt(n.keys, p), vals |-> RemoveAt(n.vals, p), idx |-> ix]
      BY <1>1, <1>5 DEF DelKey, ObjIn
    <3>. QED  BY <3>1
  <2>2. L \in Nat /\ p \in 1..L /\ n.keys \in Seq(STRING) /\ n.vals \in Seq(T) /\ Len(n.vals) = L
    BY <1>1, <1>2, <1>5 DEF ObjIn
  <2>3. \A i \in 1..L : n.keys[i] \in DOMAIN n.idx /\ n.idx[n.keys[i]] = i
    BY <1>1, <1>2 DEF ObjIn
  <2>4. \A d \in DOMAIN n.idx : n.idx[d] \in 1..L /\ n.keys[n.idx[d]] = d
    BY <1>2, <2>3
  <2>5. /\ m.keys \in Seq(STRING) /\ Len(m.keys) = L - 1
        /\ m.vals \in Seq(T) /\ Len(m.vals) = L - 1
        /\ \A j \in 1..(L - 1) : /\ m.keys[j] = IF j < p THEN n.keys[j] ELSE n.keys[j + 1]
                                 /\ m.vals[j] = IF j < p THEN n.vals[j] ELSE n.vals[j + 1]
    <3>1. m.keys = RemoveAt(n.keys, p) /\ p \in 1..Len(n.keys) /\ n.keys \in Seq(STRING)
      BY <2>1, <2>2
    <3>2. m.vals = RemoveAt(n.vals, p) /\ p \in 1..Len(n.vals) /\ n.vals \in Seq(T)
      BY <2>1, <2>2
    <3> HIDE DEF p
    <3>3. /\ m.keys \in Seq(STRING) /\ Len(m.keys) = Len(n.keys) - 1
          /\ \A j \in 1..(Len(n.keys) - 1) : m.keys[j] = IF j < p THEN n.keys[j] ELSE n.keys[j + 1]
      <4> DEFINE r == RemoveAt(n.keys, p)
      <4>1. /\ r \in Seq(STRING) /\ Len(r) = Len(n.keys) - 1
            /\ \A j \in 1..(Len(n.keys) - 1) : r[j] = IF j < p THEN n.keys[j] ELSE n.keys[j + 1]
        BY <3>1, RemoveAtElements, Zenon
      <4> HIDE DEF r
      <4>2. m.keys = r
        BY <3>1 DEF r
      <4>. QED  BY <4>1, <4>2
    <3>4. /\ m.vals \in Seq(T) /\ Len(m.vals) = Len(n.vals) - 1
          /\ \A j \in 1..(Len(n.vals) - 1) : m.vals[j] = IF j < p THEN n.vals[j] ELSE n.vals[j + 1]
      <4> DEFINE r == RemoveAt(n.vals, p)
      <4>1. /\ r \in Seq(T) /\ Len(r) = Len(n.vals) - 1
            /\ \A j \in 1..(Len(n.vals) - 1) : r[j] = IF j < p THEN n.vals[j] ELSE n.vals[j + 1]
        BY <3>2, RemoveAtElements, Zenon
      <4> HIDE DEF r
      <4>2. m.vals = r
        BY <3>2 DEF r
      <4>. QED  BY <4>1, <4>2
    <3>. QED  BY <2>2, <3>3, <3>4
  <2> HIDE DEF L
  <2>6. \A d \in DOMAIN n.idx \ {k} : ix[d] \in 1..(L - 1) /\ m.keys[ix[d]] = d /\ m.vals[ix[d]] = n.vals[n.idx[d]]
    <3> TAKE d \in DOMAIN n.idx \ {k}
    <3>1. n.idx[d] # p /\ n.idx[d] \in 1..L
      BY <1>5, <2>4
    <3>2. CASE n.idx[d] > p
      <4>1. ix[d] = n.idx[d] - 1 /\ ix[d] \in 1..(L - 1) /\ ~ (ix[d] < p) /\ ix[d] + 1 = n.idx[d]
        BY <2>2, <3>1, <3>2
      <4>2. m.keys[ix[d]] = n.keys[n.idx[d]] /\ m.vals[ix[d]] = n.vals[n.idx[d]]
        BY <2>5, <4>1, Zenon
      <4>. QED  BY <2>4, <4>1, <4>2
    <3>3. CASE ~ (n.idx[d] > p)
      <4>1. ix[d] = n.idx[d] /\ ix[d] \in 1..(L - 1) /\ ix[d] < p
        BY <2>2, <3>1, <3>3
      <4>. QED  BY <2>4, <2>5, <4>1
    <3>. QED  BY <3>2, <3>3
  <2>7. \A j \in 1..(L - 1) : m.keys[j] \in DOMAIN n.idx \ {k} /\ ix[m.keys[j]] = j
    <3> TAKE j \in 1..(L - 1)
    <3>0. n.keys[p] = k
      BY <1>5, <2>4
    <3>1. CASE j < p
      <4>1. m.keys[j] = n.keys[j] /\ j \in 1..L
        BY <2>2, <2>5, <3>1
      <4>2. n.idx[n.keys[j]] = j /\ n.keys[j] \in DOMAIN n.idx
        BY <2>3, <4>1
      <4>. QED  BY <2>2, <3>1, <4>1, <4>2
    <3>2. CASE ~ (j < p)
      <4>1. m.keys[j] = n.keys[j + 1] /\ j + 1 \in 1..L
        BY <2>2, <2>5, <3>2
      <4>2. n.idx[n.keys[j + 1]] = j + 1 /\ n.keys[j + 1] \in DOMAIN n.idx
        BY <2>3, <4>1
      <4>. QED  BY <2>2, <3>2, <4>1, <4>2
    <3>. QED  BY <3>1, <3>2
  <2>8. ToSet(m.keys) = DOMAIN n.idx \ {k}
    <3>1. ToSet(m.keys) = {m.keys[j] : j \in 1..(L - 1)}
      BY <2>5 DEF ToSet
    <3>2. \A d \in DOMAIN n.idx \ {k} : \E j \in 1..(L - 1) : d = m.keys[j]
      BY <2>6
    <3> HIDE DEF ix, p
    <3>. QED  BY <2>7, <3>1, <3>2
  <2>9. ix \in [ToSet(m.keys) -> 1..(L - 1)]
    BY <2>6, <2>8
  <2> HIDE DEF ix, p
  <2>10. ObjIn(m, T)
    BY <2>1, <2>5, <2>7, <2>9 DEF ObjIn
  <2>11. DOMAIN Sub(m) = DOMAIN n.idx \ {k}
    BY <2>8, <2>10, ObjKids
  <2>12. ASSUME NEW d \in DOMAIN n.idx \ {k} PROVE Sub(m)[d] = Sub(n)[d]
    <3>1. Sub(m)[d] = m.vals[m.idx[d]] /\ Sub(n)[d] = n.vals[n.idx[d]]
      BY <1>1, <1>3, <2>10, <2>11, ObjKids
    <3>. QED  BY <2>1, <2>6, <3>1
  <2>13. IsTree(m) /\ m.kind = "obj"
    BY <1>1, <2>10, TreeOfKids, ObjKids
  <2>. QED  BY <1>3, <1>5, <2>11, <2>12, <2>13 DEF Kid
<1>. QED  BY <1>4, <1>5

LEMMA ArrOfKids ==
    ASSUME NEW T, Trees(T), NEW e \in Seq(T)
    PROVE  /\ IsTree(Arr(e)) /\ Arr(e).kind = "arr"
           /\ \A d : Kid(Arr(e), d) = IF d \in 1..Len(e) THEN e[d] ELSE Absent
<1>1. ArrIn(Arr(e), T)
  BY Kinds DEF ArrIn
<1>2. Arr(e).kind = "arr" /\ Sub(Arr(e)) = e /\ DOMAIN Sub(Arr(e)) = 1..Len(e)
  BY <1>1, ArrKids, Kinds
<1>. QED  BY <1>1, <1>2, TreeOfKids DEF Kid

LEMMA ArrElems ==
    ASSUME NEW n, IsTree(n), n.kind = "arr"
    PROVE  \E T : /\ Trees(T) /\ n.elems \in Seq(T) /\ Len(n.elems) \in Nat
                  /\ \A d : Kid(n, d) = IF d \in 1..Len(n.elems) THEN n.elems[d] ELSE Absent
<1>1. PICK T : Trees(T) /\ ArrIn(n, T)
  BY TreeKinds, Kinds, ObjKids
<1>. QED  BY <1>1, ArrKids DEF Kid

\* A position of an array before the one that a set is about, with no element there.
Pads(n, d, p) == n.kind = "arr" /\ d \in 1..(p - 1) /\ Kid(n, d) = Absent

LEMMA SetElemKids ==
    ASSUME NEW n, IsTree(n), n.kind = "arr", NEW p \in Nat, p # 0, NEW x, IsTree(x),
           NEW m, m = Arr([Padded(n.elems, p) EXCEPT ![p] = x])
    PROVE  /\ IsTree(m) /\ m.kind = "arr"
           /\ \A d : Kid(m, d) = IF d = p THEN x ELSE IF Pads(n, d, p) THEN Nil ELSE Kid(n, d)
<1>1. PICK T : /\ Trees(T) /\ n.elems \in Seq(T) /\ Len(n.elems) \in Nat
               /\ \A d : Kid(n, d) = IF d \in 1..Len(n.elems) THEN n.elems[d] ELSE Absent
  BY ArrElems
<1> DEFINE U == T \cup {x, Nil}
           L == Len(n.elems)
           pad == [j \in 1..(p - L) |-> Nil]
           e == [Padded(n.elems, p) EXCEPT ![p] = x]
<1>2. Trees(U) /\ T \subseteq U /\ x \in U /\ Nil \in U
  BY <1>1, SimpleTrees DEF Trees
<1> HIDE DEF U
<1>3. n.elems \in Seq(U) /\ L \in Nat /\ Len(n.elems) = L
  BY <1>1, <1>2
<1>4. pad \in Seq(U) /\ Len(pad) = IF p > L THEN p - L ELSE 0
  <2>1. CASE p > L
    <3> DEFINE q == p - L
    <3>1. q \in Nat
      BY <1>3, <2>1
    <3> HIDE DEF q
    <3>2. [j \in 1..q |-> Nil] \in Seq(U) /\ Len([j \in 1..q |-> Nil]) = q
      BY <1>2, <3>1
    <3>. QED  BY <2>1, <3>2 DEF q
  <2>2. CASE ~ (p > L)
    <3>1. pad = <<>>
      BY <1>3, <2>2
    <3> HIDE DEF pad
    <3>. QED  BY <2>2, <3>1
  <2>. QED  BY <2>1, <2>2
<1>5. \A j \in 1..Len(pad) : pad[j] = Nil
  <2>1. \A j \in 1..(p - L) : pad[j] = Nil
    OBVIOUS
  <2> HIDE DEF pad, L
  <2>2. Len(pad) \in Int /\ \A j \in 1..Len(pad) : j \in 1..(p - L)
    BY <1>3, <1>4
  <2>. QED  BY <2>1, <2>2
<1> HIDE DEF pad
<1>6. Padded(n.elems, p) = n.elems \o pad
  BY DEF Padded, pad
<1>7. /\ n.elems \o pad \in Seq(U) /\ Len(n.elems \o pad) = L + Len(pad)
      /\ \A j \in 1..(L + Len(pad)) : (n.elems \o pad)[j] = IF j <= L THEN n.elems[j] ELSE pad[j - L]
  BY <1>3, <1>4, ConcatProperties
<1> HIDE DEF L
<1> DEFINE N == IF p > L THEN p ELSE L
<1>8. L + Len(pad) = N /\ N \in Nat /\ p \in 1..N
  BY <1>3, <1>4
<1>9. ASSUME NEW j \in 1..N PROVE (n.elems \o pad)[j] = IF j <= L THEN n.elems[j] ELSE Nil
  <2>1. CASE j <= L
    BY <1>7, <1>8, <2>1
  <2>2. CASE ~ (j <= L)
    <3>1. j - L \in 1..Len(pad)
      BY <1>3, <1>4, <1>8, <2>2
    <3>. QED  BY <1>5, <1>7, <1>8, <2>2, <3>1
  <2>. QED  BY <2>1, <2>2
<1>10. e \in Seq(U) /\ Len(e) = N /\ \A j \in 1..N : e[j] = IF j = p THEN x ELSE IF j <= L THEN n.elems[j] ELSE Nil
  <2> DEFINE s == n.elems \o pad
  <2>1. s \in Seq(U) /\ Len(s) = N /\ \A j \in 1..N : s[j] = IF j <= L THEN n.elems[j] ELSE Nil
    BY <1>7, <1>8, <1>9
  <2>2. e = [s EXCEPT ![p] = x]
    BY <1>6
  <2> HIDE DEF s, e, N
  <2>. QED  BY <1>2, <1>8, <2>1, <2>2
<1> HIDE DEF e
<1>11. IsTree(m) /\ m.kind = "arr" /\ \A d : Kid(m, d) = IF d \in 1..N THEN e[d] ELSE Absent
  BY <1>2, <1>10, ArrOfKids DEF e
<1>12. \A t \in T : t # Absent
  BY <1>1, KindOfTree DEF Trees
<1>13. \A d \in 1..L : n.elems[d] # Absent
  BY <1>1, <1>12 DEF L
<1>14. ASSUME NEW d PROVE Kid(m, d) = IF d = p THEN x ELSE IF Pads(n, d, p) THEN Nil ELSE Kid(n, d)
  <2>0. Kid(n, d) = IF d \in 1..L THEN n.elems[d] ELSE Absent
    BY <1>1 DEF L
  <2>1. CASE d \in 1..N
    <3>1. CASE d <= L
      <4>1. d \in 1..L
        BY <1>3, <1>8, <2>1, <3>1
      <4>2. Kid(n, d) = n.elems[d] /\ ~Pads(n, d, p)
        BY <1>13, <2>0, <4>1 DEF Pads
      <4>. QED  BY <1>10, <1>11, <2>1, <3>1, <4>2
    <3>2. CASE ~ (d <= L)
      <4>1. d \notin 1..L /\ (d = p \/ d \in 1..(p - 1))
        BY <1>3, <1>8, <2>1, <3>2
      <4>. QED  BY <1>10, <1>11, <2>0, <2>1, <3>2, <4>1 DEF Pads
    <3>. QED  BY <3>1, <3>2
  <2>2. CASE d \notin 1..N
    <3>1. d \notin 1..L /\ d # p /\ d \notin 1..(p - 1)
      BY <1>3, <1>8, <2>2
    <3>. QED  BY <1>11, <2>0, <2>2, <3>1 DEF Pads
  <2>. QED  BY <2>1, <2>2
<1>. QED  BY <1>11, <1>14

\* An append, and where it goes.
Appended(n, x) == Arr(Append(n.elems, x))
End(n) == Len(n.elems) + 1

LEMMA AppendElemKids ==
    ASSUME NEW n, IsTree(n), n.kind = "arr", NEW x, IsTree(x), NEW m, m = Appended(n, x)
    PROVE  /\ IsTree(m) /\ m.kind = "arr"
           /\ \A d : Kid(m, d) = IF d = End(n) THEN x ELSE Kid(n, d)
<1>1. PICK T : /\ Trees(T) /\ n.elems \in Seq(T) /\ Len(n.elems) \in Nat
               /\ \A d : Kid(n, d) = IF d \in 1..Len(n.elems) THEN n.elems[d] ELSE Absent
  BY ArrElems
<1> DEFINE U == T \cup {x}
           L == Len(n.elems)
           e == Append(n.elems, x)
<1>2. Trees(U) /\ n.elems \in Seq(U) /\ x \in U
  BY <1>1 DEF Trees
<1> HIDE DEF U
<1>3. e \in Seq(U) /\ Len(e) = L + 1 /\ L \in Nat
      /\ \A j \in 1..(L + 1) : e[j] = IF j = L + 1 THEN x ELSE n.elems[j]
  BY <1>1, <1>2
<1> HIDE DEF e
<1>4. IsTree(m) /\ m.kind = "arr" /\ \A d : Kid(m, d) = IF d \in 1..(L + 1) THEN e[d] ELSE Absent
  BY <1>2, <1>3, ArrOfKids DEF e, Appended
<1>5. \A d : d \in 1..(L + 1) <=> (d \in 1..L \/ d = L + 1)
  BY <1>3
<1>. QED  BY <1>1, <1>3, <1>4, <1>5 DEF End

LEMMA RemoveElemKids ==
    ASSUME NEW n, IsTree(n), n.kind = "arr", NEW p \in 1..Len(n.elems),
           NEW m, m = Arr(RemoveAt(n.elems, p))
    PROVE  /\ IsTree(m) /\ m.kind = "arr"
           /\ \A d : Kid(m, d) = IF d \in Nat /\ d >= p THEN Kid(n, d + 1) ELSE Kid(n, d)
<1>1. PICK T : /\ Trees(T) /\ n.elems \in Seq(T) /\ Len(n.elems) \in Nat
               /\ \A d : Kid(n, d) = IF d \in 1..Len(n.elems) THEN n.elems[d] ELSE Absent
  BY ArrElems
<1> DEFINE L == Len(n.elems)
           e == RemoveAt(n.elems, p)
<1>2. e \in Seq(T) /\ Len(e) = L - 1 /\ \A j \in 1..(L - 1) : e[j] = IF j < p THEN n.elems[j] ELSE n.elems[j + 1]
  BY <1>1, RemoveAtElements
<1> HIDE DEF e
<1>3. IsTree(m) /\ m.kind = "arr" /\ \A d : Kid(m, d) = IF d \in 1..(L - 1) THEN e[d] ELSE Absent
  BY <1>1, <1>2, ArrOfKids DEF e
<1>4. p \in 1..L /\ L \in Nat
  BY <1>1
<1>5. \A d : Kid(n, d) = IF d \in 1..L THEN n.elems[d] ELSE Absent
  BY <1>1
<1> HIDE DEF L
<1>6. ASSUME NEW d PROVE Kid(m, d) = IF d \in Nat /\ d >= p THEN Kid(n, d + 1) ELSE Kid(n, d)
  <2>1. CASE d \in Nat /\ d >= p
    <3>1. d \in 1..(L - 1) <=> d + 1 \in 1..L
      BY <1>4, <2>1
    <3>2. ~ (d < p)
      BY <1>4, <2>1
    <3>. QED  BY <1>2, <1>3, <1>5, <2>1, <3>1, <3>2
  <2>2. CASE ~ (d \in Nat /\ d >= p)
    <3>1. d \in 1..(L - 1) <=> d \in 1..L
      BY <1>4, <2>2
    <3>2. d \in 1..(L - 1) => d < p
      BY <1>4, <2>2
    <3>. QED  BY <1>2, <1>3, <1>5, <2>2, <3>1, <3>2
  <2>. QED  BY <2>1, <2>2
<1>. QED  BY <1>3, <1>6

\* What Place does, of a segment that is a place in the container and not an append.
LEMMA PlaceKids ==
    ASSUME NEW n, IsTree(n), IsContainer(n), NEW s \in STRING, ~Bad(n, s), NEW x, IsTree(x),
           NEW m, m = Place(n, s, x)
    PROVE  /\ IsTree(m) /\ m.kind = n.kind /\ m # Refused
           /\ \A d : Kid(m, d) = IF d = Pos(n, s) THEN x
                                 ELSE IF Pads(n, d, Pos(n, s)) THEN Nil ELSE Kid(n, d)
<1>1. x # Refused
  BY KindOfTree
<1>2. CASE n.kind = "obj"
  <2>1. m = Put(n, s, x) /\ Pos(n, s) = s
    BY <1>1, <1>2 DEF Place, Pos
  <2>. QED  BY <1>2, <2>1, PutKids, Kinds DEF Pads
<1>3. CASE n.kind = "arr"
  <2>1. IsIndex(s) /\ s # "-1" /\ Pos(n, s) = Index(s) /\ Index(s) \in Nat /\ Index(s) # 0
    BY <1>3, IndexProperties DEF Bad, Pos
  <2>2. m = Arr([Padded(n.elems, Index(s)) EXCEPT ![Index(s)] = x])
    BY <1>1, <1>3, <2>1 DEF Place
  <2>. QED  BY <1>3, <2>1, <2>2, SetElemKids, Kinds
<1>. QED  BY <1>2, <1>3 DEF IsContainer

LEMMA PlaceRefuses ==
    ASSUME NEW n, IsContainer(n), NEW s, NEW x
    PROVE  /\ x = Refused => Place(n, s, x) = Refused
           /\ Bad(n, s) /\ s # "-1" => Place(n, s, x) = Refused
           /\ Bad(n, s) /\ s = "-1" /\ x # Refused => Place(n, s, x) = Appended(n, x)
<1>1. ASSUME x = Refused PROVE Place(n, s, x) = Refused
  BY <1>1 DEF Place
<1>2. Bad(n, s) /\ s # "-1" => Place(n, s, x) = Refused
  BY <1>1 DEF Place, Bad
<1>3. Bad(n, s) /\ s = "-1" /\ x # Refused => Place(n, s, x) = Appended(n, x)
  BY IndexProperties DEF Place, Bad, Appended
<1>. QED  BY <1>1, <1>2, <1>3

--------------------------------------------------------------------------------
(* The walks, one step at a time.                                                *)

Strings == Seq(STRING)

LEMMA PathParts ==
    ASSUME NEW path \in Strings, path # <<>>
    PROVE  /\ Len(path) \in Nat /\ Len(path) > 0 /\ Head(path) = path[1] /\ Head(path) \in STRING
           /\ Tail(path) \in Strings /\ Len(Tail(path)) = Len(path) - 1
           /\ \A i \in 1..(Len(path) - 1) : Tail(path)[i] = path[i + 1]
           /\ \A i \in 1..Len(path) : path[i] \in STRING
BY DEF Strings

LEMMA Prefix ==
    ASSUME NEW path \in Strings, NEW i \in 0..Len(path)
    PROVE  /\ SubSeq(path, 1, i) \in Strings /\ Len(SubSeq(path, 1, i)) = i
           /\ \A j \in 1..i : SubSeq(path, 1, i)[j] = path[j]
BY DEF Strings

\* The function that Lookup defines.
LookupRec(n, path, at) ==
    at = [i \in 0..Len(path) |-> IF i = 0 THEN n ELSE Child(at[i - 1], path[i])]

LEMMA LookupExists ==
    ASSUME NEW n, NEW path \in Strings
    PROVE  \E at : LookupRec(n, path, at)
<1> DEFINE Upto(k, at) == at = [i \in 0..k |-> IF i = 0 THEN n ELSE Child(at[i - 1], path[i])]
           S == {k \in Nat : \E at : Upto(k, at)}
<1>1. 0 \in S
  <2>1. Upto(0, [i \in 0..0 |-> n])
    OBVIOUS
  <2>. QED  BY <2>1
<1>2. ASSUME NEW k \in Nat, k \in S PROVE k + 1 \in S
  <2>1. PICK at : Upto(k, at)
    BY <1>2
  <2> DEFINE bt == [i \in 0..(k + 1) |-> IF i = k + 1 THEN Child(at[k], path[k + 1]) ELSE at[i]]
  <2>2. ASSUME NEW i \in 0..(k + 1) PROVE bt[i] = IF i = 0 THEN n ELSE Child(bt[i - 1], path[i])
    <3>1. CASE i = 0
      BY <2>1, <3>1
    <3>2. CASE i # 0 /\ i # k + 1
      <4>1. i \in 0..k /\ i - 1 \in 0..(k + 1) /\ i - 1 # k + 1
        BY <3>2
      <4>. QED  BY <2>1, <3>2, <4>1
    <3>3. CASE i = k + 1
      <4>1. k \in 0..(k + 1) /\ k # k + 1 /\ i - 1 = k
        BY <3>3
      <4>. QED  BY <3>3, <4>1
    <3>. QED  BY <3>1, <3>2, <3>3
  <2>3. bt = [i \in 0..(k + 1) |-> bt[i]]
    OBVIOUS
  <2>4. Upto(k + 1, bt)
    <3> HIDE DEF bt
    <3>. QED  BY <2>2, <2>3
  <2> HIDE DEF Upto, bt
  <2>. QED  BY <2>4
<1>3. Nat \subseteq S
  <2> HIDE DEF S
  <2>. QED  BY <1>1, <1>2, SetInduction
<1>4. Len(path) \in Nat
  BY DEF Strings
<1>. QED  BY <1>3, <1>4 DEF LookupRec

LEMMA LookupRecUnique ==
    ASSUME NEW n, NEW path \in Strings, NEW at, LookupRec(n, path, at),
           NEW i \in 0..Len(path)
    PROVE  at[i] = Lookup(n, SubSeq(path, 1, i))
<1>1. Len(path) \in Nat
  BY DEF Strings
<1> DEFINE p == SubSeq(path, 1, i)
<1>2. p \in Strings /\ Len(p) = i /\ \A j \in 1..i : p[j] = path[j]
  BY Prefix
<1> HIDE DEF p
<1>3. LookupRec(n, p, CHOOSE bt : LookupRec(n, p, bt))
  BY <1>2, LookupExists
<1>4. PICK bt : LookupRec(n, p, bt) /\ Lookup(n, p) = bt[i]
  BY <1>2, <1>3 DEF Lookup, LookupRec
<1> DEFINE S == {k \in Nat : k <= i => at[k] = bt[k]}
<1>5. 0 \in S
  BY <1>1, <1>2, <1>4 DEF LookupRec
<1>6. ASSUME NEW k \in Nat, k \in S PROVE k + 1 \in S
  <2>1. CASE k + 1 <= i
    <3>1. at[k] = bt[k] /\ p[k + 1] = path[k + 1] /\ k + 1 \in 0..Len(path) /\ k + 1 \in 0..i /\ (k + 1) - 1 = k
      BY <1>1, <1>2, <1>6, <2>1
    <3>2. at[k + 1] = Child(at[k], path[k + 1])
      BY <3>1 DEF LookupRec
    <3>3. bt[k + 1] = Child(bt[k], p[k + 1])
      BY <1>2, <1>4, <3>1 DEF LookupRec
    <3>. QED  BY <3>1, <3>2, <3>3
  <2>. QED  BY <2>1
<1>7. Nat \subseteq S
  <2> HIDE DEF S
  <2>. QED  BY <1>5, <1>6, SetInduction
<1>8. at[i] = bt[i]
  BY <1>1, <1>7
<1>. QED  BY <1>4, <1>8 DEF p

LEMMA LookupStep ==
    ASSUME NEW n, NEW path \in Strings
    PROVE  /\ Lookup(n, <<>>) = n
           /\ \A i \in 1..Len(path) :
                 Lookup(n, SubSeq(path, 1, i)) = Child(Lookup(n, SubSeq(path, 1, i - 1)), path[i])
<1>1. Len(path) \in Nat
  BY DEF Strings
<1>2. PICK at : LookupRec(n, path, at)
  BY LookupExists
<1>3. \A i \in 0..Len(path) : at[i] = Lookup(n, SubSeq(path, 1, i))
  BY <1>2, LookupRecUnique
<1>4. at[0] = n /\ SubSeq(path, 1, 0) = <<>>
  BY <1>1, <1>2 DEF LookupRec
<1>5. ASSUME NEW i \in 1..Len(path)
      PROVE  Lookup(n, SubSeq(path, 1, i)) = Child(Lookup(n, SubSeq(path, 1, i - 1)), path[i])
  <2>1. i \in 0..Len(path) /\ i - 1 \in 0..Len(path) /\ i # 0
    BY <1>1
  <2>2. at[i] = Child(at[i - 1], path[i])
    BY <1>2, <2>1 DEF LookupRec
  <2>. QED  BY <1>3, <2>1, <2>2
<1>6. Lookup(n, <<>>) = n
  <2>1. 0 \in 0..Len(path)
    BY <1>1
  <2>. QED  BY <1>3, <1>4, <2>1
<1>. QED  BY <1>5, <1>6

LEMMA ChildOfBare ==
    ASSUME NEW n, ~IsContainer(n), NEW s
    PROVE  Child(n, s) = Absent
BY DEF IsContainer, Child

\* What a set finds in a container, or makes one of.
Into(n) == IF IsContainer(n) THEN n ELSE NewObj

LEMMA ChildOfInto ==
    ASSUME NEW n, NEW s
    PROVE  Child(Into(n), s) = Child(n, s)
<1>1. Child(NewObj, s) = Absent
  <2>1. NewObj.kind = "obj" /\ DOMAIN NewObj.idx = {}
    BY DEF NewObj
  <2>. QED  BY <2>1 DEF Child
<1>. QED  BY <1>1, ChildOfBare DEF Into

\* A walk goes on below the first child as a walk from there.
LEMMA LookupBelow ==
    ASSUME NEW n, NEW path \in Strings, path # <<>>
    PROVE  \A i \in 0..(Len(path) - 1) :
              Lookup(n, SubSeq(path, 1, i + 1)) = Lookup(Child(n, Head(path)), SubSeq(Tail(path), 1, i))
<1> DEFINE L == Len(path)
           c == Child(n, Head(path))
           t == Tail(path)
           S == {i \in Nat : i <= L - 1 => Lookup(n, SubSeq(path, 1, i + 1)) = Lookup(c, SubSeq(t, 1, i))}
<1>1. L \in Nat /\ L > 0 /\ t \in Strings /\ Len(t) = L - 1 /\ Head(path) = path[1]
      /\ \A i \in 1..(L - 1) : t[i] = path[i + 1]
  BY PathParts
<1>2. \A i \in 1..L : Lookup(n, SubSeq(path, 1, i)) = Child(Lookup(n, SubSeq(path, 1, i - 1)), path[i])
  BY LookupStep
<1>3. \A i \in 1..(L - 1) : Lookup(c, SubSeq(t, 1, i)) = Child(Lookup(c, SubSeq(t, 1, i - 1)), t[i])
  <2> HIDE DEF c, t
  <2>1. \A i \in 1..Len(t) : Lookup(c, SubSeq(t, 1, i)) = Child(Lookup(c, SubSeq(t, 1, i - 1)), t[i])
    BY <1>1, LookupStep
  <2>. QED  BY <1>1, <2>1
<1>4. Lookup(n, <<>>) = n /\ Lookup(c, <<>>) = c
  BY LookupStep, <1>1
<1>5. SubSeq(path, 1, 0) = <<>> /\ SubSeq(t, 1, 0) = <<>>
  BY <1>1 DEF Strings
<1>6. 0 \in S
  <2>1. 1 \in 1..L /\ 1 - 1 = 0 /\ 0 + 1 = 1
    BY <1>1
  <2>2. Lookup(n, SubSeq(path, 1, 1)) = Child(Lookup(n, SubSeq(path, 1, 0)), path[1])
    BY <1>2, <2>1
  <2>3. Lookup(n, SubSeq(path, 1, 0 + 1)) = Lookup(c, SubSeq(t, 1, 0))
    BY <1>1, <1>4, <1>5, <2>1, <2>2
  <2>. QED  BY <2>3
<1> HIDE DEF t, c, L
<1>7. ASSUME NEW i \in Nat, i \in S PROVE i + 1 \in S
  <2>1. CASE i + 1 <= L - 1
    <3>1. i + 1 \in 1..(L - 1) /\ (i + 1) + 1 \in 1..L /\ (i + 1) - 1 = i /\ ((i + 1) + 1) - 1 = i + 1 /\ i <= L - 1
      BY <1>1, <2>1
    <3>2. Lookup(n, SubSeq(path, 1, (i + 1) + 1)) = Child(Lookup(n, SubSeq(path, 1, i + 1)), path[(i + 1) + 1])
      BY <1>2, <3>1
    <3>3. Lookup(c, SubSeq(t, 1, i + 1)) = Child(Lookup(c, SubSeq(t, 1, i)), t[i + 1])
      BY <1>3, <3>1
    <3>4. t[i + 1] = path[(i + 1) + 1]
      BY <1>1, <3>1
    <3>5. Lookup(n, SubSeq(path, 1, i + 1)) = Lookup(c, SubSeq(t, 1, i))
      BY <1>7, <3>1
    <3>. QED  BY <3>2, <3>3, <3>4, <3>5
  <2>. QED  BY <2>1
<1>8. Nat \subseteq S
  <2> HIDE DEF S
  <2>. QED  BY <1>6, <1>7, SetInduction
<1>9. \A i \in 0..(L - 1) : i \in Nat /\ i <= L - 1
  BY <1>1
<1>. QED  BY <1>8, <1>9 DEF t, c, L

LEMMA Whole ==
    ASSUME NEW path \in Strings
    PROVE  SubSeq(path, 1, Len(path)) = path
BY DEF Strings

LEMMA LookupShift ==
    ASSUME NEW n, NEW path \in Strings, path # <<>>
    PROVE  Lookup(n, path) = Lookup(Child(n, Head(path)), Tail(path))
<1>1. Len(path) \in Nat /\ Len(path) > 0 /\ Tail(path) \in Strings /\ Len(Tail(path)) = Len(path) - 1
  BY PathParts
<1>2. Len(path) - 1 \in 0..(Len(path) - 1) /\ (Len(path) - 1) + 1 = Len(path)
  BY <1>1
<1>3. Lookup(n, SubSeq(path, 1, Len(path))) = Lookup(Child(n, Head(path)), SubSeq(Tail(path), 1, Len(path) - 1))
  BY <1>2, LookupBelow
<1>. QED  BY <1>1, <1>3, Whole

\* The function that SetPath defines.
UpRec(n, path, v, up) ==
    up = [j \in 0..Len(path) |->
             IF j = 0 THEN v
             ELSE Place(Onto(n, path, Len(path) - j + 1), path[Len(path) - j + 1], up[j - 1])]

LEMMA UpExists ==
    ASSUME NEW n, NEW path \in Strings, NEW v
    PROVE  \E up : UpRec(n, path, v, up)
<1> DEFINE Step(j, x) == Place(Onto(n, path, Len(path) - j + 1), path[Len(path) - j + 1], x)
           Upto(k, at) == at = [j \in 0..k |-> IF j = 0 THEN v ELSE Step(j, at[j - 1])]
           S == {k \in Nat : \E at : Upto(k, at)}
<1>0. \A at : UpRec(n, path, v, at) <=> Upto(Len(path), at)
  BY DEF UpRec
<1> HIDE DEF Step
<1>1. 0 \in S
  <2>1. Upto(0, [i \in 0..0 |-> v])
    OBVIOUS
  <2>. QED  BY <2>1
<1>2. ASSUME NEW k \in Nat, k \in S PROVE k + 1 \in S
  <2>1. PICK at : Upto(k, at)
    BY <1>2
  <2> DEFINE bt == [i \in 0..(k + 1) |-> IF i = k + 1 THEN Step(k + 1, at[k]) ELSE at[i]]
  <2>2. ASSUME NEW i \in 0..(k + 1) PROVE bt[i] = IF i = 0 THEN v ELSE Step(i, bt[i - 1])
    <3>1. CASE i = 0
      BY <2>1, <3>1
    <3>2. CASE i # 0 /\ i # k + 1
      <4>1. i \in 0..k /\ i - 1 \in 0..(k + 1) /\ i - 1 # k + 1
        BY <3>2
      <4>. QED  BY <2>1, <3>2, <4>1
    <3>3. CASE i = k + 1
      <4>1. k \in 0..(k + 1) /\ k # k + 1 /\ i - 1 = k
        BY <3>3
      <4>. QED  BY <3>3, <4>1
    <3>. QED  BY <3>1, <3>2, <3>3
  <2>3. bt = [i \in 0..(k + 1) |-> bt[i]]
    OBVIOUS
  <2>4. Upto(k + 1, bt)
    <3> HIDE DEF bt
    <3>. QED  BY <2>2, <2>3
  <2> HIDE DEF Upto, bt
  <2>. QED  BY <2>4
<1>3. Nat \subseteq S
  <2> HIDE DEF S
  <2>. QED  BY <1>1, <1>2, SetInduction
<1>4. Len(path) \in Nat
  BY DEF Strings
<1> HIDE DEF Upto
<1>. QED  BY <1>0, <1>3, <1>4

LEMMA SetPathUp ==
    ASSUME NEW n, NEW path \in Strings, NEW v
    PROVE  \E up : UpRec(n, path, v, up) /\ SetPath(n, path, v) = up[Len(path)]
<1>1. UpRec(n, path, v, CHOOSE up : UpRec(n, path, v, up))
  BY UpExists
<1>2. SetPath(n, path, v) = (CHOOSE up : UpRec(n, path, v, up))[Len(path)]
  BY DEF SetPath, UpRec
<1>. QED  BY <1>1, <1>2

LEMMA SetPathEmpty ==
    ASSUME NEW n, NEW v
    PROVE  SetPath(n, <<>>, v) = v
<1>1. <<>> \in Strings /\ Len(<<>>) = 0
  BY DEF Strings
<1>2. PICK up : UpRec(n, <<>>, v, up) /\ SetPath(n, <<>>, v) = up[Len(<<>>)]
  BY <1>1, SetPathUp
<1>3. 0 \in 0..Len(<<>>)
  BY <1>1
<1>4. up[0] = v
  BY <1>2, <1>3 DEF UpRec
<1>. QED  BY <1>1, <1>2, <1>4

LEMMA SetPathStep ==
    ASSUME NEW n, NEW path \in Strings, path # <<>>, NEW v
    PROVE  SetPath(n, path, v) = Place(Into(n), Head(path), SetPath(Child(n, Head(path)), Tail(path), v))
<1> DEFINE L == Len(path)
           c == Child(n, Head(path))
           t == Tail(path)
<1>1. L \in Nat /\ L > 0 /\ t \in Strings /\ Len(t) = L - 1 /\ Head(path) = path[1]
      /\ \A i \in 1..(L - 1) : t[i] = path[i + 1]
  BY PathParts
<1>2. PICK up : UpRec(n, path, v, up) /\ SetPath(n, path, v) = up[L]
  BY SetPathUp
<1>3. PICK ut : UpRec(c, t, v, ut) /\ SetPath(c, t, v) = ut[L - 1]
  <2> HIDE DEF c, t
  <2>1. \E ut : UpRec(c, t, v, ut) /\ SetPath(c, t, v) = ut[Len(t)]
    BY <1>1, SetPathUp
  <2>. QED  BY <1>1, <2>1
<1>4. ASSUME NEW i \in 1..(L - 1) PROVE Onto(n, path, i + 1) = Onto(c, t, i)
  <2>1. i - 1 \in 0..(L - 1) /\ (i - 1) + 1 = i /\ (i + 1) - 1 = i
    BY <1>1
  <2>2. Lookup(n, SubSeq(path, 1, i)) = Lookup(c, SubSeq(t, 1, i - 1))
    BY <2>1, LookupBelow
  <2> HIDE DEF c, t
  <2>. QED  BY <2>1, <2>2 DEF Onto
<1>5. Onto(n, path, 1) = Into(n)
  <2>1. SubSeq(path, 1, 1 - 1) = <<>>
    BY <1>1 DEF Strings
  <2>2. Lookup(n, <<>>) = n
    BY LookupStep
  <2>. QED  BY <2>1, <2>2 DEF Onto, Into
<1> HIDE DEF c, t, L
<1> DEFINE S == {j \in Nat : j <= L - 1 => up[j] = ut[j]}
<1>6. 0 \in S
  <2>1. 0 \in 0..L /\ 0 \in 0..(L - 1)
    BY <1>1
  <2>. QED  BY <1>1, <1>2, <1>3, <2>1 DEF UpRec, L
<1>7. ASSUME NEW j \in Nat, j \in S PROVE j + 1 \in S
  <2>1. CASE j + 1 <= L - 1
    <3> DEFINE i == (L - 1) - (j + 1) + 1
    <3>1. /\ j + 1 \in 0..L /\ j + 1 \in 0..(L - 1) /\ j + 1 # 0 /\ (j + 1) - 1 = j
          /\ L - (j + 1) + 1 = i + 1 /\ i \in 1..(L - 1) /\ j <= L - 1
      BY <1>1, <2>1
    <3> HIDE DEF i
    <3>2. up[j + 1] = Place(Onto(n, path, i + 1), path[i + 1], up[j])
      BY <1>2, <3>1 DEF UpRec, L
    <3>3. ut[j + 1] = Place(Onto(c, t, i), t[i], ut[j])
      BY <1>1, <1>3, <3>1 DEF UpRec, i
    <3>4. t[i] = path[i + 1] /\ Onto(n, path, i + 1) = Onto(c, t, i) /\ up[j] = ut[j]
      BY <1>1, <1>4, <1>7, <3>1
    <3>. QED  BY <3>2, <3>3, <3>4
  <2>. QED  BY <2>1
<1>8. Nat \subseteq S
  <2> HIDE DEF S
  <2>. QED  BY <1>6, <1>7, SetInduction
<1>9. up[L - 1] = ut[L - 1]
  <2>1. L - 1 \in Nat /\ L - 1 <= L - 1
    BY <1>1
  <2>. QED  BY <1>8, <2>1
<1>10. up[L] = Place(Onto(n, path, 1), path[1], up[L - 1])
  <2>1. L \in 0..L /\ L # 0 /\ L - L + 1 = 1
    BY <1>1
  <2>. QED  BY <1>2, <2>1 DEF UpRec, L
<1>. QED  BY <1>1, <1>2, <1>3, <1>5, <1>9, <1>10 DEF c, t

LEMMA LookupAbsent ==
    ASSUME NEW n, ~IsContainer(n), NEW path \in Strings, path # <<>>
    PROVE  Lookup(n, path) = Absent
<1> DEFINE S == {l \in Nat : \A p \in Strings : Len(p) = l => Lookup(Absent, p) = Absent}
<1>1. 0 \in S
  <2>1. \A p \in Strings : Len(p) = 0 => p = <<>>
    BY DEF Strings
  <2>. QED  BY <2>1, LookupStep
<1>2. ASSUME NEW l \in Nat, l \in S PROVE l + 1 \in S
  <2>1. ASSUME NEW p \in Strings, Len(p) = l + 1 PROVE Lookup(Absent, p) = Absent
    <3>1. p # <<>>
      BY <2>1
    <3>2. Tail(p) \in Strings /\ Len(Tail(p)) = l
      BY <2>1, <3>1, PathParts
    <3>3. Child(Absent, Head(p)) = Absent
      BY ChildOfBare, Kinds DEF IsContainer
    <3>. QED  BY <1>2, <2>1, <3>1, <3>2, <3>3, LookupShift
  <2>. QED  BY <2>1
<1>3. Nat \subseteq S
  <2> HIDE DEF S
  <2>. QED  BY <1>1, <1>2, SetInduction
<1>4. Tail(path) \in Strings /\ Len(Tail(path)) \in Nat
  BY PathParts
<1>5. Lookup(Absent, Tail(path)) = Absent
  BY <1>3, <1>4
<1>. QED  BY <1>5, ChildOfBare, LookupShift

LEMMA LookupEmpty == \A n : Lookup(n, <<>>) = n
<1>1. <<>> \in Strings
  BY DEF Strings
<1>. QED  BY <1>1, LookupStep

LEMMA PathEnds ==
    ASSUME NEW path \in Strings, path # <<>>
    PROVE  /\ Front(path) \in Strings
           /\ Tail(path) = <<>> => Front(path) = <<>> /\ Last(path) = Head(path)
           /\ Tail(path) # <<>> => /\ Front(path) # <<>> /\ Head(Front(path)) = Head(path)
                                   /\ Tail(Front(path)) = Front(Tail(path))
                                   /\ Last(Tail(path)) = Last(path)
<1> DEFINE L == Len(path)
           t == Tail(path)
           f == SubSeq(path, 1, L - 1)
<1>1. L \in Nat /\ L > 0 /\ t \in Strings /\ Len(t) = L - 1 /\ Head(path) = path[1]
      /\ \A i \in 1..(L - 1) : t[i] = path[i + 1]
  BY PathParts
<1>2. f \in Strings /\ Len(f) = L - 1 /\ \A i \in 1..(L - 1) : f[i] = path[i]
  BY <1>1, Prefix
<1>3. Front(path) = f /\ Last(path) = path[L]
  BY DEF Front, Last
<1>4. ASSUME t = <<>> PROVE f = <<>> /\ Last(path) = Head(path)
  <2>1. L = 1
    BY <1>1, <1>4
  <2>. QED  BY <1>1, <1>2, <1>3, <2>1 DEF Strings
<1>5. ASSUME t # <<>>
      PROVE  f # <<>> /\ Head(f) = path[1] /\ Tail(f) = Front(t) /\ Last(t) = path[L]
  <2>1. L > 1
    BY <1>1, <1>5 DEF Strings
  <2> HIDE DEF f, t
  <2>2. f # <<>> /\ Head(f) = path[1]
    <3>1. Len(f) # 0 /\ 1 \in 1..(L - 1)
      BY <1>1, <1>2, <2>1
    <3>2. f # <<>>
      BY <1>2, <3>1
    <3>. QED  BY <1>2, <3>1, <3>2, PathParts
  <2>3. Tail(f) \in Strings /\ Len(Tail(f)) = L - 2 /\ \A i \in 1..(L - 2) : Tail(f)[i] = f[i + 1]
    BY <1>1, <1>2, <2>2, PathParts
  <2>4. Front(t) \in Strings /\ Len(Front(t)) = L - 2 /\ \A i \in 1..(L - 2) : Front(t)[i] = t[i]
    <3>1. Front(t) = SubSeq(t, 1, L - 2) /\ L - 2 \in 0..Len(t)
      BY <1>1, <2>1 DEF Front
    <3>. QED  BY <1>1, <3>1, Prefix
  <2>5. \A i \in 1..(L - 2) : Tail(f)[i] = Front(t)[i]
    <3> TAKE i \in 1..(L - 2)
    <3>1. i \in 1..(L - 1) /\ i + 1 \in 1..(L - 1)
      BY <1>1
    <3>. QED  BY <1>1, <1>2, <2>3, <2>4, <3>1
  <2>6. Tail(f) = Front(t)
    <3>1. Tail(f) \in Seq(STRING) /\ Front(t) \in Seq(STRING) /\ Len(Tail(f)) = Len(Front(t))
      BY <2>3, <2>4 DEF Strings
    <3>2. \A i \in 1..Len(Tail(f)) : Tail(f)[i] = Front(t)[i]
      BY <2>3, <2>5
    <3>. QED  BY <3>1, <3>2, SeqEqual
  <2>7. Last(t) = path[L]
    <3>1. Last(t) = t[L - 1] /\ L - 1 \in 1..(L - 1)
      BY <1>1, <2>1 DEF Last
    <3>. QED  BY <1>1, <3>1
  <2>. QED  BY <2>2, <2>6, <2>7
<1>. QED  BY <1>1, <1>2, <1>3, <1>4, <1>5

LEMMA DelPathStep ==
    ASSUME NEW n, NEW path \in Strings, path # <<>>
    PROVE  LET a == Head(path)
               t == Tail(path)
               x == Child(n, a)
           IN /\ Lookup(x, t) = Absent => DelPath(n, path) = n
              /\ t = <<>> /\ x # Absent => DelPath(n, path) = RemoveChild(n, a)
              /\ t # <<>> /\ Lookup(x, t) # Absent
                    => DelPath(n, path) = Place(Into(n), a, DelPath(x, t))
<1> DEFINE a == Head(path)
           t == Tail(path)
           x == Child(n, a)
<1>0. t \in Strings
  BY PathParts
<1>1. Lookup(n, path) = Lookup(x, t) /\ t \in Strings
  BY LookupShift, PathParts
<1>2. Lookup(x, t) = Absent => DelPath(n, path) = n
  BY <1>1 DEF DelPath
<1>3. ASSUME t = <<>>, x # Absent PROVE DelPath(n, path) = RemoveChild(n, a)
  <2>1. Lookup(x, t) = x /\ Lookup(n, <<>>) = n
    BY <1>3, LookupEmpty
  <2>2. Front(path) = <<>> /\ Last(path) = a
    BY <1>3, PathEnds
  <2>3. DelPath(n, path) = SetPath(n, <<>>, RemoveChild(n, a))
    BY <1>1, <1>3, <2>1, <2>2 DEF DelPath
  <2>. QED  BY <2>3, SetPathEmpty
<1>4. ASSUME t # <<>>, Lookup(x, t) # Absent PROVE DelPath(n, path) = Place(Into(n), a, DelPath(x, t))
  <2>1. /\ Front(path) \in Strings /\ Front(path) # <<>> /\ Head(Front(path)) = a
        /\ Tail(Front(path)) = Front(t) /\ Last(t) = Last(path)
    BY <1>4, PathEnds
  <2> DEFINE y == RemoveChild(Lookup(x, Front(t)), Last(t))
  <2>2. Lookup(n, Front(path)) = Lookup(x, Front(t))
    BY <2>1, LookupShift
  <2>3. DelPath(n, path) = SetPath(n, Front(path), y)
    BY <1>1, <1>4, <2>1, <2>2 DEF DelPath
  <2>4. DelPath(x, t) = SetPath(x, Front(t), y)
    BY <1>4 DEF DelPath
  <2> HIDE DEF y
  <2>5. SetPath(n, Front(path), y)
           = Place(Into(n), Head(Front(path)), SetPath(Child(n, Head(Front(path))), Tail(Front(path)), y))
    BY <2>1, SetPathStep
  <2>6. SetPath(n, Front(path), y) = Place(Into(n), a, SetPath(x, Front(t), y))
    BY <2>1, <2>5
  <2>. QED  BY <2>3, <2>4, <2>6
<1>. QED  BY <1>2, <1>3, <1>4

--------------------------------------------------------------------------------
(* A set, a delete or nothing, done to a node: what is left there.               *)

IsOp(o) == /\ o = [cmd |-> o.cmd, path |-> o.path, val |-> o.val]
           /\ o.cmd \in {"set", "del", "nop"} /\ o.path \in Strings /\ IsTree(o.val)
Do(o, c) ==
    CASE o.cmd = "set" -> LET m == SetPath(c, o.path, o.val) IN IF m = Refused THEN c ELSE m
      [] o.cmd = "del" -> IF o.path = <<>> THEN Absent ELSE DelPath(c, o.path)
      [] o.cmd = "nop" -> c

\* The same, below the first segment of its path.
Low(o) == [cmd |-> o.cmd, path |-> Tail(o.path), val |-> o.val]

LEMMA LowOp ==
    ASSUME NEW o, IsOp(o), o.path # <<>>
    PROVE  /\ IsOp(Low(o)) /\ Low(o).cmd = o.cmd /\ Low(o).path = Tail(o.path) /\ Low(o).val = o.val
           /\ Head(o.path) \in STRING /\ Len(o.path) \in Nat /\ Len(Low(o).path) = Len(o.path) - 1
BY PathParts DEF IsOp, Low

LEMMA IntoTree ==
    ASSUME NEW c, Item(c)
    PROVE  /\ IsTree(Into(c)) /\ IsContainer(Into(c)) /\ Into(c).kind \in {"obj", "arr"}
           /\ IsContainer(c) => Into(c) = c
           /\ ~IsContainer(c) => Into(c) = NewObj
BY SimpleTrees, Kinds DEF Into, IsContainer, Item

LEMMA SetOnBare ==
    ASSUME NEW c, ~IsContainer(c), NEW path \in Strings, NEW v, IsTree(v)
    PROVE  /\ SetPath(c, path, v) = SetPath(Absent, path, v)
           /\ IsTree(SetPath(c, path, v))
<1>1. ~IsContainer(Absent)
  BY Kinds DEF IsContainer
<1>2. ASSUME NEW b, ~IsContainer(b), NEW p \in Strings, p # <<>>
      PROVE  SetPath(b, p, v) = Place(NewObj, Head(p), SetPath(Absent, Tail(p), v))
  <2>1. Child(b, Head(p)) = Absent /\ Into(b) = NewObj
    BY <1>2, ChildOfBare DEF Into
  <2>. QED  BY <1>2, <2>1, SetPathStep
<1> DEFINE S == {l \in Nat : \A p \in Strings : Len(p) = l => IsTree(SetPath(Absent, p, v))}
<1>3. 0 \in S
  <2>1. \A p \in Strings : Len(p) = 0 => p = <<>>
    BY DEF Strings
  <2>. QED  BY <2>1, SetPathEmpty
<1>4. ASSUME NEW l \in Nat, l \in S PROVE l + 1 \in S
  <2>1. ASSUME NEW p \in Strings, Len(p) = l + 1 PROVE IsTree(SetPath(Absent, p, v))
    <3>1. p # <<>>
      BY <2>1
    <3>2. Tail(p) \in Strings /\ Len(Tail(p)) = l /\ Head(p) \in STRING
      BY <2>1, <3>1, PathParts
    <3>3. IsTree(SetPath(Absent, Tail(p), v))
      BY <1>4, <3>2
    <3>4. IsTree(NewObj) /\ IsContainer(NewObj) /\ ~Bad(NewObj, Head(p))
      BY SimpleTrees, Kinds DEF IsContainer, Bad
    <3>5. IsTree(Place(NewObj, Head(p), SetPath(Absent, Tail(p), v)))
      BY <3>2, <3>3, <3>4, PlaceKids
    <3>. QED  BY <1>1, <1>2, <3>1, <3>5
  <2>. QED  BY <2>1
<1>5. Nat \subseteq S
  <2> HIDE DEF S
  <2>. QED  BY <1>3, <1>4, SetInduction
<1>6. Len(path) \in Nat
  BY DEF Strings
<1>7. IsTree(SetPath(Absent, path, v))
  BY <1>5, <1>6
<1>8. SetPath(c, path, v) = SetPath(Absent, path, v)
  <2>1. CASE path = <<>>
    BY <2>1, SetPathEmpty
  <2>2. CASE path # <<>>
    BY <1>1, <1>2, <2>2
  <2>. QED  BY <2>1, <2>2
<1>. QED  BY <1>7, <1>8

\* What Place may do, whatever the segment.
LEMMA PlaceTree ==
    ASSUME NEW n, IsTree(n), IsContainer(n), NEW s \in STRING, NEW x, IsTree(x) \/ x = Refused
    PROVE  Place(n, s, x) = Refused \/ IsTree(Place(n, s, x))
<1>1. CASE x = Refused
  BY <1>1, PlaceRefuses
<1>2. CASE IsTree(x) /\ ~Bad(n, s)
  BY <1>2, PlaceKids
<1>3. CASE IsTree(x) /\ Bad(n, s) /\ s # "-1"
  BY <1>3, PlaceRefuses
<1>4. CASE IsTree(x) /\ Bad(n, s) /\ s = "-1"
  <2>1. Place(n, s, x) = Appended(n, x) /\ n.kind = "arr"
    BY <1>4, PlaceRefuses, KindOfTree DEF Bad
  <2>. QED  BY <1>4, <2>1, AppendElemKids
<1>. QED  BY <1>1, <1>2, <1>3, <1>4

LEMMA SetTree ==
    ASSUME NEW c, Item(c), NEW path \in Strings, NEW v, IsTree(v)
    PROVE  SetPath(c, path, v) = Refused \/ IsTree(SetPath(c, path, v))
<1> DEFINE Good(p) == \A b : Item(b) => SetPath(b, p, v) = Refused \/ IsTree(SetPath(b, p, v))
           S == {l \in Nat : \A p \in Strings : Len(p) = l => Good(p)}
<1>1. 0 \in S
  <2>1. \A p \in Strings : Len(p) = 0 => p = <<>>
    BY DEF Strings
  <2>. QED  BY <2>1, SetPathEmpty
<1>2. ASSUME NEW l \in Nat, l \in S PROVE l + 1 \in S
  <2>1. ASSUME NEW p \in Strings, Len(p) = l + 1, NEW b, Item(b)
        PROVE  SetPath(b, p, v) = Refused \/ IsTree(SetPath(b, p, v))
    <3>1. p # <<>>
      BY <2>1
    <3>2. Tail(p) \in Strings /\ Len(Tail(p)) = l /\ Head(p) \in STRING
      BY <2>1, <3>1, PathParts
    <3> DEFINE x == SetPath(Child(b, Head(p)), Tail(p), v)
    <3>3. x = Refused \/ IsTree(x)
      BY <1>2, <2>1, <3>2, ChildItem
    <3> HIDE DEF x
    <3>4. Place(Into(b), Head(p), x) = Refused \/ IsTree(Place(Into(b), Head(p), x))
      BY <2>1, <3>2, <3>3, IntoTree, PlaceTree
    <3>. QED  BY <2>1, <3>1, <3>4, SetPathStep DEF x
  <2>. QED  BY <2>1
<1>3. Nat \subseteq S
  <2> HIDE DEF S
  <2>. QED  BY <1>1, <1>2, SetInduction
<1>4. Len(path) \in Nat
  BY DEF Strings
<1>. QED  BY <1>3, <1>4

LEMMA DelAbsent ==
    ASSUME NEW c, ~IsContainer(c), NEW path \in Strings, path # <<>>
    PROVE  DelPath(c, path) = c
BY LookupAbsent DEF DelPath

LEMMA NoPads ==
    ASSUME NEW n, IsTree(n), NEW d, NEW p,
           Kid(n, p) # Absent \/ (n.kind = "arr" /\ p = End(n))
    PROVE  ~Pads(n, d, p)
<1>1. CASE n.kind # "arr"
  BY <1>1 DEF Pads
<1>2. CASE n.kind = "arr"
  <2>1. PICK T : /\ Trees(T) /\ n.elems \in Seq(T) /\ Len(n.elems) \in Nat
                 /\ \A b : Kid(n, b) = IF b \in 1..Len(n.elems) THEN n.elems[b] ELSE Absent
    BY <1>2, ArrElems
  <2>2. \A b \in 1..Len(n.elems) : Kid(n, b) # Absent
    <3>1. \A y \in T : y # Absent
      BY <2>1, KindOfTree DEF Trees
    <3>. QED  BY <2>1, <3>1
  <2>3. p \in 1..(Len(n.elems) + 1)
    BY <1>2, <2>1 DEF End
  <2>4. d \in 1..(p - 1) => d \in 1..Len(n.elems)
    BY <2>1, <2>3
  <2>. QED  BY <2>2, <2>4 DEF Pads
<1>. QED  BY <1>1, <1>2

\* The place that a segment names in a container, for a set the one of an append too.
Where(n, s) == IF Bad(n, s) THEN End(n) ELSE Pos(n, s)

\* What an operation does not change, by the kind of the node.
Stays(o, c) ==
    \/ o.cmd = "nop"
    \/ o.cmd = "set" /\ Bad(Into(c), Head(o.path)) /\ Head(o.path) # "-1"
    \/ o.cmd = "del" /\ (~IsContainer(c) \/ Bad(c, Head(o.path)))
\* A delete that moves elements down.
Shifts(o, c) == o.cmd = "del" /\ Tail(o.path) = <<>> /\ c.kind = "arr"

LEMMA StaysSame ==
    ASSUME NEW o, IsOp(o), o.path # <<>>, NEW c, Item(c), Stays(o, c)
    PROVE  Do(o, c) = c
<1> DEFINE a == Head(o.path)
           t == Tail(o.path)
<1>0. o.path \in Strings /\ t \in Strings
  BY LowOp, PathParts DEF IsOp
<1>1. CASE o.cmd = "nop"
  BY <1>1 DEF Do
<1>2. CASE o.cmd = "set" /\ Bad(Into(c), a) /\ a # "-1"
  <2> DEFINE x == SetPath(Child(c, a), t, o.val)
  <2>1. SetPath(c, o.path, o.val) = Place(Into(c), a, x)
    BY <1>0, SetPathStep
  <2> HIDE DEF x, a
  <2>2. Place(Into(c), a, x) = Refused
    BY <1>2, IntoTree, PlaceRefuses
  <2>. QED  BY <1>2, <2>1, <2>2 DEF Do
<1>3. CASE o.cmd = "del" /\ ~IsContainer(c)
  BY <1>0, <1>3, DelAbsent DEF Do
<1>4. CASE o.cmd = "del" /\ Bad(c, a)
  <2>1. Child(c, a) = Absent
    BY <1>4, ChildIsKid
  <2>2. Lookup(Absent, t) = Absent
    BY <1>0, LookupAbsent, LookupStep, Kinds DEF IsContainer
  <2>3. DelPath(c, o.path) = c
    <3>1. Lookup(c, o.path) = Absent
      BY <1>0, <2>1, <2>2, LookupShift
    <3>. QED  BY <3>1 DEF DelPath
  <2>. QED  BY <1>4, <2>3 DEF Do
<1>. QED  BY <1>1, <1>2, <1>3, <1>4 DEF Stays

LEMMA WhereOf ==
    ASSUME NEW n, IsTree(n), IsContainer(n), NEW a, ~Bad(n, a)
    PROVE  Where(n, a) = Pos(n, a) /\ Child(n, a) = Kid(n, Where(n, a))
BY ChildIsKid DEF Where, Item

\* What a set does to the children of a node.
LEMMA SetLevel ==
    ASSUME NEW o, IsOp(o), o.path # <<>>, o.cmd = "set", NEW c, Item(c), ~Stays(o, c),
           NEW n, n = Into(c), NEW a, a = Head(o.path), NEW p, p = Where(n, a),
           NEW m, m = Do(o, c)
    PROVE  /\ IsTree(m) /\ m.kind = n.kind
           /\ \A d : Kid(m, d) = IF d = p THEN Do(Low(o), Kid(n, p))
                                 ELSE IF Pads(n, d, p) THEN Nil ELSE Kid(n, d)
<1> DEFINE t == Tail(o.path)
           x == Child(c, a)
           y == SetPath(x, t, o.val)
<1>1. /\ o.path \in Strings /\ t \in Strings /\ a \in STRING /\ IsTree(o.val) /\ Item(x)
      /\ IsOp(Low(o)) /\ Low(o).cmd = "set" /\ Low(o).path = t /\ Low(o).val = o.val
  BY LowOp, PathParts, ChildItem DEF IsOp
<1>2. IsTree(n) /\ IsContainer(n) /\ Child(n, a) = x
  BY IntoTree, ChildOfInto
<1>3. SetPath(c, o.path, o.val) = Place(n, a, y)
  BY <1>1, SetPathStep
<1>4. y = Refused \/ IsTree(y)
  BY <1>1, SetTree
<1>5. \A b : Do(Low(o), b) = LET z == SetPath(b, t, o.val) IN IF z = Refused THEN b ELSE z
  BY <1>1 DEF Do
<1>6. m = IF Place(n, a, y) = Refused THEN c ELSE Place(n, a, y)
  BY <1>3 DEF Do
<1> HIDE DEF y, x, t
<1>7. CASE Bad(n, a)
  <2>1. a = "-1" /\ n.kind = "arr"
    BY <1>7 DEF Stays, Bad
  <2>2. x = Absent
    BY <1>2, <1>7, ChildIsKid DEF Item
  <2>3. IsTree(y) /\ y # Refused
    BY <1>1, <2>2, SetOnBare, KindOfTree, Kinds DEF IsContainer, y
  <2>4. Place(n, a, y) = Appended(n, y)
    BY <1>2, <1>7, <2>1, <2>3, PlaceRefuses
  <2>5. Place(n, a, y) # Refused
    BY <2>4, Kinds DEF Appended
  <2>6. m = Appended(n, y)
    BY <1>6, <2>4, <2>5
  <2>7. /\ IsTree(m) /\ m.kind = "arr"
        /\ \A d : Kid(m, d) = IF d = End(n) THEN y ELSE Kid(n, d)
    BY <1>2, <2>1, <2>3, <2>6, AppendElemKids
  <2>8. p = End(n)
    BY <1>7 DEF Where
  <2>9. \A d : ~Pads(n, d, p)
    BY <1>2, <2>1, <2>8, NoPads
  <2>10. Kid(n, p) = Absent
    <3>1. PICK T : /\ Trees(T) /\ n.elems \in Seq(T) /\ Len(n.elems) \in Nat
                   /\ \A b : Kid(n, b) = IF b \in 1..Len(n.elems) THEN n.elems[b] ELSE Absent
      BY <1>2, <2>1, ArrElems
    <3>2. p \notin 1..Len(n.elems)
      BY <2>8, <3>1 DEF End
    <3>. QED  BY <3>1, <3>2
  <2>11. Do(Low(o), Kid(n, p)) = y
    BY <1>5, <2>2, <2>3, <2>10 DEF y
  <2>. QED  BY <2>1, <2>7, <2>8, <2>9, <2>11
<1>8. CASE ~Bad(n, a)
  <2>1. p = Pos(n, a) /\ x = Kid(n, p)
    BY <1>2, <1>8, WhereOf
  <2>2. CASE IsTree(y)
    <3>1. y # Refused
      BY <2>2, KindOfTree
    <3> DEFINE q == Place(n, a, y)
    <3>2. /\ IsTree(q) /\ q.kind = n.kind /\ q # Refused
          /\ \A d : Kid(q, d) = IF d = Pos(n, a) THEN y
                                ELSE IF Pads(n, d, Pos(n, a)) THEN Nil ELSE Kid(n, d)
      BY <1>1, <1>2, <1>8, <2>2, PlaceKids
    <3>3. m = q
      BY <1>6, <3>2
    <3>4. Do(Low(o), Kid(n, p)) = y
      BY <1>5, <2>1, <3>1 DEF y
    <3> HIDE DEF q
    <3>. QED  BY <2>1, <3>2, <3>3, <3>4
  <2>3. CASE y = Refused
    <3>1. m = c
      BY <1>2, <1>6, <2>3, PlaceRefuses
    <3>2. IsContainer(x)
      <4>1. ASSUME ~IsContainer(x) PROVE FALSE
        <5>1. IsTree(y)
          BY <1>1, <4>1, SetOnBare DEF y
        <5>. QED  BY <2>3, <5>1, KindOfTree
      <4>. QED  BY <4>1
    <3>3. x # Absent
      BY <3>2, Kinds DEF IsContainer
    <3>4. IsContainer(c)
      BY <3>3, ChildOfBare DEF x
    <3>5. n = c
      BY <3>4, IntoTree
    <3>6. \A d : ~Pads(n, d, p)
      BY <1>2, <2>1, <3>3, NoPads
    <3>7. Do(Low(o), Kid(n, p)) = Kid(n, p)
      BY <1>5, <2>1, <2>3 DEF y
    <3>. QED  BY <1>2, <3>1, <3>5, <3>6, <3>7
  <2>. QED  BY <1>4, <2>2, <2>3
<1>. QED  BY <1>7, <1>8

LEMMA DelTree ==
    ASSUME NEW c, IsTree(c), NEW path \in Strings, path # <<>>
    PROVE  IsTree(DelPath(c, path))
<1> DEFINE Good(p) == \A b : IsTree(b) /\ p # <<>> => IsTree(DelPath(b, p))
           S == {l \in Nat : \A p \in Strings : Len(p) = l => Good(p)}
<1>1. 0 \in S
  <2>1. \A p \in Strings : Len(p) = 0 => p = <<>>
    BY DEF Strings
  <2>. QED  BY <2>1
<1>2. ASSUME NEW l \in Nat, l \in S PROVE l + 1 \in S
  <2>1. ASSUME NEW p \in Strings, Len(p) = l + 1, NEW b, IsTree(b), p # <<>>
        PROVE  IsTree(DelPath(b, p))
    <3> DEFINE a == Head(p)
               t == Tail(p)
               x == Child(b, a)
    <3>1. t \in Strings /\ Len(t) = l /\ a \in STRING /\ Item(x)
      BY <2>1, PathParts, ChildItem DEF Item
    <3>2. /\ Lookup(x, t) = Absent => DelPath(b, p) = b
          /\ t = <<>> /\ x # Absent => DelPath(b, p) = RemoveChild(b, a)
          /\ t # <<>> /\ Lookup(x, t) # Absent => DelPath(b, p) = Place(Into(b), a, DelPath(x, t))
      BY <2>1, DelPathStep
    <3>3. x # Absent => IsContainer(b) /\ ~Bad(b, a) /\ Kid(b, Pos(b, a)) = x
      BY <2>1, ChildOfBare, ChildIsKid DEF Item
    <3>4. t = <<>> => Lookup(x, t) = x
      BY LookupEmpty
    <3>5. t # <<>> /\ x = Absent => Lookup(x, t) = Absent
      BY <3>1, LookupAbsent, Kinds DEF IsContainer
    <3> HIDE DEF a, t, x
    <3>6. CASE t = <<>> /\ x # Absent /\ b.kind = "obj"
      BY <2>1, <3>2, <3>6, DelKeyKids DEF RemoveChild
    <3>7. CASE t = <<>> /\ x # Absent /\ b.kind = "arr"
      <4>1. PICK T : /\ Trees(T) /\ b.elems \in Seq(T) /\ Len(b.elems) \in Nat
                     /\ \A d : Kid(b, d) = IF d \in 1..Len(b.elems) THEN b.elems[d] ELSE Absent
        BY <2>1, <3>7, ArrElems
      <4>2. Index(a) \in 1..Len(b.elems)
        BY <3>3, <3>7, <4>1 DEF Pos
      <4>3. DelPath(b, p) = Arr(RemoveAt(b.elems, Index(a)))
        BY <3>2, <3>7, Kinds DEF RemoveChild
      <4>. QED  BY <2>1, <3>7, <4>2, <4>3, RemoveElemKids
    <3>8. CASE t # <<>> /\ x # Absent
      <4>1. IsTree(DelPath(x, t))
        BY <1>2, <3>1, <3>8 DEF Item
      <4>2. Into(b) = b
        BY <3>3, <3>8 DEF Into
      <4>3. IsTree(Place(b, a, DelPath(x, t)))
        BY <2>1, <3>1, <3>3, <3>8, <4>1, PlaceKids
      <4>. QED  BY <2>1, <3>2, <3>8, <4>2, <4>3
    <3>9. CASE x = Absent
      BY <2>1, <3>2, <3>4, <3>5, <3>9
    <3>. QED  BY <3>3, <3>6, <3>7, <3>8, <3>9 DEF IsContainer
  <2>. QED  BY <2>1
<1>3. Nat \subseteq S
  <2> HIDE DEF S
  <2>. QED  BY <1>1, <1>2, SetInduction
<1>4. Len(path) \in Nat
  BY DEF Strings
<1>. QED  BY <1>3, <1>4

\* What a delete does to the children of a node.
LEMMA DelLevel ==
    ASSUME NEW o, IsOp(o), o.path # <<>>, o.cmd = "del", NEW c, Item(c), ~Stays(o, c), ~Shifts(o, c),
           NEW p, p = Where(c, Head(o.path)), NEW m, m = Do(o, c)
    PROVE  /\ IsTree(c) /\ Into(c) = c /\ IsTree(m) /\ m.kind = c.kind
           /\ \A d : Kid(m, d) = IF d = p THEN Do(Low(o), Kid(c, p)) ELSE Kid(c, d)
<1> DEFINE a == Head(o.path)
           t == Tail(o.path)
           x == Child(c, a)
<1>1. /\ o.path \in Strings /\ t \in Strings /\ a \in STRING
      /\ Low(o).cmd = "del" /\ Low(o).path = t
  BY LowOp, PathParts DEF IsOp
<1>2. IsContainer(c) /\ ~Bad(c, a)
  BY DEF Stays
<1>3. IsTree(c) /\ Into(c) = c
  BY <1>2, Kinds DEF Item, Into, IsContainer
<1>4. p = Pos(c, a) /\ x = Kid(c, p) /\ Item(x)
  BY <1>2, <1>3, WhereOf, ChildItem
<1>5. /\ Lookup(x, t) = Absent => DelPath(c, o.path) = c
      /\ t = <<>> /\ x # Absent => DelPath(c, o.path) = RemoveChild(c, a)
      /\ t # <<>> /\ Lookup(x, t) # Absent => DelPath(c, o.path) = Place(Into(c), a, DelPath(x, t))
  BY <1>1, DelPathStep
<1>6. m = DelPath(c, o.path)
  BY DEF Do
<1>7. \A b : Do(Low(o), b) = IF t = <<>> THEN Absent ELSE DelPath(b, t)
  BY <1>1 DEF Do
<1>8. t = <<>> => Lookup(x, t) = x
  BY LookupEmpty
<1>9. t = <<>> => c.kind = "obj"
  BY <1>2 DEF Shifts, IsContainer
<1>10. x = Absent /\ t # <<>> => Lookup(x, t) = Absent
  BY <1>1, LookupAbsent, Kinds DEF IsContainer
<1> HIDE DEF a, t, x
<1>11. CASE Lookup(x, t) = Absent
  <2>1. m = c
    BY <1>5, <1>6, <1>11
  <2>2. Do(Low(o), x) = x
    BY <1>7, <1>8, <1>11 DEF DelPath
  <2>. QED  BY <1>3, <1>4, <2>1, <2>2
<1>12. CASE t = <<>> /\ x # Absent
  <2>1. m = DelKey(c, a) /\ p = a
    BY <1>4, <1>5, <1>6, <1>9, <1>12 DEF RemoveChild, Pos
  <2>2. /\ IsTree(m) /\ m.kind = "obj"
        /\ \A d : Kid(m, d) = IF d = a THEN Absent ELSE Kid(c, d)
    BY <1>3, <1>9, <1>12, <2>1, DelKeyKids
  <2>. QED  BY <1>3, <1>7, <1>9, <1>12, <2>1, <2>2
<1>13. CASE t # <<>> /\ Lookup(x, t) # Absent
  <2>1. IsTree(x) /\ x # Absent
    BY <1>4, <1>10, <1>13 DEF Item
  <2>2. IsTree(DelPath(x, t))
    BY <1>1, <1>13, <2>1, DelTree
  <2> DEFINE q == Place(c, a, DelPath(x, t))
  <2>3. m = q
    BY <1>3, <1>5, <1>6, <1>13
  <2>4. /\ IsTree(q) /\ q.kind = c.kind
        /\ \A d : Kid(q, d) = IF d = Pos(c, a) THEN DelPath(x, t)
                              ELSE IF Pads(c, d, Pos(c, a)) THEN Nil ELSE Kid(c, d)
    BY <1>1, <1>2, <1>3, <2>2, PlaceKids
  <2>5. \A d : ~Pads(c, d, p)
    BY <1>3, <1>4, <2>1, NoPads
  <2>6. Do(Low(o), Kid(c, p)) = DelPath(x, t)
    BY <1>4, <1>7, <1>13
  <2> HIDE DEF q
  <2>. QED  BY <1>3, <1>4, <2>3, <2>4, <2>5, <2>6
<1>. QED  BY <1>8, <1>11, <1>12, <1>13

--------------------------------------------------------------------------------
(* Trees that readers cannot tell apart: so are their children, all the way down. *)

Alike(R) == \A r \in R : /\ Face(r[1]) = Face(r[2])
                         /\ \A d : <<Kid(r[1], d), Kid(r[2], d)>> \in R
Same(p, q) == \E R : <<p, q>> \in R /\ Alike(R)

LEMMA SameUnfold ==
    ASSUME NEW p, NEW q, Same(p, q)
    PROVE  Face(p) = Face(q) /\ \A d : Same(Kid(p, d), Kid(q, d))
<1>1. PICK R : <<p, q>> \in R /\ Alike(R)
  BY DEF Same
<1>2. Face(p) = Face(q) /\ \A d : <<Kid(p, d), Kid(q, d)>> \in R
  BY <1>1 DEF Alike
<1>. QED  BY <1>1, <1>2 DEF Same

LEMMA SameAbsent == Same(Absent, Absent)
<1>1. \A d : Kid(Absent, d) = Absent
  BY BareKids, Kinds
<1>2. Alike({<<Absent, Absent>>})
  BY <1>1 DEF Alike
<1>. QED  BY <1>2 DEF Same

LEMMA SameFold ==
    ASSUME NEW p, NEW q, Face(p) = Face(q), \A d : Same(Kid(p, d), Kid(q, d))
    PROVE  Same(p, q)
<1> DEFINE D == DOMAIN Sub(p) \cup DOMAIN Sub(q)
           Of(d) == CHOOSE R : <<Kid(p, d), Kid(q, d)>> \in R /\ Alike(R)
           U == {<<p, q>>} \cup {<<Absent, Absent>>} \cup UNION {Of(d) : d \in D}
<1>1. \A d : <<Kid(p, d), Kid(q, d)>> \in Of(d) /\ Alike(Of(d))
  BY DEF Same
<1>2. \A d : d \notin D => Kid(p, d) = Absent /\ Kid(q, d) = Absent
  BY DEF Kid
<1>3. \A d : <<Kid(p, d), Kid(q, d)>> \in U
  BY <1>1, <1>2
<1>4. \A d : Kid(Absent, d) = Absent
  BY BareKids, Kinds
<1>5. ASSUME NEW r \in U
      PROVE  Face(r[1]) = Face(r[2]) /\ \A d : <<Kid(r[1], d), Kid(r[2], d)>> \in U
  <2>1. CASE r = <<p, q>>
    BY <1>3, <2>1
  <2>2. CASE r = <<Absent, Absent>>
    BY <1>4, <2>2
  <2>3. CASE \E d \in D : r \in Of(d)
    <3>1. PICK d \in D : r \in Of(d)
      BY <2>3
    <3>2. Of(d) \subseteq U
      OBVIOUS
    <3> HIDE DEF U, Of
    <3>3. Face(r[1]) = Face(r[2]) /\ \A e : <<Kid(r[1], e), Kid(r[2], e)>> \in Of(d)
      BY <1>1, <3>1 DEF Alike
    <3>. QED  BY <3>2, <3>3
  <2>. QED  BY <2>1, <2>2, <2>3
<1>6. Alike(U) /\ <<p, q>> \in U
  <2>1. <<p, q>> \in U
    OBVIOUS
  <2> HIDE DEF U
  <2>. QED  BY <1>5, <2>1 DEF Alike
<1>. QED  BY <1>6 DEF Same

LEMMA KidInProper ==
    ASSUME NEW S, Proper(S), NEW n \in S, NEW d
    PROVE  Kid(n, d) \in S \cup {Absent}
<1>1. n = Nil \/ IsLeaf(n) \/ ArrIn(n, S) \/ ObjIn(n, S)
  BY DEF Proper
<1>2. CASE n = Nil \/ IsLeaf(n)
  BY <1>2, Kinds, BareKids
<1>3. CASE ArrIn(n, S)
  BY <1>3, ArrKids DEF Kid
<1>4. CASE ObjIn(n, S)
  BY <1>4, ObjKids DEF Kid
<1>. QED  BY <1>1, <1>2, <1>3, <1>4

LEMMA SameSelf ==
    ASSUME NEW p, Item(p)
    PROVE  Same(p, p)
<1>1. CASE p = Absent
  BY <1>1, SameAbsent
<1>2. CASE IsTree(p)
  <2>1. PICK S : p \in S /\ Proper(S)
    BY <1>2 DEF IsTree
  <2> DEFINE R == {<<x, x>> : x \in S \cup {Absent}}
  <2>2. ASSUME NEW x \in S \cup {Absent}, NEW d PROVE <<Kid(x, d), Kid(x, d)>> \in R
    <3>1. Kid(x, d) \in S \cup {Absent}
      BY <2>1, KidInProper, BareKids, Kinds
    <3>. QED  BY <3>1
  <2>3. \A r \in R : \E x \in S \cup {Absent} : r = <<x, x>>
    OBVIOUS
  <2>4. <<p, p>> \in R
    BY <2>1
  <2> HIDE DEF R
  <2>5. Alike(R)
    BY <2>2, <2>3 DEF Alike
  <2>. QED  BY <2>4, <2>5 DEF Same
<1>. QED  BY <1>1, <1>2 DEF Item

LEMMA SameBack ==
    ASSUME NEW p, NEW q, Same(p, q)
    PROVE  Same(q, p)
<1>1. PICK R : <<p, q>> \in R /\ Alike(R)
  BY DEF Same
<1> DEFINE B == {<<r[2], r[1]>> : r \in R}
<1>2. <<q, p>> \in B
  BY <1>1
<1>3. ASSUME NEW b \in B PROVE Face(b[1]) = Face(b[2]) /\ \A d : <<Kid(b[1], d), Kid(b[2], d)>> \in B
  <2>1. PICK r \in R : b = <<r[2], r[1]>>
    OBVIOUS
  <2>2. Face(r[1]) = Face(r[2]) /\ \A d : <<Kid(r[1], d), Kid(r[2], d)>> \in R
    BY <1>1 DEF Alike
  <2>3. \A d : <<Kid(r[2], d), Kid(r[1], d)>> \in B
    <3> TAKE d
    <3> DEFINE e == <<Kid(r[1], d), Kid(r[2], d)>>
    <3>1. e \in R /\ <<e[2], e[1]>> = <<Kid(r[2], d), Kid(r[1], d)>>
      BY <2>2
    <3> HIDE DEF e
    <3>. QED  BY <3>1
  <2>. QED  BY <2>1, <2>2, <2>3
<1> HIDE DEF B
<1>4. Alike(B)
  BY <1>3 DEF Alike
<1>. QED  BY <1>2, <1>4 DEF Same

LEMMA SameThrough ==
    ASSUME NEW p, NEW q, NEW z, Same(p, q), Same(q, z)
    PROVE  Same(p, z)
<1>1. PICK R : <<p, q>> \in R /\ Alike(R)
  BY DEF Same
<1>2. PICK T : <<q, z>> \in T /\ Alike(T)
  BY DEF Same
<1> DEFINE M == {u \in R \X T : u[1][2] = u[2][1]}
           B == {<<u[1][1], u[2][2]>> : u \in M}
<1>3. ASSUME NEW r \in R, NEW t \in T, r[2] = t[1] PROVE <<r[1], t[2]>> \in B
  <2> DEFINE u == <<r, t>>
  <2>1. u \in M /\ u[1] = r /\ u[2] = t
    BY <1>3
  <2> HIDE DEF u, M
  <2>. QED  BY <2>1
<1>4. <<p, z>> \in B
  <2>1. <<p, q>>[1] = p /\ <<p, q>>[2] = <<q, z>>[1] /\ <<q, z>>[2] = z
    OBVIOUS
  <2> HIDE DEF B
  <2>. QED  BY <1>1, <1>2, <1>3, <2>1
<1>5. ASSUME NEW b \in B PROVE Face(b[1]) = Face(b[2]) /\ \A d : <<Kid(b[1], d), Kid(b[2], d)>> \in B
  <2>1. PICK r \in R, t \in T : r[2] = t[1] /\ b = <<r[1], t[2]>>
    OBVIOUS
  <2>2. Face(r[1]) = Face(r[2]) /\ \A d : <<Kid(r[1], d), Kid(r[2], d)>> \in R
    BY <1>1 DEF Alike
  <2>3. Face(t[1]) = Face(t[2]) /\ \A d : <<Kid(t[1], d), Kid(t[2], d)>> \in T
    BY <1>2 DEF Alike
  <2> HIDE DEF B
  <2>4. ASSUME NEW d PROVE <<Kid(r[1], d), Kid(t[2], d)>> \in B
    <3> DEFINE e == <<Kid(r[1], d), Kid(r[2], d)>>
               f == <<Kid(t[1], d), Kid(t[2], d)>>
    <3>1. e \in R /\ f \in T
      BY <2>2, <2>3
    <3>2. e[1] = Kid(r[1], d) /\ e[2] = Kid(r[2], d) /\ f[1] = Kid(t[1], d) /\ f[2] = Kid(t[2], d)
      OBVIOUS
    <3> HIDE DEF e, f
    <3>3. e[2] = f[1]
      BY <2>1, <3>2
    <3>4. <<e[1], f[2]>> \in B
      BY <1>3, <3>1, <3>3
    <3>. QED  BY <3>2, <3>4
  <2>. QED  BY <2>1, <2>2, <2>3, <2>4
<1> HIDE DEF B
<1>6. Alike(B)
  BY <1>5 DEF Alike
<1>. QED  BY <1>4, <1>6 DEF Same

LEMMA FaceKinds ==
    ASSUME NEW p, Item(p)
    PROVE  /\ Face(p).kind = IF p.kind = "nil" THEN "leaf" ELSE p.kind
           /\ p.kind \in {"nil", "leaf", "arr", "obj", "absent"}
           /\ p.kind = "absent" <=> p = Absent
<1>1. CASE p = Absent
  BY <1>1, Kinds DEF Face, IsContainer
<1>2. CASE IsTree(p)
  <2>1. p.kind \in {"nil", "leaf", "arr", "obj"} /\ p # Absent
    BY <1>2, KindOfTree
  <2>2. Null.kind = "leaf"
    BY DEF Null, Leaf
  <2>. QED  BY <2>1, <2>2 DEF Face, IsContainer
<1>. QED  BY <1>1, <1>2 DEF Item

LEMMA SameKinds ==
    ASSUME NEW p, Item(p), NEW q, Item(q), Same(p, q)
    PROVE  /\ p = Absent <=> q = Absent
           /\ IsContainer(p) <=> IsContainer(q)
           /\ IsContainer(p) => p.kind = q.kind
BY SameUnfold, FaceKinds DEF IsContainer

LEMMA SameOfContainers ==
    ASSUME NEW p, NEW q, IsContainer(p), p.kind = q.kind, \A d : Same(Kid(p, d), Kid(q, d))
    PROVE  Same(p, q)
<1>1. Face(p) = Face(q)
  BY DEF Face, IsContainer
<1>. QED  BY <1>1, SameFold

\* What readers see at a path.
LEMMA SameSeen ==
    ASSUME NEW p, Item(p), NEW q, Item(q), Same(p, q), NEW path \in Strings
    PROVE  /\ Seen(p, path) = Seen(q, path)
           /\ Item(Lookup(p, path))
<1> DEFINE Good(t) == \A b, c : Item(b) /\ Item(c) /\ Same(b, c)
                          => /\ Item(Lookup(b, t)) /\ Item(Lookup(c, t))
                             /\ Same(Lookup(b, t), Lookup(c, t))
           S == {l \in Nat : \A t \in Strings : Len(t) = l => Good(t)}
<1>1. 0 \in S
  <2>1. \A t \in Strings : Len(t) = 0 => t = <<>>
    BY DEF Strings
  <2>. QED  BY <2>1, LookupEmpty
<1>2. ASSUME NEW l \in Nat, l \in S PROVE l + 1 \in S
  <2>1. ASSUME NEW t \in Strings, Len(t) = l + 1, NEW b, NEW c, Item(b), Item(c), Same(b, c)
        PROVE  /\ Item(Lookup(b, t)) /\ Item(Lookup(c, t))
               /\ Same(Lookup(b, t), Lookup(c, t))
    <3> DEFINE a == Head(t)
               u == Tail(t)
    <3>1. t # <<>>
      BY <2>1
    <3>2. u \in Strings /\ Len(u) = l
      BY <2>1, <3>1, PathParts
    <3>3. Lookup(b, t) = Lookup(Child(b, a), u) /\ Lookup(c, t) = Lookup(Child(c, a), u)
      BY <2>1, <3>1, LookupShift
    <3>4. Item(Child(b, a)) /\ Item(Child(c, a))
      BY <2>1, ChildItem
    <3>5. Same(Child(b, a), Child(c, a))
      <4>1. CASE ~IsContainer(b)
        <5>1. ~IsContainer(c)
          BY <2>1, <4>1, SameKinds
        <5>. QED  BY <4>1, <5>1, ChildOfBare, SameAbsent
      <4>2. CASE IsContainer(b)
        <5>1. b.kind = c.kind
          BY <2>1, <4>2, SameKinds
        <5>2. (Bad(b, a) <=> Bad(c, a)) /\ Pos(b, a) = Pos(c, a)
          BY <5>1 DEF Bad, Pos
        <5>3. Same(Kid(b, Pos(b, a)), Kid(c, Pos(b, a)))
          BY <2>1, SameUnfold
        <5>. QED  BY <2>1, <5>2, <5>3, ChildIsKid, SameAbsent
      <4>. QED  BY <4>1, <4>2
    <3> HIDE DEF a, u
    <3>6. Good(u)
      BY <1>2, <3>2
    <3>. QED  BY <3>3, <3>4, <3>5, <3>6
  <2>. QED  BY <2>1
<1>3. Nat \subseteq S
  <2> HIDE DEF S
  <2>. QED  BY <1>1, <1>2, SetInduction
<1>4. Len(path) \in Nat
  BY DEF Strings
<1>5. Item(Lookup(p, path)) /\ Item(Lookup(q, path)) /\ Same(Lookup(p, path), Lookup(q, path))
  BY <1>3, <1>4
<1>6. Face(Lookup(p, path)) = Face(Lookup(q, path))
  BY <1>5, SameUnfold
<1>. QED  BY <1>5, <1>6 DEF Seen, Face

LEMMA DoItem ==
    ASSUME NEW o, IsOp(o), NEW c, Item(c)
    PROVE  Item(Do(o, c))
<1>1. CASE o.cmd = "set"
  BY <1>1, SetTree DEF Do, Item, IsOp
<1>2. CASE o.cmd = "del"
  <2>1. CASE o.path = <<>> \/ c = Absent
    BY <1>2, <2>1, DelAbsent, Kinds DEF Do, Item, IsContainer, IsOp
  <2>2. CASE o.path # <<>> /\ c # Absent
    BY <1>2, <2>2, DelTree DEF Do, Item, IsOp
  <2>. QED  BY <2>1, <2>2
<1>3. CASE o.cmd = "nop"
  BY <1>3 DEF Do
<1>. QED  BY <1>1, <1>2, <1>3 DEF IsOp

--------------------------------------------------------------------------------
(* Operations that it does no harm to repeat.                                    *)

Rep(o) ==
    /\ IsOp(o) /\ "-1" \notin ToSet(o.path)
    /\ o.cmd = "del" /\ o.path # <<>> => ~IsIndex(Last(o.path))

LEMMA RepLow ==
    ASSUME NEW o, Rep(o), o.path # <<>>
    PROVE  /\ Rep(Low(o)) /\ Head(o.path) # "-1"
           /\ o.cmd = "del" /\ Tail(o.path) = <<>> => ~IsIndex(Head(o.path))
<1> DEFINE path == o.path
           t == Tail(o.path)
<1>1. path \in Strings /\ IsOp(Low(o)) /\ Low(o).cmd = o.cmd /\ Low(o).path = t
  BY LowOp DEF Rep, IsOp
<1>2. /\ Len(path) \in Nat /\ Len(path) > 0 /\ Head(path) = path[1]
      /\ t \in Strings /\ Len(t) = Len(path) - 1 /\ \A i \in 1..(Len(path) - 1) : t[i] = path[i + 1]
  BY <1>1, PathParts
<1>3. \A i \in 1..Len(path) : path[i] # "-1"
  <2>1. ToSet(path) = {path[i] : i \in 1..Len(path)}
    BY <1>1 DEF ToSet, Strings
  <2>. QED  BY <2>1 DEF Rep
<1>4. \A i \in 1..Len(t) : t[i] # "-1"
  BY <1>2, <1>3
<1>5. "-1" \notin ToSet(t)
  <2> HIDE DEF t
  <2>1. ToSet(t) = {t[i] : i \in 1..Len(t)}
    BY <1>2 DEF ToSet, Strings
  <2>. QED  BY <1>4, <2>1
<1>6. Head(path) # "-1"
  BY <1>2, <1>3
<1>7. t = <<>> => Last(path) = Head(path)
  BY <1>1, PathEnds
<1>8. t # <<>> => Last(t) = Last(path)
  BY <1>1, PathEnds
<1>. QED  BY <1>1, <1>5, <1>6, <1>7, <1>8 DEF Rep

\* What an operation makes of the child at a place d of a container of some kind.
At(o, kind) == IF kind = "arr" THEN Index(Head(o.path)) ELSE Head(o.path)
Fits(o, kind) == /\ kind \in {"obj", "arr"}
                 /\ o.cmd # "nop" => o.path # <<>> /\ (kind = "arr" => IsIndex(Head(o.path)))
Fills(o, kind, d, x) == o.cmd = "set" /\ kind = "arr" /\ d \in 1..(At(o, kind) - 1) /\ x = Absent
Makes(o, kind, d, x) ==
    IF o.cmd = "nop" THEN x
    ELSE IF d = At(o, kind) THEN Do(Low(o), x)
    ELSE IF Fills(o, kind, d, x) THEN Nil ELSE x

LEMMA RepLevel ==
    ASSUME NEW o, Rep(o), o.path # <<>>, NEW c, Item(c), ~Stays(o, c), NEW m, m = Do(o, c),
           NEW n, n = Into(c)
    PROVE  /\ Fits(o, n.kind) /\ IsTree(m) /\ m.kind = n.kind /\ o.cmd # "nop"
           /\ \A d : Kid(m, d) = Makes(o, n.kind, d, Kid(n, d))
<1> DEFINE a == Head(o.path)
<1>1. IsTree(n) /\ IsContainer(n) /\ n.kind \in {"obj", "arr"}
  BY IntoTree
<1>2. a # "-1" /\ o.cmd # "nop" /\ IsOp(o)
  BY RepLow DEF Stays, Rep
<1>3. ~Bad(n, a)
  <2>1. o.cmd = "del" => n = c
    BY IntoTree DEF Stays
  <2>. QED  BY <1>2, <2>1 DEF Stays, IsOp
<1>4. Where(n, a) = At(o, n.kind)
  BY <1>3 DEF Where, Pos, At
<1>5. Fits(o, n.kind)
  BY <1>1, <1>3 DEF Fits, Bad
<1> DEFINE p == Where(n, a)
<1>6. CASE o.cmd = "set"
  <2>1. /\ IsTree(m) /\ m.kind = n.kind
        /\ \A d : Kid(m, d) = IF d = p THEN Do(Low(o), Kid(n, p))
                              ELSE IF Pads(n, d, p) THEN Nil ELSE Kid(n, d)
    BY <1>2, <1>6, SetLevel
  <2>2. \A d : Pads(n, d, p) <=> Fills(o, n.kind, d, Kid(n, d))
    BY <1>4, <1>6 DEF Pads, Fills
  <2> HIDE DEF p
  <2>3. p = At(o, n.kind)
    BY <1>4 DEF p
  <2>4. ASSUME NEW d PROVE Kid(m, d) = Makes(o, n.kind, d, Kid(n, d))
    <3>1. CASE d = p
      BY <1>2, <2>1, <2>3, <3>1 DEF Makes
    <3>2. CASE d # p /\ Pads(n, d, p)
      BY <1>2, <2>1, <2>2, <2>3, <3>2 DEF Makes
    <3>3. CASE d # p /\ ~Pads(n, d, p)
      BY <1>2, <2>1, <2>2, <2>3, <3>3 DEF Makes
    <3>. QED  BY <3>1, <3>2, <3>3
  <2>. QED  BY <1>2, <1>5, <2>1, <2>4
<1>7. CASE o.cmd = "del"
  <2>1. n = c
    BY <1>7, IntoTree DEF Stays
  <2>2. ~Shifts(o, c)
    BY <1>3, <1>7, <2>1, RepLow DEF Shifts, Bad
  <2>3. /\ IsTree(m) /\ m.kind = c.kind
        /\ \A d : Kid(m, d) = IF d = p THEN Do(Low(o), Kid(c, p)) ELSE Kid(c, d)
    BY <1>2, <1>7, <2>1, <2>2, DelLevel
  <2> HIDE DEF p
  <2>4. p = At(o, n.kind)
    BY <1>4 DEF p
  <2>5. ASSUME NEW d PROVE Kid(m, d) = Makes(o, n.kind, d, Kid(n, d))
    <3>1. CASE d = p
      BY <1>2, <2>1, <2>3, <2>4, <3>1 DEF Makes
    <3>2. CASE d # p
      BY <1>7, <2>1, <2>3, <2>4, <3>2 DEF Makes, Fills
    <3>. QED  BY <3>1, <3>2
  <2>. QED  BY <1>2, <1>5, <2>1, <2>3, <2>5
<1>. QED  BY <1>2, <1>6, <1>7 DEF IsOp

\* What is nothing for an operation, and what is left of something.
LEMMA DoNothing ==
    ASSUME NEW o, IsOp(o)
    PROVE  /\ o.cmd = "set" => Do(o, Nil) = Do(o, Absent) /\ Do(o, Absent) # Absent
           /\ o.cmd = "del" => Do(o, Absent) = Absent
           /\ o.cmd = "del" /\ o.path # <<>> => Do(o, Nil) = Nil
           /\ o.cmd = "del" /\ o.path = <<>> => \A x : Do(o, x) = Absent
           /\ o.cmd # "del" \/ o.path # <<>> => \A x : IsTree(x) => Do(o, x) # Absent
<1>1. ~IsContainer(Nil) /\ ~IsContainer(Absent) /\ o.path \in Strings /\ IsTree(o.val)
  BY Kinds DEF IsContainer, IsOp
<1>2. ASSUME o.cmd = "set" PROVE Do(o, Nil) = Do(o, Absent) /\ Do(o, Absent) # Absent
  <2>1. SetPath(Nil, o.path, o.val) = SetPath(Absent, o.path, o.val) /\ IsTree(SetPath(Absent, o.path, o.val))
    BY <1>1, SetOnBare
  <2>. QED  BY <1>2, <2>1, KindOfTree DEF Do
<1>3. ASSUME o.cmd = "del" PROVE Do(o, Absent) = Absent
  BY <1>1, <1>3, DelAbsent DEF Do
<1>4. ASSUME o.cmd = "del", o.path # <<>> PROVE Do(o, Nil) = Nil
  BY <1>1, <1>4, DelAbsent DEF Do
<1>5. ASSUME o.cmd = "del", o.path = <<>>, NEW x PROVE Do(o, x) = Absent
  BY <1>5 DEF Do
<1>6. ASSUME o.cmd # "del" \/ o.path # <<>>, NEW x, IsTree(x) PROVE Do(o, x) # Absent
  <2>1. x # Absent /\ Item(x)
    BY <1>6, KindOfTree DEF Item
  <2>2. CASE o.cmd = "set"
    <3>1. SetPath(x, o.path, o.val) = Refused \/ IsTree(SetPath(x, o.path, o.val))
      BY <1>1, <2>1, SetTree
    <3>. QED  BY <2>1, <2>2, <3>1, KindOfTree DEF Do
  <2>3. CASE o.cmd = "del"
    BY <1>1, <1>6, <2>3, DelTree, KindOfTree DEF Do
  <2>4. CASE o.cmd = "nop"
    BY <2>1, <2>4 DEF Do
  <2>. QED  BY <2>2, <2>3, <2>4 DEF IsOp
<1>. QED  BY <1>2, <1>3, <1>4, <1>5, <1>6

\* To do one operation before another, and it again after, is as good as after only:
\* what is needed of the operations below.
Settles(o) ==
    \A u, x : Rep(u) /\ Item(x) => Same(Do(o, Do(u, Do(o, x))), Do(o, Do(u, x)))

Nothing == [cmd |-> "nop", path |-> <<>>, val |-> Nil]

LEMMA NothingRep == Rep(Nothing) /\ Nothing.cmd = "nop" /\ \A x : Do(Nothing, x) = x
<1>1. /\ Nothing.cmd = "nop" /\ Nothing.path = <<>> /\ Nothing.val = Nil
      /\ Nothing = [cmd |-> Nothing.cmd, path |-> Nothing.path, val |-> Nothing.val]
  BY DEF Nothing
<1>2. <<>> \in Strings /\ ToSet(<<>>) = {}
  BY DEF Strings, ToSet
<1>. QED  BY <1>1, <1>2, SimpleTrees DEF Rep, IsOp, Do

LEMMA MakesItem ==
    ASSUME NEW o, IsOp(o), NEW kind, Fits(o, kind), NEW d, NEW x, Item(x)
    PROVE  Item(Makes(o, kind, d, x))
<1>1. CASE o.cmd = "nop"
  BY <1>1 DEF Makes
<1>2. CASE o.cmd # "nop"
  <2>1. IsOp(Low(o))
    BY <1>2, LowOp DEF Fits
  <2>2. Item(Do(Low(o), x)) /\ Item(Nil)
    BY <2>1, DoItem, SimpleTrees DEF Item
  <2>. QED  BY <1>2, <2>2 DEF Makes
<1>. QED  BY <1>1, <1>2

LEMMA SettlesAtChild ==
    ASSUME NEW kind, NEW o, Rep(o), Fits(o, kind), o.cmd # "nop", Settles(Low(o)),
           NEW s, Rep(s), Fits(s, kind), NEW d, NEW x, Item(x)
    PROVE  Same(Makes(o, kind, d, Makes(s, kind, d, Makes(o, kind, d, x))),
                Makes(o, kind, d, Makes(s, kind, d, x)))
<1> DEFINE O(y) == Makes(o, kind, d, y)
           E(y) == Makes(s, kind, d, y)
           p == At(o, kind)
           q == At(s, kind)
<1>1. /\ o.path # <<>> /\ Rep(Low(o)) /\ IsOp(Low(o)) /\ Low(o).cmd = o.cmd
      /\ Low(o).path = Tail(o.path)
  BY RepLow, LowOp DEF Rep, Fits
<1>2. s.cmd # "nop" => /\ s.path # <<>> /\ Rep(Low(s)) /\ IsOp(Low(s)) /\ Low(s).cmd = s.cmd
                       /\ Low(s).path = Tail(s.path)
  BY RepLow, LowOp DEF Rep, Fits
<1>3. o.cmd = "del" /\ kind = "arr" => Low(o).path # <<>>
  BY <1>1, RepLow DEF Fits
<1>4. s.cmd = "del" /\ kind = "arr" => Low(s).path # <<>>
  BY <1>2, RepLow DEF Fits
<1>5. \A y : Item(y) => Item(O(y)) /\ Item(E(y))
  BY MakesItem DEF Rep
<1>6. \A y : Item(y) => Same(y, y)
  BY SameSelf
<1>7. Item(O(x)) /\ Item(E(x)) /\ Item(O(E(x)))
  BY <1>5
<1>8. Same(Do(Low(o), Do(Low(o), x)), Do(Low(o), x))
  BY NothingRep DEF Settles
<1>9. CASE d = p /\ d = q /\ s.cmd # "nop"
  <2>1. \A y : O(y) = Do(Low(o), y) /\ E(y) = Do(Low(s), y)
    BY <1>9 DEF Makes
  <2>2. Same(Do(Low(o), Do(Low(s), Do(Low(o), x))), Do(Low(o), Do(Low(s), x)))
    BY <1>2, <1>9 DEF Settles
  <2>. QED  BY <2>1, <2>2
<1>10. CASE d = p /\ ~(d = q /\ s.cmd # "nop")
  <2>1. \A y : O(y) = Do(Low(o), y)
    BY <1>10 DEF Makes
  <2>2. \A y : E(y) = IF Fills(s, kind, d, y) THEN Nil ELSE y
    BY <1>10 DEF Makes, Fills
  <2>3. \A y : Fills(s, kind, d, y) => y = Absent /\ kind = "arr"
    BY DEF Fills
  <2> HIDE DEF O, E
  <2>4. CASE x # Absent
    <3>1. IsTree(x) /\ E(x) = x
      BY <2>2, <2>3, <2>4 DEF Item
    <3>2. kind = "arr" => Do(Low(o), x) # Absent
      BY <1>1, <1>3, <3>1, DoNothing
    <3>3. E(Do(Low(o), x)) = Do(Low(o), x)
      BY <2>2, <2>3, <3>2
    <3>. QED  BY <1>8, <2>1, <3>1, <3>3 DEF O, E
  <2>5. CASE x = Absent /\ o.cmd = "set"
    <3>1. Do(Low(o), Nil) = Do(Low(o), Absent) /\ Do(Low(o), Absent) # Absent
      BY <1>1, <2>5, DoNothing
    <3>2. E(Do(Low(o), x)) = Do(Low(o), x)
      BY <2>2, <2>3, <2>5, <3>1
    <3>3. Do(Low(o), E(x)) = Do(Low(o), x)
      BY <2>2, <2>5, <3>1
    <3>. QED  BY <1>8, <2>1, <3>2, <3>3 DEF O, E
  <2>6. CASE x = Absent /\ o.cmd = "del"
    <3>1. Do(Low(o), x) = x
      BY <1>1, <2>6, DoNothing
    <3>. QED  BY <1>6, <1>7, <2>1, <3>1 DEF O, E
  <2>. QED  BY <2>4, <2>5, <2>6 DEF Rep, IsOp
<1>11. CASE d # p /\ d = q /\ s.cmd # "nop"
  <2>1. \A y : E(y) = Do(Low(s), y)
    BY <1>11 DEF Makes
  <2>2. \A y : O(y) = IF Fills(o, kind, d, y) THEN Nil ELSE y
    BY <1>11 DEF Makes
  <2> HIDE DEF O, E
  <2>3. CASE ~Fills(o, kind, d, x)
    <3>1. O(x) = x
      BY <2>2, <2>3
    <3>. QED  BY <1>6, <1>7, <3>1 DEF O, E
  <2>4. CASE Fills(o, kind, d, x)
    <3>1. x = Absent /\ kind = "arr" /\ O(x) = Nil /\ ~Fills(o, kind, d, Nil) /\ O(Nil) = Nil
          /\ O(Absent) = Nil
      BY <2>2, <2>4, Kinds DEF Fills
    <3>2. CASE s.cmd = "set"
      <4>1. E(Nil) = E(Absent)
        BY <1>2, <2>1, <3>2, DoNothing
      <4>. QED  BY <1>6, <1>7, <3>1, <4>1 DEF O, E
    <3>3. CASE s.cmd = "del"
      <4>1. E(Nil) = Nil /\ E(Absent) = Absent
        BY <1>2, <1>4, <2>1, <3>1, <3>3, DoNothing
      <4>. QED  BY <1>6, <1>7, <3>1, <4>1 DEF O, E
    <3>. QED  BY <1>11, <3>2, <3>3 DEF Rep, IsOp
  <2>. QED  BY <2>3, <2>4
<1>12. CASE d # p /\ ~(d = q /\ s.cmd # "nop")
  <2>1. \A y : E(y) = IF Fills(s, kind, d, y) THEN Nil ELSE y
    BY <1>12 DEF Makes, Fills
  <2>2. \A y : O(y) = IF Fills(o, kind, d, y) THEN Nil ELSE y
    BY <1>12 DEF Makes
  <2>3. O(E(O(x))) = O(E(x))
    <3>1. \A y : Fills(o, kind, d, y) => Fills(o, kind, d, Absent) /\ y = Absent
      BY DEF Fills
    <3>2. \A y : Fills(s, kind, d, y) => Fills(s, kind, d, Absent) /\ y = Absent
      BY DEF Fills
    <3>3. Nil # Absent
      BY Kinds
    <3> HIDE DEF O, E
    <3>. QED  BY <2>1, <2>2, <3>1, <3>2, <3>3
  <2>. QED  BY <1>6, <1>7, <2>3
<1>. QED  BY <1>9, <1>10, <1>11, <1>12

LEMMA FitsMoves ==
    ASSUME NEW o, IsOp(o), o.cmd # "nop", NEW c, IsContainer(c), Fits(o, c.kind)
    PROVE  ~Stays(o, c) /\ Into(c) = c /\ o.path # <<>>
BY DEF Fits, Stays, Into, Bad

\* The law for an operation, from the law below it, where it does something.
LEMMA SettlesStep ==
    ASSUME NEW o, Rep(o), o.path # <<>>, Settles(Low(o)), NEW s, Rep(s), NEW c, Item(c), ~Stays(o, c)
    PROVE  Same(Do(o, Do(s, Do(o, c))), Do(o, Do(s, c)))
<1> DEFINE n == Into(c)
           k == n.kind
           c1 == Do(o, c)
           M(y) == \A d : Kid(y, d) = Makes(o, k, d, Kid(n, d))
<1>1. Fits(o, k) /\ IsTree(c1) /\ c1.kind = k /\ o.cmd # "nop" /\ M(c1)
  BY RepLevel
<1>2. IsOp(o) /\ IsOp(s) /\ IsTree(n) /\ k \in {"obj", "arr"} /\ Item(c1)
  BY <1>1, IntoTree DEF Rep, Item
<1>3. \A y : y.kind = k => IsContainer(y)
  BY <1>2 DEF IsContainer
<1>4. \A d : Item(Kid(n, d))
  BY <1>2, KidItem DEF Item
<1> HIDE DEF n, k, c1
<1>5. ASSUME NEW y, Item(y), y.kind = k
      PROVE  /\ Do(o, y).kind = k /\ IsTree(Do(o, y))
             /\ \A d : Kid(Do(o, y), d) = Makes(o, k, d, Kid(y, d))
  BY <1>1, <1>2, <1>3, <1>5, FitsMoves, RepLevel
<1>6. ASSUME NEW u, Rep(u), Fits(u, k), NEW x, NEW y, x.kind = k, y.kind = k,
             \A d : Kid(x, d) = Makes(o, k, d, Makes(u, k, d, Makes(o, k, d, Kid(n, d)))),
             \A d : Kid(y, d) = Makes(o, k, d, Makes(u, k, d, Kid(n, d)))
      PROVE  Same(x, y)
  <2>1. \A d : Same(Kid(x, d), Kid(y, d))
    BY <1>1, <1>4, <1>6, SettlesAtChild
  <2>. QED  BY <1>3, <1>6, <2>1, SameOfContainers
<1>7. ASSUME Do(s, c1) = c1, Do(s, c) = c PROVE Same(Do(o, Do(s, c1)), Do(o, Do(s, c)))
  <2>1. \A d, y : Makes(Nothing, k, d, y) = y
    BY NothingRep DEF Makes
  <2>2. Fits(Nothing, k)
    BY <1>2, NothingRep DEF Fits
  <2>3. Do(o, c1).kind = k /\ \A d : Kid(Do(o, c1), d) = Makes(o, k, d, Kid(c1, d))
    BY <1>1, <1>2, <1>5
  <2>4. \A d : Kid(Do(o, c1), d) = Makes(o, k, d, Makes(Nothing, k, d, Makes(o, k, d, Kid(n, d))))
    BY <1>1, <2>1, <2>3
  <2>5. \A d : Kid(c1, d) = Makes(o, k, d, Makes(Nothing, k, d, Kid(n, d)))
    BY <1>1, <2>1
  <2>6. Same(Do(o, c1), c1)
    BY <1>1, <1>6, <2>2, <2>3, <2>4, <2>5, NothingRep
  <2>. QED  BY <1>7, <2>6 DEF c1
<1>8. CASE s.cmd = "nop"
  BY <1>7, <1>8 DEF Do, c1
<1>9. CASE s.cmd # "nop" /\ s.path = <<>>
  <2>1. Do(s, c1) = Do(s, c)
    BY <1>2, <1>9, SetPathEmpty, KindOfTree DEF Do, IsOp
  <2>2. Item(Do(o, Do(s, c)))
    BY <1>2, DoItem
  <2>. QED  BY <2>1, <2>2, SameSelf DEF c1
<1>10. CASE s.cmd # "nop" /\ s.path # <<>>
  <2>1. CASE Stays(s, c1) /\ Stays(s, c)
    BY <1>2, <1>7, <1>10, <2>1, StaysSame DEF c1
  <2>2. CASE ~Stays(s, c)
    <3> DEFINE d2 == Do(s, c)
               c2 == Do(s, c1)
    <3>1. Fits(s, k) /\ IsTree(d2) /\ d2.kind = k /\ \A d : Kid(d2, d) = Makes(s, k, d, Kid(n, d))
      BY <1>10, <2>2, RepLevel DEF n, k
    <3>2. ~Stays(s, c1) /\ Into(c1) = c1
      BY <1>1, <1>2, <1>3, <1>10, <3>1, FitsMoves
    <3>3. IsTree(c2) /\ c2.kind = k /\ \A d : Kid(c2, d) = Makes(s, k, d, Kid(c1, d))
      BY <1>1, <1>2, <1>10, <3>2, RepLevel
    <3> HIDE DEF d2, c2
    <3>4. Do(o, c2).kind = k /\ \A d : Kid(Do(o, c2), d) = Makes(o, k, d, Kid(c2, d))
      BY <1>5, <3>3 DEF Item
    <3>5. Do(o, d2).kind = k /\ \A d : Kid(Do(o, d2), d) = Makes(o, k, d, Kid(d2, d))
      BY <1>5, <3>1 DEF Item
    <3>6. Same(Do(o, c2), Do(o, d2))
      <4>1. \A d : Kid(Do(o, c2), d) = Makes(o, k, d, Makes(s, k, d, Makes(o, k, d, Kid(n, d))))
        BY <1>1, <3>3, <3>4
      <4>2. \A d : Kid(Do(o, d2), d) = Makes(o, k, d, Makes(s, k, d, Kid(n, d)))
        BY <3>1, <3>5
      <4>. QED  BY <1>6, <3>1, <3>4, <3>5, <4>1, <4>2
    <3>. QED  BY <3>6 DEF c1, c2, d2
  <2>3. CASE ~Stays(s, c1) /\ Stays(s, c)
    <3> DEFINE c2 == Do(s, c1)
    <3>1. Into(c1) = c1
      BY <1>1, <1>3 DEF Into
    <3>2. Fits(s, k) /\ IsTree(c2) /\ c2.kind = k /\ \A d : Kid(c2, d) = Makes(s, k, d, Kid(c1, d))
      BY <1>1, <1>2, <1>10, <2>3, <3>1, RepLevel
    <3>3. ~IsContainer(c)
      <4>1. ASSUME IsContainer(c) PROVE FALSE
        <5>1. c.kind = k
          BY <4>1 DEF Into, n, k
        <5>. QED  BY <1>2, <1>10, <2>3, <3>2, <4>1, <5>1, FitsMoves
      <4>. QED  BY <4>1
    <3>4. n = NewObj /\ k = "obj"
      BY <3>3, Kinds DEF Into, n, k
    <3>5. s.cmd = "del"
      BY <1>10, <2>3, <3>3, Kinds DEF Stays, Into, Bad
    <3>6. \A d : Kid(n, d) = Absent
      <4>1. ObjIn(NewObj, {})
        <5>1. NewObj.keys = <<>> /\ NewObj.vals = <<>> /\ NewObj.idx = <<>>
              /\ NewObj = [kind |-> "obj", keys |-> <<>>, vals |-> <<>>, idx |-> <<>>]
          BY DEF NewObj
        <5>2. ToSet(<<>>) = {} /\ <<>> \in [{} -> 1..Len(<<>>)]
          BY DEF ToSet
        <5>. QED  BY <5>1, <5>2 DEF ObjIn
      <4>2. DOMAIN Sub(NewObj) = {}
        <5>1. NewObj.keys = <<>> /\ ToSet(<<>>) = {}
          BY DEF NewObj, ToSet
        <5>. QED  BY <4>1, <5>1, ObjKids
      <4>. QED  BY <3>4, <4>2 DEF Kid
    <3>7. \A d : Makes(s, k, d, Absent) = Absent
      <4>1. IsOp(Low(s)) /\ Low(s).cmd = "del"
        BY <1>2, <1>10, <3>5, LowOp
      <4>2. Do(Low(s), Absent) = Absent
        BY <4>1, DoNothing
      <4>. QED  BY <3>5, <4>2 DEF Makes, Fills
    <3> HIDE DEF c2
    <3>8. Do(o, c2).kind = k /\ \A d : Kid(Do(o, c2), d) = Makes(o, k, d, Kid(c2, d))
      BY <1>5, <3>2 DEF Item
    <3>9. Same(Do(o, c2), c1)
      <4>1. \A d : Kid(Do(o, c2), d) = Makes(o, k, d, Makes(s, k, d, Makes(o, k, d, Kid(n, d))))
        BY <1>1, <3>2, <3>8
      <4>2. \A d : Kid(c1, d) = Makes(o, k, d, Makes(s, k, d, Kid(n, d)))
        BY <1>1, <3>6, <3>7
      <4>. QED  BY <1>1, <1>6, <3>2, <3>8, <4>1, <4>2
    <3>10. Do(s, c) = c
      BY <1>2, <1>10, <2>3, StaysSame
    <3>. QED  BY <3>9, <3>10 DEF c1, c2
  <2>. QED  BY <2>1, <2>2, <2>3
<1>. QED  BY <1>8, <1>9, <1>10

LEMMA Settled ==
    ASSUME NEW o, Rep(o)
    PROVE  Settles(o)
<1> DEFINE S == {l \in Nat : \A u : Rep(u) /\ Len(u.path) = l => Settles(u)}
<1>1. ASSUME NEW u, Rep(u), u.path = <<>> PROVE Settles(u)
  <2>1. ASSUME NEW s, Rep(s), NEW c, Item(c)
        PROVE  Same(Do(u, Do(s, Do(u, c))), Do(u, Do(s, c)))
    <3>1. IsOp(u) /\ IsOp(s)
      BY <1>1, <2>1 DEF Rep
    <3>2. Do(u, Do(s, Do(u, c))) = Do(u, Do(s, c))
      BY <1>1, <3>1, SetPathEmpty, KindOfTree DEF Do, IsOp
    <3>3. Item(Do(u, Do(s, c)))
      BY <2>1, <3>1, DoItem
    <3>. QED  BY <3>2, <3>3, SameSelf
  <2>. QED  BY <2>1 DEF Settles
<1>2. 0 \in S
  <2>1. \A u : Rep(u) /\ Len(u.path) = 0 => u.path = <<>>
    BY DEF Rep, IsOp, Strings
  <2>. QED  BY <1>1, <2>1
<1>3. ASSUME NEW l \in Nat, l \in S PROVE l + 1 \in S
  <2>1. ASSUME NEW u, Rep(u), Len(u.path) = l + 1 PROVE Settles(u)
    <3>1. IsOp(u) /\ u.path # <<>>
      BY <2>1 DEF Rep
    <3>2. Rep(Low(u)) /\ Len(Low(u).path) = l
      BY <2>1, <3>1, RepLow, LowOp
    <3>3. Settles(Low(u))
      BY <1>3, <3>2
    <3>4. ASSUME NEW s, Rep(s), NEW c, Item(c)
          PROVE  Same(Do(u, Do(s, Do(u, c))), Do(u, Do(s, c)))
      <4>1. CASE Stays(u, c)
        <5>1. Do(u, c) = c
          BY <3>1, <3>4, <4>1, StaysSame
        <5>2. Item(Do(u, Do(s, c)))
          BY <3>1, <3>4, DoItem DEF Rep
        <5>. QED  BY <5>1, <5>2, SameSelf
      <4>2. CASE ~Stays(u, c)
        BY <2>1, <3>1, <3>3, <3>4, <4>2, SettlesStep
      <4>. QED  BY <4>1, <4>2
    <3>. QED  BY <3>4 DEF Settles
  <2>. QED  BY <2>1
<1>4. Nat \subseteq S
  <2> HIDE DEF S
  <2>. QED  BY <1>2, <1>3, SetInduction
<1>5. Len(o.path) \in Nat
  BY DEF Rep, IsOp, Strings
<1>. QED  BY <1>4, <1>5

--------------------------------------------------------------------------------
(* Operations do not tell apart what readers cannot.                             *)

LEMMA ArrLen ==
    ASSUME NEW n, IsTree(n), n.kind = "arr"
    PROVE  /\ Len(n.elems) \in Nat
           /\ \A d : d \in 1..Len(n.elems) <=> Kid(n, d) # Absent
<1>1. PICK T : /\ Trees(T) /\ n.elems \in Seq(T) /\ Len(n.elems) \in Nat
               /\ \A d : Kid(n, d) = IF d \in 1..Len(n.elems) THEN n.elems[d] ELSE Absent
  BY ArrElems
<1>2. \A y \in T : y # Absent
  BY <1>1, KindOfTree DEF Trees
<1>. QED  BY <1>1, <1>2

LEMMA SameLen ==
    ASSUME NEW n, IsTree(n), n.kind = "arr", NEW m, IsTree(m), m.kind = "arr", Same(n, m)
    PROVE  Len(n.elems) = Len(m.elems)
<1>1. Len(n.elems) \in Nat /\ Len(m.elems) \in Nat
  BY ArrLen
<1>2. \A d : Kid(n, d) = Absent <=> Kid(m, d) = Absent
  BY SameUnfold, SameKinds, KidItem DEF Item
<1>3. \A d : d \in 1..Len(n.elems) <=> d \in 1..Len(m.elems)
  BY <1>2, ArrLen
<1> DEFINE k == Len(n.elems)
           l == Len(m.elems)
<1>4. k \in Nat /\ l \in Nat /\ \A d : d \in 1..k <=> d \in 1..l
  BY <1>1, <1>3
<1> HIDE DEF k, l
<1>5. k = l
  <2>1. CASE k > l
    <3>1. k \in 1..k /\ k \notin 1..l
      BY <1>4, <2>1
    <3>. QED  BY <1>4, <3>1
  <2>2. CASE l > k
    <3>1. l \in 1..l /\ l \notin 1..k
      BY <1>4, <2>2
    <3>. QED  BY <1>4, <3>1
  <2>. QED  BY <1>4, <2>1, <2>2
<1>. QED  BY <1>5 DEF k, l

LEMMA SameInto ==
    ASSUME NEW b, Item(b), NEW c, Item(c), Same(b, c)
    PROVE  Same(Into(b), Into(c)) /\ Into(b).kind = Into(c).kind
<1>1. Same(NewObj, NewObj)
  BY SimpleTrees, SameSelf DEF Item
<1>. QED  BY <1>1, SameKinds DEF Into

\* What is meant by the same operation.
Match(o, u) == IsOp(o) /\ IsOp(u) /\ o.cmd = u.cmd /\ o.path = u.path /\ Same(o.val, u.val)
Carries(o, u) == \A b, c : Item(b) /\ Item(c) /\ Same(b, c) => Same(Do(o, b), Do(u, c))

LEMMA CarriesStep ==
    ASSUME NEW o, NEW u, Match(o, u), o.path # <<>>, Carries(Low(o), Low(u)),
           NEW b, Item(b), NEW c, Item(c), Same(b, c)
    PROVE  Same(Do(o, b), Do(u, c))
<1> DEFINE a == Head(o.path)
           n == Into(b)
           m == Into(c)
           p == Where(n, a)
<1>1. IsOp(o) /\ IsOp(u) /\ o.cmd = u.cmd /\ o.path = u.path /\ a = Head(u.path)
  BY DEF Match
<1>2. /\ IsContainer(b) <=> IsContainer(c)
      /\ IsContainer(b) => b.kind = c.kind
      /\ b = Absent <=> c = Absent
  BY SameKinds
<1>3. /\ IsTree(n) /\ IsTree(m) /\ IsContainer(n) /\ IsContainer(m)
      /\ Same(n, m) /\ n.kind = m.kind
  BY IntoTree, SameInto
<1>4. Bad(n, a) <=> Bad(m, a)
  BY <1>3 DEF Bad
<1>5. Stays(o, b) <=> Stays(u, c)
  BY <1>1, <1>2, <1>4 DEF Stays, Bad, IsContainer
<1>6. p = Where(m, a)
  <2>1. n.kind = "arr" => End(n) = End(m)
    BY <1>3, SameLen DEF End
  <2>. QED  BY <1>3, <1>4, <2>1 DEF Where, Pos, Bad
<1>7. \A d : /\ Item(Kid(n, d)) /\ Item(Kid(m, d)) /\ Same(Kid(n, d), Kid(m, d))
             /\ Kid(n, d) = Absent <=> Kid(m, d) = Absent
  BY <1>3, KidItem, SameUnfold, SameKinds DEF Item
<1>8. Same(Do(Low(o), Kid(n, p)), Do(Low(u), Kid(m, p)))
  BY <1>7 DEF Carries
<1>9. Same(Nil, Nil)
  BY SimpleTrees, SameSelf DEF Item
<1> HIDE DEF p, n, m, a
<1>10. CASE Stays(o, b)
  BY <1>1, <1>5, <1>10, StaysSame
<1>11. CASE ~Stays(o, b) /\ o.cmd = "set"
  <2> DEFINE x == Do(o, b)
             y == Do(u, c)
  <2>1. /\ IsTree(x) /\ x.kind = n.kind
        /\ \A d : Kid(x, d) = IF d = p THEN Do(Low(o), Kid(n, p))
                              ELSE IF Pads(n, d, p) THEN Nil ELSE Kid(n, d)
    BY <1>1, <1>11, SetLevel DEF p, n, a
  <2>2. /\ IsTree(y) /\ y.kind = m.kind
        /\ \A d : Kid(y, d) = IF d = p THEN Do(Low(u), Kid(m, p))
                              ELSE IF Pads(m, d, p) THEN Nil ELSE Kid(m, d)
    <3>1. u.cmd = "set" /\ ~Stays(u, c) /\ u.path # <<>> /\ p = Where(m, a) /\ a = Head(u.path)
      BY <1>1, <1>5, <1>6, <1>11
    <3>2. m = Into(c)
      BY DEF m
    <3>. QED  BY <1>1, <3>1, <3>2, SetLevel
  <2>3. \A d : Pads(n, d, p) <=> Pads(m, d, p)
    BY <1>3, <1>7 DEF Pads
  <2> HIDE DEF x, y
  <2>4. ASSUME NEW d PROVE Same(Kid(x, d), Kid(y, d))
    <3>1. CASE d = p
      BY <1>8, <2>1, <2>2, <3>1
    <3>2. CASE d # p /\ Pads(n, d, p)
      BY <1>9, <2>1, <2>2, <2>3, <3>2
    <3>3. CASE d # p /\ ~Pads(n, d, p)
      BY <1>7, <2>1, <2>2, <2>3, <3>3
    <3>. QED  BY <3>1, <3>2, <3>3
  <2>5. IsContainer(x) /\ x.kind = y.kind
    BY <1>3, <2>1, <2>2 DEF IsContainer
  <2>. QED  BY <2>4, <2>5, SameOfContainers DEF x, y
<1>12. CASE ~Stays(o, b) /\ o.cmd = "del"
  <2>1. IsContainer(b) /\ IsContainer(c) /\ b.kind = c.kind /\ n = b /\ m = c
        /\ ~Bad(b, a) /\ ~Bad(c, a) /\ IsTree(b) /\ IsTree(c)
    BY <1>1, <1>2, <1>5, <1>12, IntoTree, Kinds DEF Stays, n, m, a, Item, IsContainer
  <2>2. CASE ~Shifts(o, b)
    <3> DEFINE x == Do(o, b)
               y == Do(u, c)
    <3>1. /\ IsTree(x) /\ x.kind = b.kind
          /\ \A d : Kid(x, d) = IF d = p THEN Do(Low(o), Kid(b, p)) ELSE Kid(b, d)
      BY <1>1, <1>12, <2>1, <2>2, DelLevel DEF p, a
    <3>2. ~Shifts(u, c)
      BY <1>1, <2>1, <2>2 DEF Shifts
    <3>3. /\ IsTree(y) /\ y.kind = c.kind
          /\ \A d : Kid(y, d) = IF d = p THEN Do(Low(u), Kid(c, p)) ELSE Kid(c, d)
      <4>1. u.cmd = "del" /\ ~Stays(u, c) /\ u.path # <<>> /\ p = Where(c, Head(u.path))
        BY <1>1, <1>5, <1>6, <1>12, <2>1
      <4>. QED  BY <1>1, <3>2, <4>1, DelLevel
    <3> HIDE DEF x, y
    <3>4. ASSUME NEW d PROVE Same(Kid(x, d), Kid(y, d))
      <4>1. CASE d = p
        BY <1>8, <2>1, <3>1, <3>3, <4>1
      <4>2. CASE d # p
        BY <1>7, <2>1, <3>1, <3>3, <4>2
      <4>. QED  BY <4>1, <4>2
    <3>5. IsContainer(x) /\ x.kind = y.kind
      BY <2>1, <3>1, <3>3 DEF IsContainer
    <3>. QED  BY <3>4, <3>5, SameOfContainers DEF x, y
  <2>3. CASE Shifts(o, b)
    <3>1. Tail(o.path) = <<>> /\ b.kind = "arr" /\ c.kind = "arr"
      BY <2>1, <2>3 DEF Shifts
    <3>2. o.path \in Strings /\ o.cmd = "del" /\ u.cmd = "del"
      BY <1>1, <1>12 DEF IsOp
    <3>3. Do(o, b) = DelPath(b, o.path) /\ Do(u, c) = DelPath(c, o.path)
      BY <1>1, <3>2 DEF Do
    <3>4. p = Index(a)
      BY <2>1, <3>1 DEF p, Where, Pos
    <3>5. Child(b, a) = Kid(b, p) /\ Child(c, a) = Kid(c, p)
      BY <1>6, <2>1, WhereOf DEF p
    <3>6. /\ Lookup(Child(b, a), <<>>) = Child(b, a) /\ Lookup(Child(c, a), <<>>) = Child(c, a)
      BY LookupEmpty
    <3>7. /\ Kid(b, p) = Absent => DelPath(b, o.path) = b
          /\ Kid(b, p) # Absent => DelPath(b, o.path) = RemoveChild(b, a)
      BY <3>1, <3>2, <3>5, <3>6, DelPathStep DEF a
    <3>8. /\ Kid(c, p) = Absent => DelPath(c, o.path) = c
          /\ Kid(c, p) # Absent => DelPath(c, o.path) = RemoveChild(c, a)
      BY <3>1, <3>2, <3>5, <3>6, DelPathStep DEF a
    <3>9. CASE Kid(b, p) = Absent
      <4>1. Kid(c, p) = Absent
        BY <1>7, <2>1, <3>9
      <4>. QED  BY <3>3, <3>7, <3>8, <3>9, <4>1
    <3>10. CASE Kid(b, p) # Absent
      <4> DEFINE x == Arr(RemoveAt(b.elems, p))
                 y == Arr(RemoveAt(c.elems, p))
      <4>1. Kid(c, p) # Absent
        BY <1>7, <2>1, <3>10
      <4>2. p \in 1..Len(b.elems) /\ p \in 1..Len(c.elems)
        BY <2>1, <3>1, <3>10, <4>1, ArrLen
      <4>3. /\ x.kind = "arr"
            /\ \A d : Kid(x, d) = IF d \in Nat /\ d >= p THEN Kid(b, d + 1) ELSE Kid(b, d)
        BY <2>1, <3>1, <4>2, RemoveElemKids
      <4>4. /\ y.kind = "arr"
            /\ \A d : Kid(y, d) = IF d \in Nat /\ d >= p THEN Kid(c, d + 1) ELSE Kid(c, d)
        BY <2>1, <3>1, <4>2, RemoveElemKids
      <4>5. Do(o, b) = x /\ Do(u, c) = y
        BY <3>1, <3>3, <3>4, <3>7, <3>8, <3>10, <4>1, Kinds DEF RemoveChild
      <4> HIDE DEF x, y
      <4>6. \A d : Same(Kid(x, d), Kid(y, d))
        BY <1>7, <2>1, <4>3, <4>4
      <4>. QED  BY <4>3, <4>4, <4>5, <4>6, SameOfContainers DEF IsContainer
    <3>. QED  BY <3>9, <3>10
  <2>. QED  BY <2>2, <2>3
<1>13. CASE o.cmd = "nop"
  BY <1>1, <1>13 DEF Do
<1>. QED  BY <1>1, <1>10, <1>11, <1>12, <1>13 DEF IsOp

LEMMA Carried ==
    ASSUME NEW o, NEW u, Match(o, u)
    PROVE  Carries(o, u)
<1> DEFINE S == {l \in Nat : \A e, f : Match(e, f) /\ Len(e.path) = l => Carries(e, f)}
<1>1. ASSUME NEW e, NEW f, Match(e, f), e.path = <<>> PROVE Carries(e, f)
  BY <1>1, SetPathEmpty, KindOfTree, SameAbsent DEF Carries, Match, Do, IsOp
<1>2. 0 \in S
  <2>1. \A e, f : Match(e, f) /\ Len(e.path) = 0 => e.path = <<>>
    BY DEF Match, IsOp, Strings
  <2>. QED  BY <1>1, <2>1
<1>3. ASSUME NEW l \in Nat, l \in S PROVE l + 1 \in S
  <2>1. ASSUME NEW e, NEW f, Match(e, f), Len(e.path) = l + 1 PROVE Carries(e, f)
    <3>1. IsOp(e) /\ IsOp(f) /\ e.path # <<>> /\ f.path = e.path
      BY <2>1 DEF Match
    <3>2. Match(Low(e), Low(f)) /\ Len(Low(e).path) = l
      BY <2>1, <3>1, LowOp DEF Match
    <3>3. Carries(Low(e), Low(f))
      BY <1>3, <3>2
    <3>. QED  BY <2>1, <3>1, <3>3, CarriesStep DEF Carries
  <2>. QED  BY <2>1
<1>4. Nat \subseteq S
  <2> HIDE DEF S
  <2>. QED  BY <1>2, <1>3, SetInduction
<1>5. Len(o.path) \in Nat
  BY DEF Match, IsOp, Strings
<1>. QED  BY <1>4, <1>5

--------------------------------------------------------------------------------
(* JSON text, and the tree read back from it.                                    *)

\* A text is in a set of texts that are made of texts in it.
ProperText(S) ==
    \A j \in S :
        \/ j.kind = "leaf" /\ j = Leaf(j.text) /\ j.text \in DOMAIN Canonical
        \/ j.kind = "items" /\ j = JSONArr(j.items) /\ j.items \in Seq(S)
        \/ j.kind = "members" /\ j = JSONObj(j.members) /\ j.members \in Seq(STRING \X S)
IsText(j) == \E S : j \in S /\ ProperText(S)

\* Render and Parse are each its own step: appendTree and parseTree, of what they are
\* applied to.
AppendTree == \A n : IsTree(n) => Render(n) = RenderStep(Render, n)
ParseTree  == \A j : IsText(j) => Parse(j) = ParseStep(Parse, j)

LEMMA TextsAreTexts == \A j \in Texts : IsText(j)
BY TextsAssumption DEF IsText, ProperText

\* The function that Filled defines.
FilledRec(members, o) ==
    o = [i \in 0..Len(members) |->
            IF i = 0 THEN NewObj ELSE Put(o[i - 1], members[i][1], members[i][2])]

LEMMA FilledExists ==
    ASSUME NEW U, NEW members \in Seq(U)
    PROVE  \E o : FilledRec(members, o)
<1> DEFINE Step(i, x) == Put(x, members[i][1], members[i][2])
           Upto(k, at) == at = [i \in 0..k |-> IF i = 0 THEN NewObj ELSE Step(i, at[i - 1])]
           S == {k \in Nat : \E at : Upto(k, at)}
<1>0. \A at : FilledRec(members, at) <=> Upto(Len(members), at)
  BY DEF FilledRec
<1> HIDE DEF Step
<1>1. 0 \in S
  <2>1. Upto(0, [i \in 0..0 |-> NewObj])
    OBVIOUS
  <2>. QED  BY <2>1
<1>2. ASSUME NEW k \in Nat, k \in S PROVE k + 1 \in S
  <2>1. PICK at : Upto(k, at)
    BY <1>2
  <2> DEFINE bt == [i \in 0..(k + 1) |-> IF i = k + 1 THEN Step(k + 1, at[k]) ELSE at[i]]
  <2>2. ASSUME NEW i \in 0..(k + 1) PROVE bt[i] = IF i = 0 THEN NewObj ELSE Step(i, bt[i - 1])
    <3>1. CASE i = 0
      BY <2>1, <3>1
    <3>2. CASE i # 0 /\ i # k + 1
      <4>1. i \in 0..k /\ i - 1 \in 0..(k + 1) /\ i - 1 # k + 1
        BY <3>2
      <4>. QED  BY <2>1, <3>2, <4>1
    <3>3. CASE i = k + 1
      <4>1. k \in 0..(k + 1) /\ k # k + 1 /\ i - 1 = k
        BY <3>3
      <4>. QED  BY <3>3, <4>1
    <3>. QED  BY <3>1, <3>2, <3>3
  <2>3. bt = [i \in 0..(k + 1) |-> bt[i]]
    OBVIOUS
  <2>4. Upto(k + 1, bt)
    <3> HIDE DEF bt
    <3>. QED  BY <2>2, <2>3
  <2> HIDE DEF Upto, bt
  <2>. QED  BY <2>4
<1>3. Nat \subseteq S
  <2> HIDE DEF S
  <2>. QED  BY <1>1, <1>2, SetInduction
<1>4. Len(members) \in Nat
  OBVIOUS
<1> HIDE DEF Upto
<1>. QED  BY <1>0, <1>3, <1>4

LEMMA NewObjIn ==
    /\ \A U : ObjIn(NewObj, U)
    /\ \A d : Kid(NewObj, d) = Absent
<1>1. /\ NewObj.keys = <<>> /\ NewObj.vals = <<>> /\ NewObj.idx = <<>>
      /\ NewObj = [kind |-> "obj", keys |-> <<>>, vals |-> <<>>, idx |-> <<>>]
  BY DEF NewObj
<1>2. ToSet(<<>>) = {} /\ <<>> \in [{} -> 1..Len(<<>>)] /\ Len(<<>>) = 0
  BY DEF ToSet
<1>3. \A U : ObjIn(NewObj, U)
  BY <1>1, <1>2 DEF ObjIn
<1>4. DOMAIN Sub(NewObj) = {}
  BY <1>1, <1>2, <1>3, ObjKids
<1>. QED  BY <1>3, <1>4 DEF Kid

\* No key comes twice.
Once(members) == \A i, j \in 1..Len(members) : members[i][1] = members[j][1] => i = j

Members(U) == Seq(STRING \X U)
LEMMA FilledKids ==
    ASSUME NEW U, NEW members, members \in Members(U), NEW n, n = Filled(members)
    PROVE  /\ ObjIn(n, U)
           /\ Once(members) =>
                 /\ \A i \in 1..Len(members) : Kid(n, members[i][1]) = members[i][2]
                 /\ \A d : (\A i \in 1..Len(members) : members[i][1] # d) => Kid(n, d) = Absent
<1> DEFINE L == Len(members)
<1>1. L \in Nat /\ \A i \in 1..L : members[i][1] \in STRING /\ members[i][2] \in U
  <2>1. \A i \in 1..L : members[i] \in STRING \X U
    BY DEF Members
  <2>. QED  BY <2>1
<1>2. FilledRec(members, CHOOSE o : FilledRec(members, o))
  BY FilledExists DEF Members
<1>3. PICK o : FilledRec(members, o) /\ n = o[L]
  BY <1>2 DEF Filled, FilledRec
<1> DEFINE Good(i) ==
              /\ ObjIn(o[i], U)
              /\ Once(members) =>
                    /\ \A j \in 1..i : Kid(o[i], members[j][1]) = members[j][2]
                    /\ \A d : (\A j \in 1..i : members[j][1] # d) => Kid(o[i], d) = Absent
           S == {i \in Nat : i <= L => Good(i)}
<1>4. 0 \in S
  <2>1. o[0] = NewObj
    BY <1>1, <1>3 DEF FilledRec
  <2>. QED  BY <2>1, NewObjIn
<1>5. ASSUME NEW i \in Nat, i \in S PROVE i + 1 \in S
  <2>1. CASE i + 1 <= L
    <3> DEFINE k == members[i + 1][1]
               x == members[i + 1][2]
               b == o[i]
               c == o[i + 1]
    <3>1. i + 1 \in 1..L /\ i + 1 \in 0..L /\ (i + 1) - 1 = i /\ i + 1 # 0 /\ i <= L /\ 1..i \subseteq 1..L
          /\ 1..(i + 1) = 1..i \cup {i + 1} /\ i + 1 \notin 1..i
      BY <1>1, <2>1
    <3>2. c = Put(b, k, x)
      BY <1>3, <3>1 DEF FilledRec
    <3>3. k \in STRING /\ x \in U
      BY <1>1, <3>1
    <3>4. Good(i)
      BY <1>5, <3>1
    <3>5. ObjIn(c, U) /\ \A d : Kid(c, d) = IF d = k THEN x ELSE Kid(b, d)
      <4>1. ObjIn(b, U)
        BY <3>4
      <4> HIDE DEF b, c, k, x
      <4>2. k \in Keys /\ x \in U
        BY <3>3 DEF Keys
      <4>3. ObjIn(Put(b, k, x), U) /\ \A d : Kid(Put(b, k, x), d) = IF d = k THEN x ELSE Kid(b, d)
        BY <4>1, <4>2, PutIn
      <4>. QED  BY <3>2, <4>3
    <3>6. ASSUME Once(members), NEW j \in 1..(i + 1) PROVE Kid(c, members[j][1]) = members[j][2]
      <4>1. CASE j = i + 1
        BY <3>5, <4>1
      <4>2. CASE j \in 1..i
        <5>1. members[j][1] # k
          BY <3>1, <3>6, <4>2 DEF Once
        <5>2. Kid(b, members[j][1]) = members[j][2]
          BY <3>4, <3>6, <4>2
        <5>. QED  BY <3>5, <5>1, <5>2
      <4>. QED  BY <3>1, <4>1, <4>2
    <3>7. ASSUME Once(members), NEW d, \A j \in 1..(i + 1) : members[j][1] # d PROVE Kid(c, d) = Absent
      <4>1. d # k /\ \A j \in 1..i : members[j][1] # d
        BY <3>1, <3>7
      <4>2. Kid(b, d) = Absent
        BY <3>4, <3>7, <4>1
      <4>. QED  BY <3>5, <4>1, <4>2
    <3>8. Good(i + 1)
      BY <3>5, <3>6, <3>7
    <3>. QED  BY <3>8
  <2>. QED  BY <2>1
<1>6. Nat \subseteq S
  <2> HIDE DEF S
  <2>. QED  BY <1>4, <1>5, SetInduction
<1>7. Good(L)
  <2>1. L \in Nat /\ L <= L
    BY <1>1
  <2> HIDE DEF Good
  <2>. QED  BY <1>6, <2>1
<1>. QED  BY <1>3, <1>7

LEMMA FilledOf ==
    ASSUME NEW U, NEW members, members \in Members(U)
    PROVE  /\ ObjIn(Filled(members), U)
           /\ Filled(members).kind = "obj"
           /\ Once(members) =>
                 /\ \A i \in 1..Len(members) : Kid(Filled(members), members[i][1]) = members[i][2]
                 /\ \A d : (\A i \in 1..Len(members) : members[i][1] # d)
                              => Kid(Filled(members), d) = Absent
<1>2. PICK n : n = Filled(members)
  OBVIOUS
<1>3. /\ ObjIn(n, U)
      /\ Once(members) =>
            /\ \A i \in 1..Len(members) : Kid(n, members[i][1]) = members[i][2]
            /\ \A d : (\A i \in 1..Len(members) : members[i][1] # d) => Kid(n, d) = Absent
  BY <1>2, FilledKids
<1>4. n.kind = "obj"
  BY <1>3, ObjKids
<1>. QED  BY <1>2, <1>3, <1>4

LEMMA SeqMapped ==
    ASSUME NEW n \in Nat, NEW U, NEW f, f = [i \in 1..n |-> f[i]], \A i \in 1..n : f[i] \in U
    PROVE  f \in Seq(U) /\ Len(f) = n /\ DOMAIN f = 1..n
OBVIOUS

LEMMA ParsedTree ==
    ASSUME ParseTree, NEW j, IsText(j)
    PROVE  /\ IsTree(Parse(j))
           /\ j.kind = "members" => Parse(j).kind = "obj"
<1>1. PICK S : j \in S /\ ProperText(S)
  BY DEF IsText
<1> DEFINE U == {Parse(i) : i \in S}
<1>2. \A i \in S : Parse(i) \in U
  OBVIOUS
<1>3. \A n \in U : \E i \in S : n = Parse(i)
  OBVIOUS
<1> HIDE DEF U
<1>4. ASSUME NEW i \in S
      PROVE  /\ IsLeaf(Parse(i)) \/ ArrIn(Parse(i), U) \/ ObjIn(Parse(i), U)
             /\ i.kind = "members" => ObjIn(Parse(i), U)
  <2>1. Parse(i) = ParseStep(Parse, i)
    BY <1>1 DEF ParseTree, IsText
  <2>2. CASE i.kind = "leaf" /\ i = Leaf(i.text) /\ i.text \in DOMAIN Canonical
    <3>1. Parse(i) = Leaf(Canonical[i.text])
      BY <2>1, <2>2 DEF ParseStep
    <3>. QED  BY <2>2, <3>1, CanonicalAssumption DEF IsLeaf
  <2>3. CASE i.kind = "items" /\ i = JSONArr(i.items) /\ i.items \in Seq(S)
    <3> DEFINE e == [k \in DOMAIN i.items |-> Parse(i.items[k])]
    <3>1. Parse(i) = Arr(e)
      BY <2>1, <2>3 DEF ParseStep
    <3>2. DOMAIN i.items = 1..Len(i.items) /\ Len(i.items) \in Nat /\ \A k \in 1..Len(i.items) : i.items[k] \in S
      BY <2>3
    <3>3. \A k \in 1..Len(i.items) : e[k] \in U
      BY <1>2, <3>2
    <3>4. e = [k \in 1..Len(i.items) |-> e[k]]
      BY <3>2
    <3> HIDE DEF e
    <3>5. e \in Seq(U)
      BY <3>2, <3>3, <3>4, SeqMapped
    <3>. QED  BY <2>3, <3>1, <3>5, Kinds DEF ArrIn
  <2>4. CASE i.kind = "members" /\ i = JSONObj(i.members) /\ i.members \in Seq(STRING \X S)
    <3> DEFINE e == [k \in DOMAIN i.members |-> <<i.members[k][1], Parse(i.members[k][2])>>]
               T == STRING \X U
    <3>1. Parse(i) = Filled(e)
      BY <2>1, <2>4 DEF ParseStep
    <3>2. DOMAIN i.members = 1..Len(i.members) /\ Len(i.members) \in Nat
          /\ \A k \in 1..Len(i.members) : i.members[k] \in STRING \X S
      BY <2>4
    <3>3. \A k \in 1..Len(i.members) : e[k] \in T
      <4> TAKE k \in 1..Len(i.members)
      <4>1. i.members[k][1] \in STRING /\ i.members[k][2] \in S
        BY <3>2
      <4>. QED  BY <1>2, <3>2, <4>1
    <3>4. e = [k \in 1..Len(i.members) |-> e[k]]
      BY <3>2
    <3> HIDE DEF e
    <3>5. e \in Seq(STRING \X U)
      <4> HIDE DEF T
      <4>1. e \in Seq(T)
        BY <3>2, <3>3, <3>4, SeqMapped
      <4>. QED  BY <4>1 DEF T
    <3>. QED  BY <3>1, <3>5, FilledKids DEF Members
  <2>. QED  BY <1>1, <2>2, <2>3, <2>4 DEF ProperText
<1>5. Proper(U) /\ Parse(j) \in U
  BY <1>1, <1>2, <1>3, <1>4 DEF Proper
<1>6. j.kind = "members" => Parse(j).kind = "obj"
  BY <1>1, <1>4, ObjKids
<1>. QED  BY <1>5, <1>6 DEF IsTree

LEMMA RenderedText ==
    ASSUME AppendTree, NEW n, IsTree(n)
    PROVE  /\ IsText(Render(n))
           /\ Render(n).kind \in {"leaf", "items", "members"}
           /\ n.kind = "obj" => Render(n).kind = "members"
<1>1. PICK S : n \in S /\ Proper(S)
  BY DEF IsTree
<1> DEFINE W == {Render(x) : x \in S}
<1>2. \A x \in S : Render(x) \in W
  OBVIOUS
<1>3. \A j \in W : \E x \in S : j = Render(x)
  OBVIOUS
<1> HIDE DEF W
<1> DEFINE Good(j) ==
        \/ j.kind = "leaf" /\ j = Leaf(j.text) /\ j.text \in DOMAIN Canonical
        \/ j.kind = "items" /\ j = JSONArr(j.items) /\ j.items \in Seq(W)
        \/ j.kind = "members" /\ j = JSONObj(j.members) /\ j.members \in Seq(STRING \X W)
<1>4. ASSUME NEW x \in S
      PROVE  Good(Render(x)) /\ (x.kind = "obj" => Render(x).kind = "members")
  <2>1. Render(x) = RenderStep(Render, x)
    BY <1>1 DEF AppendTree, IsTree
  <2>2. CASE x = Nil
    <3>1. Render(x) = Null
      BY <2>1, <2>2, Kinds DEF RenderStep
    <3>. QED  BY <2>2, <3>1, Kinds, NullAssumption DEF Null, Leaf
  <2>3. CASE IsLeaf(x)
    <3>1. x.kind = "leaf" /\ x = Leaf(x.text) /\ x.text \in DOMAIN Canonical
      BY <2>3 DEF IsLeaf, Leaf
    <3>2. Render(x) = x
      BY <2>1, <3>1 DEF RenderStep
    <3>. QED  BY <3>1, <3>2
  <2>4. CASE ArrIn(x, S)
    <3> DEFINE e == [i \in DOMAIN x.elems |-> Render(x.elems[i])]
    <3>0. x.kind = "arr" /\ x.elems \in Seq(S)
      BY <2>4, ArrKids
    <3>1. Render(x) = JSONArr(e)
      BY <2>1, <3>0 DEF RenderStep
    <3>2. DOMAIN x.elems = 1..Len(x.elems) /\ Len(x.elems) \in Nat /\ \A k \in 1..Len(x.elems) : x.elems[k] \in S
      BY <3>0
    <3>3. \A k \in 1..Len(x.elems) : e[k] \in W
      BY <1>2, <3>2
    <3>4. e = [k \in 1..Len(x.elems) |-> e[k]]
      BY <3>2
    <3> HIDE DEF e
    <3>5. e \in Seq(W)
      BY <3>2, <3>3, <3>4, SeqMapped
    <3>6. JSONArr(e).kind = "items" /\ JSONArr(e).items = e
      BY DEF JSONArr
    <3>. QED  BY <3>0, <3>1, <3>5, <3>6
  <2>5. CASE ObjIn(x, S)
    <3> DEFINE e == [i \in DOMAIN x.keys |-> <<x.keys[i], Render(x.vals[i])>>]
               T == STRING \X W
    <3>0. x.kind = "obj" /\ x.keys \in Seq(STRING) /\ x.vals \in Seq(S) /\ Len(x.keys) = Len(x.vals)
      BY <2>5, ObjKids DEF ObjIn
    <3>1. Render(x) = JSONObj(e)
      BY <2>1, <3>0 DEF RenderStep
    <3>2. /\ DOMAIN x.keys = 1..Len(x.keys) /\ Len(x.keys) \in Nat
          /\ \A k \in 1..Len(x.keys) : x.keys[k] \in STRING /\ x.vals[k] \in S
      BY <3>0
    <3>3. \A k \in 1..Len(x.keys) : e[k] \in T
      BY <1>2, <3>2
    <3>4. e = [k \in 1..Len(x.keys) |-> e[k]]
      BY <3>2
    <3> HIDE DEF e
    <3>5. e \in Seq(STRING \X W)
      <4> HIDE DEF T
      <4>1. e \in Seq(T)
        BY <3>2, <3>3, <3>4, SeqMapped
      <4>. QED  BY <4>1 DEF T
    <3>6. JSONObj(e).kind = "members" /\ JSONObj(e).members = e
      BY DEF JSONObj
    <3>. QED  BY <3>0, <3>1, <3>5, <3>6
  <2>. QED  BY <1>1, <2>2, <2>3, <2>4, <2>5, Kinds, ArrKids DEF Proper
<1>5. ProperText(W)
  BY <1>3, <1>4 DEF ProperText
<1>6. Render(n) \in W /\ Good(Render(n)) /\ (n.kind = "obj" => Render(n).kind = "members")
  BY <1>1, <1>2, <1>4
<1>. QED  BY <1>5, <1>6 DEF IsText

\* A document read back from its own text is the same to readers, at every node.
LEMMA ReadBack ==
    ASSUME AppendTree, ParseTree, NEW n, IsTree(n)
    PROVE  Same(Parse(Render(n)), n)
<1>1. PICK S : n \in S /\ Proper(S)
  BY DEF IsTree
<1> DEFINE P(x) == Parse(Render(x))
           R == {<<P(x), x>> : x \in S} \cup {<<Absent, Absent>>}
<1>2. \A x \in S : <<P(x), x>> \in R
  OBVIOUS
<1>3. <<Absent, Absent>> \in R
  OBVIOUS
<1>4. \A r \in R : r = <<Absent, Absent>> \/ \E x \in S : r = <<P(x), x>>
  OBVIOUS
<1> HIDE DEF R
<1>5. \A d : Kid(Absent, d) = Absent
  BY BareKids, Kinds
<1>6. ASSUME NEW x \in S
      PROVE  Face(P(x)) = Face(x) /\ \A d : <<Kid(P(x), d), Kid(x, d)>> \in R
  <2>1. Render(x) = RenderStep(Render, x) /\ IsTree(x)
    BY <1>1 DEF AppendTree, IsTree
  <2>2. P(x) = ParseStep(Parse, Render(x))
    BY <2>1, RenderedText DEF ParseTree
  <2>3. CASE x = Nil
    <3>1. Render(x) = Null /\ Null = [kind |-> "leaf", text |-> "null"]
      BY <2>1, <2>3, Kinds DEF RenderStep, Null, Leaf
    <3>2. P(x) = Null
      BY <2>2, <3>1, NullAssumption DEF ParseStep, Null
    <3>3. Face(Null) = Null /\ Face(Nil) = Null
      BY <3>1, Kinds DEF Face, IsContainer
    <3>4. \A d : Kid(Null, d) = Absent /\ Kid(Nil, d) = Absent
      BY <3>1, BareKids, Kinds
    <3>. QED  BY <1>3, <2>3, <3>2, <3>3, <3>4
  <2>4. CASE IsLeaf(x)
    <3>1. x.kind = "leaf" /\ x = Leaf(x.text) /\ Canonical[x.text] = x.text
      BY <2>4 DEF IsLeaf, Leaf
    <3>2. Render(x) = x
      BY <2>1, <3>1 DEF RenderStep
    <3>3. P(x) = x
      BY <2>2, <3>1, <3>2 DEF ParseStep
    <3>4. \A d : Kid(x, d) = Absent
      BY <3>1, BareKids
    <3>. QED  BY <1>3, <3>3, <3>4
  <2>5. CASE ArrIn(x, S)
    <3> DEFINE L == Len(x.elems)
               e == [i \in DOMAIN x.elems |-> Render(x.elems[i])]
               f == [i \in DOMAIN e |-> Parse(e[i])]
    <3>1. x.kind = "arr" /\ x.elems \in Seq(S) /\ DOMAIN x.elems = 1..L /\ L \in Nat
          /\ \A i \in 1..L : x.elems[i] \in S
      <4>1. x.kind = "arr" /\ x.elems \in Seq(S)
        BY <2>5, ArrKids
      <4>. QED  BY <4>1
    <3>2. Render(x) = JSONArr(e)
      BY <2>1, <3>1 DEF RenderStep
    <3>3. DOMAIN e = 1..L /\ \A i \in 1..L : e[i] = Render(x.elems[i])
      BY <3>1
    <3>4. f = [i \in 1..L |-> f[i]] /\ \A i \in 1..L : f[i] = P(x.elems[i])
      BY <3>3
    <3>5. P(x) = Arr(f)
      <4> HIDE DEF e
      <4>1. Render(x).kind = "items" /\ Render(x).items = e
        BY <3>2 DEF JSONArr
      <4>. QED  BY <2>2, <4>1 DEF ParseStep
    <3> HIDE DEF e, f
    <3> DEFINE V == {P(y) : y \in S}
    <3>6. Trees(V)
      BY <1>1, RenderedText, ParsedTree DEF Trees, IsTree
    <3>7. \A i \in 1..L : f[i] \in V
      BY <3>1, <3>4
    <3> HIDE DEF V
    <3>8. f \in Seq(V) /\ Len(f) = L
      <4> HIDE DEF L
      <4>. QED  BY <3>1, <3>4, <3>7, SeqMapped
    <3>9. Arr(f).kind = "arr" /\ \A d : Kid(Arr(f), d) = IF d \in 1..L THEN f[d] ELSE Absent
      BY <3>6, <3>8, ArrOfKids
    <3>10. \A d : Kid(x, d) = IF d \in 1..L THEN x.elems[d] ELSE Absent
      BY <2>5, ArrKids DEF Kid
    <3>11. ASSUME NEW d PROVE <<Kid(P(x), d), Kid(x, d)>> \in R
      <4>1. CASE d \in 1..L
        BY <1>2, <3>1, <3>4, <3>5, <3>9, <3>10, <4>1
      <4>2. CASE d \notin 1..L
        BY <1>3, <3>5, <3>9, <3>10, <4>2
      <4>. QED  BY <4>1, <4>2
    <3>12. Face(P(x)) = Face(x)
      BY <3>1, <3>5, <3>9 DEF Face, IsContainer
    <3>. QED  BY <3>11, <3>12
  <2>6. CASE ObjIn(x, S)
    <3> DEFINE L == Len(x.keys)
               e == [i \in DOMAIN x.keys |-> <<x.keys[i], Render(x.vals[i])>>]
               f == [i \in DOMAIN e |-> <<e[i][1], Parse(e[i][2])>>]
    <3>1. /\ x.kind = "obj" /\ x.keys \in Seq(STRING) /\ DOMAIN x.keys = 1..L /\ L \in Nat
          /\ \A i \in 1..L : x.keys[i] \in STRING /\ x.vals[i] \in S /\ x.idx[x.keys[i]] = i
      <4>1. /\ x.kind = "obj" /\ x.keys \in Seq(STRING) /\ x.vals \in Seq(S) /\ Len(x.keys) = Len(x.vals)
            /\ \A i \in 1..L : x.idx[x.keys[i]] = i
        BY <2>6, ObjKids DEF ObjIn
      <4>. QED  BY <4>1
    <3>2. Render(x) = JSONObj(e)
      BY <2>1, <3>1 DEF RenderStep
    <3>3. DOMAIN e = 1..L /\ \A i \in 1..L : e[i] = <<x.keys[i], Render(x.vals[i])>>
      BY <3>1
    <3>4. f = [i \in 1..L |-> f[i]] /\ \A i \in 1..L : f[i] = <<x.keys[i], P(x.vals[i])>>
      BY <3>3
    <3>5. P(x) = Filled(f)
      <4> HIDE DEF e
      <4>1. Render(x).kind = "members" /\ Render(x).members = e
        BY <3>2 DEF JSONObj
      <4>. QED  BY <2>2, <4>1 DEF ParseStep
    <3> HIDE DEF e, f
    <3> DEFINE V == {P(y) : y \in S}
               T == STRING \X V
    <3>6. \A i \in 1..L : x.keys[i] \in STRING /\ P(x.vals[i]) \in V
      BY <3>1
    <3>7. \A i \in 1..L : f[i] \in T
      <4> HIDE DEF V, P, L
      <4> TAKE i \in 1..L
      <4>1. f[i] = <<x.keys[i], P(x.vals[i])>>
        BY <3>4
      <4>2. x.keys[i] \in STRING /\ P(x.vals[i]) \in V
        BY <3>6
      <4>. QED  BY <4>1, <4>2
    <3>8. f \in Seq(STRING \X V) /\ Len(f) = L
      <4> HIDE DEF L, T
      <4>1. f \in Seq(T) /\ Len(f) = L
        BY <3>1, <3>4, <3>7, SeqMapped
      <4>. QED  BY <4>1 DEF T
    <3>9. \A i \in 1..L : f[i][1] = x.keys[i] /\ f[i][2] = P(x.vals[i])
      <4> HIDE DEF P, L
      <4> TAKE i \in 1..L
      <4>1. f[i] = <<x.keys[i], P(x.vals[i])>>
        BY <3>4
      <4>. QED  BY <4>1
    <3> HIDE DEF V, T, P
    <3>10. Once(f)
      <4>1. \A i \in 1..L : x.idx[f[i][1]] = i
        BY <3>1, <3>9
      <4>. QED  BY <3>8, <4>1 DEF Once
    <3>11. /\ Filled(f).kind = "obj"
           /\ \A i \in 1..L : Kid(Filled(f), f[i][1]) = f[i][2]
           /\ \A d : (\A i \in 1..L : f[i][1] # d) => Kid(Filled(f), d) = Absent
      <4>1. Len(f) = L /\ f \in Members(V)
        BY <3>8 DEF Members
      <4> HIDE DEF L
      <4>. QED  BY <3>10, <4>1, FilledOf
    <3>12. /\ \A i \in 1..L : Kid(x, x.keys[i]) = x.vals[i]
           /\ \A d : (\A i \in 1..L : x.keys[i] # d) => Kid(x, d) = Absent
      <4>1. DOMAIN Sub(x) = ToSet(x.keys) /\ \A k \in DOMAIN Sub(x) : Sub(x)[k] = x.vals[x.idx[k]]
        BY <2>6, ObjKids
      <4>2. \A i \in 1..L : x.keys[i] \in ToSet(x.keys)
        BY <3>1 DEF ToSet
      <4>3. \A d \in ToSet(x.keys) : \E i \in 1..L : d = x.keys[i]
        BY <3>1 DEF ToSet
      <4>. QED  BY <3>1, <4>1, <4>2, <4>3 DEF Kid
    <3>14. ASSUME NEW d PROVE <<Kid(P(x), d), Kid(x, d)>> \in R
      <4>1. CASE \E i \in 1..L : x.keys[i] = d
        <5>1. PICK i \in 1..L : x.keys[i] = d
          BY <4>1
        <5>2. Kid(x, d) = x.vals[i] /\ Kid(P(x), d) = P(x.vals[i])
          BY <3>5, <3>9, <3>11, <3>12, <5>1
        <5>3. x.vals[i] \in S
          BY <3>1
        <5>. QED  BY <1>2, <5>2, <5>3
      <4>2. CASE \A i \in 1..L : x.keys[i] # d
        <5>1. Kid(x, d) = Absent /\ Kid(P(x), d) = Absent
          BY <3>5, <3>9, <3>11, <3>12, <4>2
        <5>. QED  BY <1>3, <5>1
      <4>. QED  BY <4>1, <4>2
    <3>13. Face(P(x)) = Face(x)
      BY <3>1, <3>5, <3>11 DEF Face, IsContainer
    <3>. QED  BY <3>13, <3>14
  <2>. QED  BY <1>1, <2>3, <2>4, <2>5, <2>6 DEF Proper
<1>7. ASSUME NEW r \in R PROVE Face(r[1]) = Face(r[2]) /\ \A d : <<Kid(r[1], d), Kid(r[2], d)>> \in R
  <2>1. CASE r = <<Absent, Absent>>
    BY <1>3, <1>5, <2>1
  <2>2. CASE \E x \in S : r = <<P(x), x>>
    <3>1. PICK x \in S : r = <<P(x), x>>
      BY <2>2
    <3>2. r[1] = P(x) /\ r[2] = x
      BY <3>1
    <3> HIDE DEF P
    <3>. QED  BY <1>6, <3>2
  <2>. QED  BY <1>4, <2>1, <2>2
<1>8. Alike(R)
  BY <1>7 DEF Alike
<1>. QED  BY <1>1, <1>2, <1>8 DEF Same

--------------------------------------------------------------------------------
(* Records, key by key: what a record does to a document it does to the value of *)
(* one of its keys.                                                              *)

IsDoc(n) == IsTree(n) /\ n.kind = "obj"
IsRow(r) ==
    \/ r = DumpRow
    \/ r.path \in Path /\ (r = DelRow(r.path) \/ (r = SetRow(r.path, r.raw) /\ IsText(r.raw)))

\* The operation of a record, and what is left of it at a key.
Op(r) == IF r.cmd = "set" THEN [cmd |-> "set", path |-> r.path, val |-> Parse(r.raw)]
         ELSE [cmd |-> "del", path |-> r.path, val |-> Nil]
On(r, k) == r # DumpRow /\ Top(r) = k
AtKey(r, k) == IF On(r, k) THEN Low(Op(r)) ELSE Nothing

LEMMA RowKinds ==
    ASSUME NEW r, IsRow(r)
    PROVE  /\ r = DumpRow \/ r.cmd = "set" \/ r.cmd = "del"
           /\ r # DumpRow <=> r.cmd \in {"set", "del"}
           /\ r # DumpRow => r.path \in Strings /\ r.path # <<>>
           /\ r.cmd = "set" => IsText(r.raw)
<1>1. DumpRow.cmd = "dump"
  BY DEF DumpRow
<1>2. \A p : DelRow(p).cmd = "del"
  BY DEF DelRow
<1>3. \A p, raw : SetRow(p, raw).cmd = "set"
  BY DEF SetRow
<1>4. CASE r = DumpRow
  BY <1>1, <1>4
<1>5. CASE r # DumpRow /\ r = DelRow(r.path) /\ r.path \in Path
  BY <1>1, <1>2, <1>5 DEF Path, Strings
<1>6. CASE r # DumpRow /\ r.path \in Path /\ r = SetRow(r.path, r.raw) /\ IsText(r.raw)
  BY <1>1, <1>3, <1>6 DEF Path, Strings
<1>. QED  BY <1>4, <1>5, <1>6 DEF IsRow

LEMMA OpOfRow ==
    ASSUME ParseTree, NEW r, IsRow(r), r # DumpRow
    PROVE  /\ IsOp(Op(r)) /\ Op(r).path = r.path /\ Op(r).path # <<>> /\ Op(r).cmd = r.cmd
           /\ Head(Op(r).path) = Top(r)
<1>1. r.path \in Strings /\ r.path # <<>>
  BY RowKinds
<1>2. CASE r.cmd = "set"
  <2>1. IsTree(Parse(r.raw))
    BY <1>2, RowKinds, ParsedTree
  <2>. QED  BY <1>1, <1>2, <2>1 DEF Op, IsOp, Top
<1>3. CASE r.cmd = "del"
  BY <1>1, <1>3, SimpleTrees DEF Op, IsOp, Top
<1>. QED  BY <1>2, <1>3, RowKinds

\* An operation on a document is one on the value of a key.
LEMMA OpOnDoc ==
    ASSUME NEW o, IsOp(o), o.path # <<>>, NEW n, IsDoc(n), NEW m, m = Do(o, n)
    PROVE  /\ IsDoc(m)
           /\ \A k : Kid(m, k) = IF k = Head(o.path) /\ o.cmd # "nop" THEN Do(Low(o), Kid(n, k)) ELSE Kid(n, k)
<1>1. Item(n) /\ IsContainer(n) /\ Into(n) = n /\ n.kind = "obj" /\ IsTree(n)
  BY IntoTree DEF IsDoc, Item, IsContainer
<1>2. \A s : ~Bad(n, s) /\ Where(n, s) = s
  BY <1>1 DEF Bad, Where, Pos
<1>3. CASE o.cmd = "set"
  <2>1. ~Stays(o, n)
    BY <1>1, <1>2, <1>3 DEF Stays
  <2>2. /\ IsTree(m) /\ m.kind = n.kind
        /\ \A d : Kid(m, d) = IF d = Head(o.path) THEN Do(Low(o), Kid(n, Head(o.path)))
                              ELSE IF Pads(n, d, Head(o.path)) THEN Nil ELSE Kid(n, d)
    BY <1>1, <1>2, <1>3, <2>1, SetLevel
  <2>3. \A d, p : ~Pads(n, d, p)
    BY <1>1 DEF Pads
  <2>. QED  BY <1>1, <1>3, <2>2, <2>3 DEF IsDoc
<1>4. CASE o.cmd = "del"
  <2>1. ~Stays(o, n) /\ ~Shifts(o, n)
    BY <1>1, <1>2, <1>4 DEF Stays, Shifts
  <2>2. /\ IsTree(m) /\ m.kind = n.kind
        /\ \A d : Kid(m, d) = IF d = Head(o.path) THEN Do(Low(o), Kid(n, Head(o.path))) ELSE Kid(n, d)
    BY <1>1, <1>2, <1>4, <2>1, DelLevel
  <2>. QED  BY <1>1, <1>4, <2>2 DEF IsDoc
<1>5. CASE o.cmd = "nop"
  BY <1>5 DEF Do
<1>. QED  BY <1>3, <1>4, <1>5 DEF IsOp

LEMMA ReplayRowIs ==
    ASSUME NEW r, IsRow(r), NEW n
    PROVE  ReplayRow(n, r) = IF r = DumpRow THEN n ELSE Do(Op(r), n)
<1>1. CASE r = DumpRow
  <2>1. r.cmd = "dump"
    BY <1>1 DEF DumpRow
  <2>. QED  BY <1>1, <2>1 DEF ReplayRow
<1>2. CASE r # DumpRow /\ r.cmd = "set"
  BY <1>2 DEF ReplayRow, Op, Do
<1>3. CASE r # DumpRow /\ r.cmd = "del"
  <2>1. r.path # <<>>
    BY <1>3, RowKinds
  <2>. QED  BY <1>3, <2>1 DEF ReplayRow, Op, Do
<1>. QED  BY <1>1, <1>2, <1>3, RowKinds

LEMMA ReplayRowKids ==
    ASSUME ParseTree, NEW r, IsRow(r), NEW n, IsDoc(n)
    PROVE  /\ IsDoc(ReplayRow(n, r))
           /\ \A k : IsOp(AtKey(r, k)) /\ Kid(ReplayRow(n, r), k) = Do(AtKey(r, k), Kid(n, k))
<1>1. CASE r = DumpRow
  <2>1. ReplayRow(n, r) = n /\ \A k : AtKey(r, k) = Nothing
    BY <1>1, ReplayRowIs DEF AtKey, On
  <2>. QED  BY <2>1, NothingRep DEF Rep
<1>2. CASE r # DumpRow
  <2> DEFINE o == Op(r)
             m == ReplayRow(n, r)
  <2>1. IsOp(o) /\ o.path # <<>> /\ Head(o.path) = Top(r) /\ o.cmd # "nop" /\ m = Do(o, n)
    BY <1>2, OpOfRow, ReplayRowIs, RowKinds
  <2>2. IsOp(Low(o))
    BY <2>1, LowOp
  <2>3. \A k : AtKey(r, k) = IF k = Top(r) THEN Low(o) ELSE Nothing
    BY <1>2 DEF AtKey, On
  <2> HIDE DEF o, m
  <2>4. IsDoc(m) /\ \A k : Kid(m, k) = IF k = Top(r) THEN Do(Low(o), Kid(n, k)) ELSE Kid(n, k)
    BY <2>1, OpOnDoc
  <2>5. \A k : IsOp(AtKey(r, k)) /\ Kid(m, k) = Do(AtKey(r, k), Kid(n, k))
    BY <2>2, <2>3, <2>4, NothingRep DEF Rep
  <2>. QED  BY <2>4, <2>5 DEF m
<1>. QED  BY <1>1, <1>2

\* Two documents have the same at a key.
Agree(n, m, k) == Same(Kid(n, k), Kid(m, k))

LEMMA DocKid ==
    ASSUME NEW n, IsDoc(n), NEW k
    PROVE  Item(Kid(n, k)) /\ Agree(n, n, k)
<1>1. Item(Kid(n, k))
  BY KidItem DEF IsDoc, Item
<1>. QED  BY <1>1, SameSelf DEF Agree

LEMMA AgreeReplay ==
    ASSUME ParseTree, NEW r, IsRow(r), NEW n, IsDoc(n), NEW m, IsDoc(m), NEW k, Agree(n, m, k)
    PROVE  Agree(ReplayRow(n, r), ReplayRow(m, r), k)
<1>1. IsOp(AtKey(r, k)) /\ Kid(ReplayRow(n, r), k) = Do(AtKey(r, k), Kid(n, k))
      /\ Kid(ReplayRow(m, r), k) = Do(AtKey(r, k), Kid(m, k))
  BY ReplayRowKids
<1>2. Item(AtKey(r, k).val)
  BY <1>1 DEF IsOp, Item
<1>3. Match(AtKey(r, k), AtKey(r, k))
  BY <1>1, <1>2, SameSelf DEF Match
<1>4. Item(Kid(n, k)) /\ Item(Kid(m, k)) /\ Same(Kid(n, k), Kid(m, k))
  BY DocKid DEF Agree
<1>5. Same(Do(AtKey(r, k), Kid(n, k)), Do(AtKey(r, k), Kid(m, k)))
  BY <1>3, <1>4, Carried DEF Carries
<1>. QED  BY <1>1, <1>5 DEF Agree

LEMMA AgreeThrough ==
    ASSUME NEW n, NEW m, NEW z, NEW k, Agree(n, m, k), Agree(m, z, k)
    PROVE  Agree(n, z, k)
BY SameThrough DEF Agree

LEMMA AgreeBack ==
    ASSUME NEW n, NEW m, NEW k, Agree(n, m, k)
    PROVE  Agree(m, n, k)
BY SameBack DEF Agree

\* A record that may come twice at a key.
Again(r, k) == IsRow(r) /\ (On(r, k) => Repeatable(r))
LEMMA AgainRep ==
    ASSUME ParseTree, NEW r, NEW k, Again(r, k)
    PROVE  Rep(AtKey(r, k))
<1>1. CASE ~On(r, k)
  BY <1>1, NothingRep DEF AtKey
<1>2. CASE On(r, k)
  <2>1. r # DumpRow /\ IsRow(r) /\ Repeatable(r) /\ AtKey(r, k) = Low(Op(r))
    BY <1>2 DEF On, Again, AtKey
  <2>2. IsOp(Op(r)) /\ Op(r).path = r.path /\ Op(r).path # <<>> /\ Op(r).cmd = r.cmd
    BY <2>1, OpOfRow
  <2>3. Rep(Op(r))
    BY <2>1, <2>2 DEF Rep, Repeatable
  <2>. QED  BY <2>1, <2>2, <2>3, RepLow
<1>. QED  BY <1>1, <1>2

LEMMA AgainSettles ==
    ASSUME ParseTree, NEW r, NEW s, NEW k, Again(r, k), Again(s, k), NEW n, IsDoc(n)
    PROVE  Agree(ReplayRow(ReplayRow(ReplayRow(n, r), s), r), ReplayRow(ReplayRow(n, s), r), k)
<1> DEFINE x == Kid(n, k)
           o == AtKey(r, k)
           u == AtKey(s, k)
           a == ReplayRow(n, r)
           b == ReplayRow(a, s)
           c == ReplayRow(n, s)
<1>1. IsRow(r) /\ IsRow(s)
  BY DEF Again
<1>2. IsDoc(a) /\ Kid(a, k) = Do(o, x)
  BY <1>1, ReplayRowKids
<1>3. IsDoc(c) /\ Kid(c, k) = Do(u, x)
  BY <1>1, ReplayRowKids
<1> HIDE DEF a, c
<1>4. IsDoc(b) /\ Kid(b, k) = Do(u, Kid(a, k))
  BY <1>1, <1>2, ReplayRowKids
<1> HIDE DEF b
<1>5. Kid(ReplayRow(b, r), k) = Do(o, Kid(b, k)) /\ Kid(ReplayRow(c, r), k) = Do(o, Kid(c, k))
  BY <1>1, <1>3, <1>4, ReplayRowKids
<1>6. Rep(o) /\ Rep(u) /\ Item(x)
  BY AgainRep, DocKid
<1>7. Same(Do(o, Do(u, Do(o, x))), Do(o, Do(u, x)))
  <2> HIDE DEF o, u, x
  <2>. QED  BY <1>6, Settled DEF Settles
<1>. QED  BY <1>2, <1>3, <1>4, <1>5, <1>7 DEF Agree, a, b, c

--------------------------------------------------------------------------------
(* Replays.                                                                      *)

RowSeq(rows) == \E S : rows \in Seq(S) /\ \A r \in S : IsRow(r)

LEMMA RowSeqs ==
    /\ RowSeq(<<>>)
    /\ \A rows, r : RowSeq(rows) /\ IsRow(r) => RowSeq(Append(rows, r))
    /\ \A a, b : RowSeq(a) /\ RowSeq(b) => RowSeq(a \o b)
    /\ \A rows : RowSeq(rows) => /\ Len(rows) \in Nat /\ DOMAIN rows = 1..Len(rows)
                                 /\ \A i \in 1..Len(rows) : IsRow(rows[i])
<1>1. RowSeq(<<>>)
  <2> DEFINE E == {}
  <2>1. <<>> \in Seq(E) /\ \A r \in E : IsRow(r)
    OBVIOUS
  <2> HIDE DEF E
  <2>. QED  BY <2>1 DEF RowSeq
<1>2. ASSUME NEW rows, NEW r, RowSeq(rows), IsRow(r) PROVE RowSeq(Append(rows, r))
  <2>1. PICK S : rows \in Seq(S) /\ \A x \in S : IsRow(x)
    BY <1>2 DEF RowSeq
  <2>2. rows \in Seq(S \cup {r}) /\ Append(rows, r) \in Seq(S \cup {r}) /\ \A x \in S \cup {r} : IsRow(x)
    BY <1>2, <2>1
  <2>. QED  BY <2>2 DEF RowSeq
<1>3. ASSUME NEW a, NEW b, RowSeq(a), RowSeq(b) PROVE RowSeq(a \o b)
  <2>1. PICK S : a \in Seq(S) /\ \A x \in S : IsRow(x)
    BY <1>3 DEF RowSeq
  <2>2. PICK T : b \in Seq(T) /\ \A x \in T : IsRow(x)
    BY <1>3 DEF RowSeq
  <2>3. a \in Seq(S \cup T) /\ b \in Seq(S \cup T) /\ \A x \in S \cup T : IsRow(x)
    BY <2>1, <2>2
  <2>4. a \o b \in Seq(S \cup T)
    BY <2>3
  <2>. QED  BY <2>3, <2>4 DEF RowSeq
<1>4. ASSUME NEW rows, RowSeq(rows)
      PROVE  Len(rows) \in Nat /\ DOMAIN rows = 1..Len(rows) /\ \A i \in 1..Len(rows) : IsRow(rows[i])
  <2>1. PICK S : rows \in Seq(S) /\ \A x \in S : IsRow(x)
    BY <1>4 DEF RowSeq
  <2>. QED  BY <2>1
<1>. QED  BY <1>1, <1>2, <1>3, <1>4

\* The function that ReplayFrom defines.
ReplayRec(n, rows, at) ==
    at = [i \in 0..Len(rows) |-> IF i = 0 THEN n ELSE ReplayRow(at[i - 1], rows[i])]

LEMMA ReplayExists ==
    ASSUME NEW n, NEW rows, Len(rows) \in Nat
    PROVE  \E at : ReplayRec(n, rows, at)
<1> DEFINE Step(i, x) == ReplayRow(x, rows[i])
           Upto(k, at) == at = [i \in 0..k |-> IF i = 0 THEN n ELSE Step(i, at[i - 1])]
           S == {k \in Nat : \E at : Upto(k, at)}
<1>0. \A at : ReplayRec(n, rows, at) <=> Upto(Len(rows), at)
  BY DEF ReplayRec
<1> HIDE DEF Step
<1>1. 0 \in S
  <2>1. Upto(0, [i \in 0..0 |-> n])
    OBVIOUS
  <2>. QED  BY <2>1
<1>2. ASSUME NEW k \in Nat, k \in S PROVE k + 1 \in S
  <2>1. PICK at : Upto(k, at)
    BY <1>2
  <2> DEFINE bt == [i \in 0..(k + 1) |-> IF i = k + 1 THEN Step(k + 1, at[k]) ELSE at[i]]
  <2>2. ASSUME NEW i \in 0..(k + 1) PROVE bt[i] = IF i = 0 THEN n ELSE Step(i, bt[i - 1])
    <3>1. CASE i = 0
      BY <2>1, <3>1
    <3>2. CASE i # 0 /\ i # k + 1
      <4>1. i \in 0..k /\ i - 1 \in 0..(k + 1) /\ i - 1 # k + 1
        BY <3>2
      <4>. QED  BY <2>1, <3>2, <4>1
    <3>3. CASE i = k + 1
      <4>1. k \in 0..(k + 1) /\ k # k + 1 /\ i - 1 = k
        BY <3>3
      <4>. QED  BY <3>3, <4>1
    <3>. QED  BY <3>1, <3>2, <3>3
  <2>3. bt = [i \in 0..(k + 1) |-> bt[i]]
    OBVIOUS
  <2>4. Upto(k + 1, bt)
    <3> HIDE DEF bt
    <3>. QED  BY <2>2, <2>3
  <2> HIDE DEF Upto, bt
  <2>. QED  BY <2>4
<1>3. Nat \subseteq S
  <2> HIDE DEF S
  <2>. QED  BY <1>1, <1>2, SetInduction
<1> HIDE DEF Upto
<1>. QED  BY <1>0, <1>3

LEMMA ReplayIs ==
    ASSUME NEW n, NEW rows, Len(rows) \in Nat
    PROVE  \E at : ReplayRec(n, rows, at) /\ ReplayFrom(n, rows) = at[Len(rows)]
<1>1. ReplayRec(n, rows, CHOOSE at : ReplayRec(n, rows, at))
  BY ReplayExists
<1>. QED  BY <1>1 DEF ReplayFrom, ReplayRec

LEMMA ReplayRecUnique ==
    ASSUME NEW n, NEW a, NEW b, NEW L \in Nat, Len(a) \in Nat, Len(b) \in Nat, L <= Len(a), L <= Len(b),
           \A i \in 1..L : a[i] = b[i],
           NEW at, ReplayRec(n, a, at), NEW bt, ReplayRec(n, b, bt)
    PROVE  at[L] = bt[L]
<1> DEFINE S == {i \in Nat : i <= L => at[i] = bt[i]}
<1>1. 0 \in S
  <2>1. 0 \in 0..Len(a) /\ 0 \in 0..Len(b)
    OBVIOUS
  <2>. QED  BY <2>1 DEF ReplayRec
<1>2. ASSUME NEW i \in Nat, i \in S PROVE i + 1 \in S
  <2>1. CASE i + 1 <= L
    <3>1. i + 1 \in 0..Len(a) /\ i + 1 \in 0..Len(b) /\ (i + 1) - 1 = i /\ i + 1 # 0 /\ i <= L /\ i + 1 \in 1..L
      BY <2>1
    <3>2. at[i + 1] = ReplayRow(at[i], a[i + 1]) /\ bt[i + 1] = ReplayRow(bt[i], b[i + 1])
      BY <3>1 DEF ReplayRec
    <3>. QED  BY <1>2, <3>1, <3>2
  <2>. QED  BY <2>1
<1>3. Nat \subseteq S
  <2> HIDE DEF S
  <2>. QED  BY <1>1, <1>2, SetInduction
<1>. QED  BY <1>3

LEMMA ReplayNone == \A n : ReplayFrom(n, <<>>) = n
<1> TAKE n
<1>1. Len(<<>>) \in Nat /\ Len(<<>>) = 0 /\ 0 \in 0..0
  OBVIOUS
<1>2. PICK at : ReplayRec(n, <<>>, at) /\ ReplayFrom(n, <<>>) = at[0]
  BY <1>1, ReplayIs
<1>3. at[0] = n
  BY <1>1, <1>2 DEF ReplayRec
<1>. QED  BY <1>2, <1>3

LEMMA ReplayOne ==
    ASSUME NEW n, NEW rows, RowSeq(rows), NEW r
    PROVE  ReplayFrom(n, Append(rows, r)) = ReplayRow(ReplayFrom(n, rows), r)
<1> DEFINE L == Len(rows)
           b == Append(rows, r)
<1>1. PICK S : rows \in Seq(S)
  BY DEF RowSeq
<1>2. L \in Nat /\ Len(b) = L + 1 /\ b[L + 1] = r /\ \A i \in 1..L : b[i] = rows[i]
  BY <1>1
<1>21. Len(rows) \in Nat /\ Len(b) \in Nat /\ L <= Len(rows) /\ L <= Len(b)
  BY <1>2
<1> HIDE DEF b
<1>3. PICK at : ReplayRec(n, rows, at) /\ ReplayFrom(n, rows) = at[L]
  BY <1>2, ReplayIs
<1>4. PICK bt : ReplayRec(n, b, bt) /\ ReplayFrom(n, b) = bt[L + 1]
  BY <1>2, ReplayIs
<1>5. at[L] = bt[L]
  <2> HIDE DEF L
  <2>. QED  BY <1>2, <1>21, <1>3, <1>4, ReplayRecUnique
<1>6. bt[L + 1] = ReplayRow(bt[L], r)
  <2>1. L + 1 \in 0..Len(b) /\ L + 1 # 0 /\ (L + 1) - 1 = L
    BY <1>2
  <2>. QED  BY <1>2, <1>4, <2>1 DEF ReplayRec
<1>. QED  BY <1>3, <1>4, <1>5, <1>6 DEF b

LEMMA SeqPrefix ==
    ASSUME NEW S, NEW q \in Seq(S), NEW i \in 0..Len(q)
    PROVE  /\ SubSeq(q, 1, i) \in Seq(S) /\ Len(SubSeq(q, 1, i)) = i
           /\ \A j \in 1..i : SubSeq(q, 1, i)[j] = q[j]
OBVIOUS

\* Induction over sequences, at their ends.
LEMMA SeqInduction ==
    ASSUME NEW S, NEW T, <<>> \in T, \A q \in Seq(S) : \A r \in S : q \in T => Append(q, r) \in T
    PROVE  Seq(S) \subseteq T
<1> DEFINE N == {k \in Nat : \A q \in Seq(S) : Len(q) = k => q \in T}
<1>1. 0 \in N
  <2>1. \A q \in Seq(S) : Len(q) = 0 => q = <<>>
    OBVIOUS
  <2>. QED  BY <2>1
<1>2. ASSUME NEW k \in Nat, k \in N PROVE k + 1 \in N
  <2>1. ASSUME NEW q \in Seq(S), Len(q) = k + 1 PROVE q \in T
    <3> DEFINE p == SubSeq(q, 1, k)
               r == q[k + 1]
    <3>1. r \in S /\ k \in 0..Len(q)
      BY <2>1
    <3>2. p \in Seq(S) /\ Len(p) = k /\ \A i \in 1..k : p[i] = q[i]
      BY <3>1, SeqPrefix
    <3> HIDE DEF p
    <3>3. q = Append(p, r)
      BY <2>1, <3>1, <3>2
    <3>4. p \in T
      BY <1>2, <3>2
    <3>. QED  BY <3>1, <3>2, <3>3, <3>4
  <2>. QED  BY <2>1
<1>3. Nat \subseteq N
  <2> HIDE DEF N
  <2>. QED  BY <1>1, <1>2, SetInduction
<1>4. \A q \in Seq(S) : Len(q) \in Nat
  OBVIOUS
<1>. QED  BY <1>3, <1>4

LEMMA RowSeqOf ==
    ASSUME NEW S, \A r \in S : IsRow(r)
    PROVE  \A q \in Seq(S) : RowSeq(q)
BY DEF RowSeq

LEMMA ReplayDoc ==
    ASSUME ParseTree, NEW n, IsDoc(n), NEW rows, RowSeq(rows)
    PROVE  IsDoc(ReplayFrom(n, rows))
<1>1. PICK S : rows \in Seq(S) /\ \A r \in S : IsRow(r)
  BY DEF RowSeq
<1> DEFINE T == {q \in Seq(S) : IsDoc(ReplayFrom(n, q))}
<1>2. <<>> \in T
  BY ReplayNone
<1>3. ASSUME NEW q \in Seq(S), NEW r \in S, q \in T PROVE Append(q, r) \in T
  <2>1. ReplayFrom(n, Append(q, r)) = ReplayRow(ReplayFrom(n, q), r)
    BY <1>1, RowSeqOf, ReplayOne
  <2>2. IsDoc(ReplayFrom(n, q)) /\ IsRow(r)
    BY <1>1, <1>3
  <2>3. IsDoc(ReplayRow(ReplayFrom(n, q), r))
    BY <2>2, ReplayRowKids
  <2>. QED  BY <2>1, <2>3
<1>4. Seq(S) \subseteq T
  <2> HIDE DEF T
  <2>. QED  BY <1>2, <1>3, SeqInduction
<1>. QED  BY <1>1, <1>4

LEMMA ReplayAgree ==
    ASSUME ParseTree, NEW n, IsDoc(n), NEW m, IsDoc(m), NEW k, Agree(n, m, k), NEW rows, RowSeq(rows)
    PROVE  Agree(ReplayFrom(n, rows), ReplayFrom(m, rows), k)
<1>1. PICK S : rows \in Seq(S) /\ \A r \in S : IsRow(r)
  BY DEF RowSeq
<1> DEFINE T == {q \in Seq(S) : Agree(ReplayFrom(n, q), ReplayFrom(m, q), k)}
<1>2. <<>> \in T
  BY ReplayNone
<1>3. ASSUME NEW q \in Seq(S), NEW r \in S, q \in T PROVE Append(q, r) \in T
  <2>0. RowSeq(q) /\ IsRow(r)
    BY <1>1, RowSeqOf
  <2>1. /\ ReplayFrom(n, Append(q, r)) = ReplayRow(ReplayFrom(n, q), r)
        /\ ReplayFrom(m, Append(q, r)) = ReplayRow(ReplayFrom(m, q), r)
    BY <2>0, ReplayOne
  <2>2. IsDoc(ReplayFrom(n, q)) /\ IsDoc(ReplayFrom(m, q)) /\ Agree(ReplayFrom(n, q), ReplayFrom(m, q), k)
    BY <1>3, <2>0, ReplayDoc
  <2>3. Agree(ReplayRow(ReplayFrom(n, q), r), ReplayRow(ReplayFrom(m, q), r), k)
    BY <2>0, <2>2, AgreeReplay
  <2>. QED  BY <2>1, <2>3
<1>4. Seq(S) \subseteq T
  <2> HIDE DEF T
  <2>. QED  BY <1>2, <1>3, SeqInduction
<1>. QED  BY <1>1, <1>4

LEMMA ReplayJoin ==
    ASSUME NEW n, NEW rows, RowSeq(rows), NEW more, RowSeq(more)
    PROVE  ReplayFrom(n, rows \o more) = ReplayFrom(ReplayFrom(n, rows), more)
<1>1. PICK S : more \in Seq(S) /\ \A r \in S : IsRow(r)
  BY DEF RowSeq
<1>0. PICK U : rows \in Seq(U)
  BY DEF RowSeq
<1> DEFINE x == ReplayFrom(n, rows)
           T == {q \in Seq(S) : ReplayFrom(n, rows \o q) = ReplayFrom(x, q)}
<1>2. <<>> \in T
  <2>1. rows \o <<>> = rows
    BY <1>0
  <2>. QED  BY <2>1, ReplayNone
<1>3. ASSUME NEW q \in Seq(S), NEW r \in S, q \in T PROVE Append(q, r) \in T
  <2>0. RowSeq(q) /\ IsRow(r)
    BY <1>1, RowSeqOf
  <2>1. RowSeq(rows \o q)
    BY <2>0, RowSeqs
  <2>2. rows \o Append(q, r) = Append(rows \o q, r)
    BY <1>0
  <2> HIDE DEF x
  <2>3. ReplayFrom(n, Append(rows \o q, r)) = ReplayRow(ReplayFrom(n, rows \o q), r)
    BY <2>1, ReplayOne
  <2>4. ReplayFrom(x, Append(q, r)) = ReplayRow(ReplayFrom(x, q), r)
    BY <2>0, ReplayOne
  <2>5. ReplayFrom(n, rows \o Append(q, r)) = ReplayFrom(x, Append(q, r))
    BY <1>3, <2>2, <2>3, <2>4
  <2>. QED  BY <2>5
<1>4. Seq(S) \subseteq T
  <2> HIDE DEF T
  <2>. QED  BY <1>2, <1>3, SeqInduction
<1>. QED  BY <1>1, <1>4

\* Records of other keys do nothing to a key.
LEMMA ReplayOff ==
    ASSUME ParseTree, NEW n, IsDoc(n), NEW k, NEW S, \A r \in S : IsRow(r) /\ ~On(r, k),
           NEW rows \in Seq(S)
    PROVE  Kid(ReplayFrom(n, rows), k) = Kid(n, k)
<1> DEFINE T == {q \in Seq(S) : Kid(ReplayFrom(n, q), k) = Kid(n, k)}
<1>2. <<>> \in T
  BY ReplayNone
<1>3. ASSUME NEW q \in Seq(S), NEW r \in S, q \in T PROVE Append(q, r) \in T
  <2>0. RowSeq(q) /\ IsRow(r) /\ ~On(r, k)
    BY RowSeqOf
  <2>1. ReplayFrom(n, Append(q, r)) = ReplayRow(ReplayFrom(n, q), r)
    BY <2>0, ReplayOne
  <2>2. IsDoc(ReplayFrom(n, q))
    BY <2>0, ReplayDoc
  <2>3. Kid(ReplayRow(ReplayFrom(n, q), r), k) = Do(AtKey(r, k), Kid(ReplayFrom(n, q), k))
    BY <2>0, <2>2, ReplayRowKids
  <2>4. AtKey(r, k) = Nothing
    BY <2>0 DEF AtKey
  <2>5. Kid(ReplayRow(ReplayFrom(n, q), r), k) = Kid(ReplayFrom(n, q), k)
    BY <2>3, <2>4, NothingRep
  <2>. QED  BY <1>3, <2>1, <2>5
<1>4. Seq(S) \subseteq T
  <2> HIDE DEF T
  <2>. QED  BY <1>2, <1>3, SeqInduction
<1>. QED  BY <1>4

\* A replay between a record and itself: the first of the two may be left out.
LEMMA AgainBetween ==
    ASSUME ParseTree, NEW k, NEW S, \A s \in S : Again(s, k), NEW rows \in Seq(S),
           NEW r, Again(r, k), NEW n, IsDoc(n)
    PROVE  Agree(ReplayRow(ReplayFrom(ReplayRow(n, r), rows), r), ReplayRow(ReplayFrom(n, rows), r), k)
<1> DEFINE m == ReplayRow(n, r)
           T == {q \in Seq(S) : Agree(ReplayRow(ReplayFrom(m, q), r), ReplayRow(ReplayFrom(n, q), r), k)}
<1>0. IsDoc(m) /\ IsRow(r) /\ \A s \in S : IsRow(s)
  BY ReplayRowKids DEF Again
<1>2. <<>> \in T
  <2> DEFINE a == ReplayRow(ReplayRow(ReplayRow(n, r), DumpRow), r)
             b == ReplayRow(ReplayRow(n, DumpRow), r)
  <2>1. Again(DumpRow, k)
    BY DEF Again, IsRow, On
  <2>2. Agree(a, b, k)
    BY <2>1, AgainSettles
  <2>3. \A x : ReplayRow(x, DumpRow) = x
    BY <2>1, ReplayRowIs DEF Again
  <2>4. Agree(ReplayRow(m, r), ReplayRow(n, r), k)
    BY <2>2, <2>3
  <2>5. ReplayFrom(m, <<>>) = m /\ ReplayFrom(n, <<>>) = n
    BY ReplayNone
  <2> HIDE DEF m
  <2>. QED  BY <2>4, <2>5
<1>3. ASSUME NEW q \in Seq(S), NEW u \in S, q \in T PROVE Append(q, u) \in T
  <2> DEFINE x == ReplayFrom(m, q)
             y == ReplayFrom(n, q)
  <2>0. RowSeq(q) /\ IsRow(u) /\ Again(u, k)
    BY <1>0, RowSeqOf
  <2>1. ReplayFrom(m, Append(q, u)) = ReplayRow(x, u) /\ ReplayFrom(n, Append(q, u)) = ReplayRow(y, u)
    BY <2>0, ReplayOne
  <2>2. IsDoc(x) /\ IsDoc(y) /\ Agree(ReplayRow(x, r), ReplayRow(y, r), k)
    BY <1>0, <1>3, <2>0, ReplayDoc
  <2> HIDE DEF x, y
  <2> DEFINE xr == ReplayRow(x, r)
             yr == ReplayRow(y, r)
             xu == ReplayRow(x, u)
             yu == ReplayRow(y, u)
             xru == ReplayRow(xr, u)
             yru == ReplayRow(yr, u)
  <2>3. Agree(ReplayRow(xru, r), ReplayRow(xu, r), k) /\ Agree(ReplayRow(yru, r), ReplayRow(yu, r), k)
    BY <2>0, <2>2, AgainSettles
  <2>4. IsDoc(xr) /\ IsDoc(yr)
    BY <1>0, <2>2, ReplayRowKids
  <2> HIDE DEF xr, yr
  <2>5. IsDoc(xru) /\ IsDoc(yru) /\ Agree(xru, yru, k)
    BY <2>0, <2>2, <2>4, ReplayRowKids, AgreeReplay DEF xr, yr
  <2> HIDE DEF xru, yru, xu, yu
  <2>6. Agree(ReplayRow(xru, r), ReplayRow(yru, r), k)
    BY <1>0, <2>5, AgreeReplay
  <2>7. Agree(ReplayRow(xu, r), ReplayRow(yu, r), k)
    BY <2>3, <2>6, AgreeThrough, AgreeBack
  <2>. QED  BY <2>1, <2>7 DEF x, y, xu, yu
<1>4. Seq(S) \subseteq T
  <2> HIDE DEF T
  <2>. QED  BY <1>2, <1>3, SeqInduction
<1>. QED  BY <1>4

\* A record that a replay has anyway may be left out before it.
LEMMA AgainBefore ==
    ASSUME ParseTree, NEW k, NEW S, \A s \in S : Again(s, k), NEW rows \in Seq(S),
           NEW r \in ToSet(rows), NEW n, IsDoc(n)
    PROVE  Agree(ReplayFrom(ReplayRow(n, r), rows), ReplayFrom(n, rows), k)
<1> DEFINE m == ReplayRow(n, r)
           T == {q \in Seq(S) : r \in ToSet(q) => Agree(ReplayFrom(m, q), ReplayFrom(n, q), k)}
<1>0. IsDoc(m) /\ r \in S /\ Again(r, k) /\ IsRow(r) /\ \A s \in S : IsRow(s)
  <2>1. r \in S
    BY DEF ToSet
  <2>2. IsRow(r) /\ \A s \in S : IsRow(s)
    BY <2>1 DEF Again
  <2>. QED  BY <2>1, <2>2, ReplayRowKids
<1> HIDE DEF m
<1>2. <<>> \in T
  BY DEF ToSet
<1>3. ASSUME NEW q \in Seq(S), NEW u \in S, q \in T PROVE Append(q, u) \in T
  <2> DEFINE x == ReplayFrom(m, q)
             y == ReplayFrom(n, q)
  <2>0. RowSeq(q) /\ IsRow(u) /\ Again(u, k)
    BY <1>0, RowSeqOf
  <2>1. ReplayFrom(m, Append(q, u)) = ReplayRow(x, u) /\ ReplayFrom(n, Append(q, u)) = ReplayRow(y, u)
    BY <2>0, ReplayOne
  <2>2. IsDoc(x) /\ IsDoc(y)
    BY <1>0, <2>0, ReplayDoc
  <2>3. SUFFICES ASSUME r \in ToSet(Append(q, u)) PROVE Agree(ReplayRow(x, u), ReplayRow(y, u), k)
    BY <2>1
  <2>4. CASE r \in ToSet(q)
    <3>1. Agree(x, y, k)
      BY <1>3, <2>4
    <3> HIDE DEF x, y
    <3>. QED  BY <2>0, <2>2, <3>1, AgreeReplay
  <2>5. CASE r \notin ToSet(q)
    <3>1. r = u
      BY <2>3, <2>5 DEF ToSet
    <3>. QED  BY <1>0, <3>1, AgainBetween DEF m
  <2>. QED  BY <2>4, <2>5
<1>4. Seq(S) \subseteq T
  <2> HIDE DEF T
  <2>. QED  BY <1>2, <1>3, SeqInduction
<1>. QED  BY <1>4 DEF m

\* So a replay of records over a document that holds them changes nothing.
LEMMA AgainAfter ==
    ASSUME ParseTree, NEW k, NEW S, \A s \in S : Again(s, k), NEW rows \in Seq(S),
           NEW n, IsDoc(n)
    PROVE  Agree(ReplayFrom(ReplayFrom(n, rows), rows), ReplayFrom(n, rows), k)
<1> DEFINE V == ToSet(rows)
           T == {q \in Seq(V) : Agree(ReplayFrom(ReplayFrom(n, q), rows), ReplayFrom(n, rows), k)}
<1>0. /\ \A r \in V : Again(r, k) /\ IsRow(r)
      /\ RowSeq(rows) /\ rows \in Seq(V)
  <2>1. \A s \in S : IsRow(s)
    BY DEF Again
  <2>. QED  BY <2>1, RowSeqOf DEF ToSet
<1>1. \A r \in V : r \in ToSet(rows)
  OBVIOUS
<1> HIDE DEF V
<1>2. <<>> \in T
  <2>1. IsDoc(ReplayFrom(n, rows))
    BY <1>0, ReplayDoc
  <2>. QED  BY <2>1, ReplayNone, DocKid
<1>3. ASSUME NEW q \in Seq(V), NEW r \in V, q \in T PROVE Append(q, r) \in T
  <2> DEFINE x == ReplayFrom(n, q)
  <2>0. RowSeq(q) /\ IsRow(r)
    BY <1>0, RowSeqOf
  <2>1. ReplayFrom(n, Append(q, r)) = ReplayRow(x, r)
    BY <2>0, ReplayOne
  <2>2. IsDoc(x) /\ Agree(ReplayFrom(x, rows), ReplayFrom(n, rows), k)
    BY <1>3, <2>0, ReplayDoc
  <2> HIDE DEF x
  <2>3. Agree(ReplayFrom(ReplayRow(x, r), rows), ReplayFrom(x, rows), k)
    BY <1>1, <2>2, AgainBefore
  <2>4. Agree(ReplayFrom(ReplayRow(x, r), rows), ReplayFrom(n, rows), k)
    BY <2>2, <2>3, AgreeThrough
  <2>. QED  BY <2>1, <2>4
<1>4. Seq(V) \subseteq T
  <2> HIDE DEF T
  <2>. QED  BY <1>2, <1>3, SeqInduction
<1>. QED  BY <1>0, <1>4

--------------------------------------------------------------------------------
(* What the state is made of.                                                    *)

DocTyped ==
    /\ IsDoc(root) /\ IsText(snap) /\ stale \in BOOLEAN
    /\ pc \in [Handlers -> {"idle", "copied", "applied"}]
    /\ row = [h \in Handlers |-> row[h]] /\ copied = [h \in Handlers |-> copied[h]]
    /\ \A h \in Handlers : /\ JSON(copied[h]) /\ IsRow(row[h])
                           /\ pc[h] = "idle" <=> row[h] = DumpRow
                           /\ pc[h] = "copied" => row[h].cmd = "set"
    /\ RowSeq(queue)
    /\ IsText(base) /\ RowSeq(recs) /\ DumpRow \notin ToSet(recs)
    /\ phase \in {"down", "starting", "serving"}
    /\ phase # "serving" => /\ queue = <<>> /\ astray = {}
                            /\ \A h \in Handlers : pc[h] = "idle"

LEMMA TextKinds ==
    /\ \A j : IsText(j) => JSON(j)
    /\ JSON(Null) /\ IsText(JSONObj(<<>>))
<1>1. \A j : IsText(j) => JSON(j)
  BY DEF IsText, ProperText, JSON
<1>2. Null.kind = "leaf"
  BY DEF Null, Leaf
<1>3. IsText(JSONObj(<<>>))
  <2> DEFINE j == JSONObj(<<>>)
  <2>1. j.kind = "members" /\ j.members = <<>> /\ j = JSONObj(j.members)
    BY DEF JSONObj
  <2>2. \A S : <<>> \in Seq(STRING \X S)
    OBVIOUS
  <2> HIDE DEF j
  <2>3. ProperText({j})
    BY <2>1, <2>2 DEF ProperText
  <2>. QED  BY <2>3 DEF IsText, j
<1>. QED  BY <1>1, <1>2, <1>3 DEF JSON

LEMMA ParsedDoc ==
    ASSUME ParseTree, NEW j, IsText(j)
    PROVE  IsDoc(ParseDoc(j))
BY ParsedTree, SimpleTrees, Kinds DEF ParseDoc, IsDoc

SetOp(path, v) == [cmd |-> "set", path |-> path, val |-> v]
DelOp(path)    == [cmd |-> "del", path |-> path, val |-> Nil]

LEMMA SetDoc ==
    ASSUME NEW n, IsDoc(n), NEW path \in Path, NEW v, IsTree(v), SetPath(n, path, v) # Refused
    PROVE  /\ IsOp(SetOp(path, v)) /\ IsDoc(SetPath(n, path, v))
           /\ \A k : Kid(SetPath(n, path, v), k) =
                        IF k = Head(path) THEN Do(Low(SetOp(path, v)), Kid(n, k)) ELSE Kid(n, k)
<1> DEFINE o == SetOp(path, v)
<1>1. o.cmd = "set" /\ o.path = path /\ o.val = v /\ path \in Strings /\ path # <<>>
  BY DEF SetOp, Path, Strings
<1>2. IsOp(o)
  BY <1>1 DEF SetOp, IsOp
<1>3. Do(o, n) = SetPath(n, path, v)
  BY <1>1 DEF Do
<1> HIDE DEF o
<1>4. /\ IsDoc(Do(o, n))
      /\ \A k : Kid(Do(o, n), k) = IF k = Head(o.path) /\ o.cmd # "nop" THEN Do(Low(o), Kid(n, k)) ELSE Kid(n, k)
  BY <1>1, <1>2, OpOnDoc
<1>. QED  BY <1>1, <1>2, <1>3, <1>4 DEF o

LEMMA DelDoc ==
    ASSUME NEW n, IsDoc(n), NEW path \in Path
    PROVE  /\ IsOp(DelOp(path)) /\ IsDoc(DelPath(n, path))
           /\ \A k : Kid(DelPath(n, path), k) =
                        IF k = Head(path) THEN Do(Low(DelOp(path)), Kid(n, k)) ELSE Kid(n, k)
<1> DEFINE o == DelOp(path)
<1>1. o.cmd = "del" /\ o.path = path /\ o.val = Nil /\ path \in Strings /\ path # <<>>
  BY DEF DelOp, Path, Strings
<1>2. IsOp(o)
  BY <1>1, SimpleTrees DEF DelOp, IsOp
<1>3. Do(o, n) = DelPath(n, path)
  BY <1>1 DEF Do
<1> HIDE DEF o
<1>4. /\ IsDoc(Do(o, n))
      /\ \A k : Kid(Do(o, n), k) = IF k = Head(o.path) /\ o.cmd # "nop" THEN Do(Low(o), Kid(n, k)) ELSE Kid(n, k)
  BY <1>1, <1>2, OpOnDoc
<1>. QED  BY <1>1, <1>2, <1>3, <1>4 DEF o

LEMMA RowsMade ==
    /\ IsRow(DumpRow)
    /\ \A path \in Path : IsRow(DelRow(path)) /\ DelRow(path) # DumpRow /\ DelRow(path).cmd = "del"
                          /\ DelRow(path).path = path
    /\ \A path \in Path : \A raw : IsText(raw) => /\ IsRow(SetRow(path, raw)) /\ SetRow(path, raw) # DumpRow
                                              /\ SetRow(path, raw).cmd = "set"
                                              /\ SetRow(path, raw).path = path
                                              /\ SetRow(path, raw).raw = raw
<1>1. DumpRow.cmd = "dump"
  BY DEF DumpRow
<1>2. ASSUME NEW path \in Path
      PROVE  IsRow(DelRow(path)) /\ DelRow(path).cmd = "del" /\ DelRow(path).path = path
  BY DEF DelRow, IsRow
<1>3. ASSUME NEW path \in Path, NEW raw, IsText(raw)
      PROVE  /\ IsRow(SetRow(path, raw)) /\ SetRow(path, raw).cmd = "set"
             /\ SetRow(path, raw).path = path /\ SetRow(path, raw).raw = raw
  BY <1>3 DEF SetRow, IsRow
<1>4. IsRow(DumpRow)
  BY DEF IsRow
<1>. QED  BY <1>1, <1>2, <1>3, <1>4

LEMMA RowPath ==
    ASSUME NEW r, IsRow(r), r # DumpRow
    PROVE  r.path \in Path
BY DEF IsRow

LEMMA LookedUp ==
    ASSUME NEW n, IsDoc(n), NEW path \in Path
    PROVE  Item(Lookup(n, path))
<1>1. Item(n) /\ path \in Strings
  BY DEF IsDoc, Item, Path, Strings
<1>. QED  BY <1>1, SameSelf, SameSeen

LEMMA TypedInit ==
    ASSUME ParseTree, Init
    PROVE  DocTyped
<1>1. IsText(base)
  BY InputsAssumption, TextsAreTexts DEF Init
<1>2. IsDoc(root)
  BY <1>1, ParsedDoc DEF Init
<1>3. /\ pc = [h \in Handlers |-> "idle"] /\ row = [h \in Handlers |-> DumpRow]
      /\ copied = [h \in Handlers |-> Null]
  BY DEF Init, NoHandlers
<1>4. /\ pc \in [Handlers -> {"idle", "copied", "applied"}]
      /\ row = [h \in Handlers |-> row[h]] /\ copied = [h \in Handlers |-> copied[h]]
      /\ \A h \in Handlers : pc[h] = "idle" /\ row[h] = DumpRow /\ copied[h] = Null
  BY <1>3
<1>5. ToSet(recs) = {} /\ recs = <<>> /\ queue = <<>> /\ snap = JSONObj(<<>>) /\ phase = "starting"
      /\ astray = {} /\ stale = TRUE
  BY DEF Init, ToSet
<1>. QED  BY <1>1, <1>2, <1>4, <1>5, TextKinds, RowsMade, RowSeqs DEF DocTyped

\* A handler that goes on to its next place.
LEMMA HandlerMoves ==
    ASSUME DocTyped, NEW h \in Handlers, NEW r, IsRow(r), NEW p \in {"idle", "copied", "applied"},
           p = "idle" <=> r = DumpRow, p = "copied" => r.cmd = "set",
           pc' = [pc EXCEPT ![h] = p], row' = [row EXCEPT ![h] = r],
           NEW c, JSON(c), copied' = copied \/ copied' = [copied EXCEPT ![h] = c]
    PROVE  /\ pc' \in [Handlers -> {"idle", "copied", "applied"}]
           /\ row' = [g \in Handlers |-> row'[g]] /\ copied' = [g \in Handlers |-> copied'[g]]
           /\ \A g \in Handlers : /\ JSON(copied'[g]) /\ IsRow(row'[g])
                                  /\ pc'[g] = "idle" <=> row'[g] = DumpRow
                                  /\ pc'[g] = "copied" => row'[g].cmd = "set"
           /\ pc'[h] = p /\ row'[h] = r
           /\ \A g \in Handlers \ {h} : pc'[g] = pc[g] /\ row'[g] = row[g]
<1>1. row = [g \in Handlers |-> row[g]] /\ copied = [g \in Handlers |-> copied[g]]
      /\ pc \in [Handlers -> {"idle", "copied", "applied"}]
  BY DEF DocTyped
<1>2. pc'[h] = p /\ row'[h] = r /\ pc' \in [Handlers -> {"idle", "copied", "applied"}]
      /\ \A g \in Handlers \ {h} : pc'[g] = pc[g] /\ row'[g] = row[g]
  BY <1>1
<1>3. row' = [g \in Handlers |-> row'[g]]
  BY <1>1
<1>4. copied' = [g \in Handlers |-> copied'[g]] /\ \A g \in Handlers : copied'[g] = copied[g] \/ copied'[g] = c
  BY <1>1
<1>5. \A g \in Handlers : JSON(copied'[g])
  BY <1>4 DEF DocTyped
<1>6. \A g \in Handlers : /\ IsRow(row'[g])
                          /\ pc'[g] = "idle" <=> row'[g] = DumpRow
                          /\ pc'[g] = "copied" => row'[g].cmd = "set"
  BY <1>2 DEF DocTyped
<1>. QED  BY <1>2, <1>3, <1>4, <1>5, <1>6

LEMMA BeginServes ==
    ASSUME DocTyped, NEW h \in Handlers, Begin(h)
    PROVE  phase = "serving" /\ pc[h] = "idle"
BY DEF Begin

\* What a change of the document by a handler comes to.
Changed(h, r) ==
    /\ IsRow(r) /\ r # DumpRow /\ h \in Handlers /\ IsDoc(root')
    /\ \E o : /\ IsOp(o) /\ Match(o, Op(r))
              /\ \A k : Kid(root', k) = IF k = Top(r) THEN Do(Low(o), Kid(root, k)) ELSE Kid(root, k)
    /\ stale' = TRUE /\ snap' = snap /\ Applied(h, r) /\ phase = "serving" /\ pc[h] # "applied"

LEMMA SetChanges ==
    ASSUME AppendTree, ParseTree, DocTyped, NEW h \in Handlers, Set(h)
    PROVE  /\ copied' = copied
           /\ \E r : Changed(h, r)
<1>1. PICK s \in Sets : /\ Begin(h)
                        /\ LET v == Parse(s[2])
                               n == SetPath(root, s[1], v)
                           IN n # Refused /\ Change(n) /\ Applied(h, SetRow(s[1], Render(v)))
  BY DEF Set
<1> DEFINE path == s[1]
           v == Parse(s[2])
           raw == Render(v)
           r == SetRow(path, raw)
<1>2. path \in Path /\ IsText(s[2])
  BY InputsAssumption, TextsAreTexts
<1>3. IsTree(v)
  BY <1>2, ParsedTree
<1>4. IsText(raw) /\ Same(v, Parse(raw))
  BY <1>3, RenderedText, ReadBack, SameBack
<1>5. /\ SetPath(root, path, v) # Refused /\ root' = SetPath(root, path, v)
      /\ stale' = TRUE /\ snap' = snap /\ Applied(h, r)
  BY <1>1 DEF Change
<1> HIDE DEF path, v
<1>6. IsRow(r) /\ r # DumpRow /\ r.cmd = "set" /\ r.path = path /\ r.raw = raw
  BY <1>2, <1>4, RowsMade
<1>7. Top(r) = Head(path)
  BY <1>6 DEF Top
<1>8. /\ IsOp(SetOp(path, v)) /\ IsDoc(root')
      /\ \A k : Kid(root', k) = IF k = Head(path) THEN Do(Low(SetOp(path, v)), Kid(root, k)) ELSE Kid(root, k)
  BY <1>2, <1>3, <1>5, SetDoc DEF DocTyped
<1>9. IsOp(Op(r)) /\ Op(r).cmd = "set" /\ Op(r).path = path /\ Op(r).val = Parse(raw)
  BY <1>6, OpOfRow DEF Op
<1> HIDE DEF raw, r
<1>10. Match(SetOp(path, v), Op(r))
  BY <1>4, <1>8, <1>9 DEF Match, SetOp
<1>11. Changed(h, r)
  BY <1>1, <1>5, <1>6, <1>7, <1>8, <1>10, BeginServes DEF Changed
<1>. QED  BY <1>11 DEF Set

LEMMA DelChanges ==
    ASSUME ParseTree, DocTyped, NEW h \in Handlers, Del(h)
    PROVE  /\ copied' = copied
           /\ \E r : Changed(h, r)
<1>1. PICK path \in Dels : Begin(h) /\ Change(DelPath(root, path)) /\ Applied(h, DelRow(path))
  BY DEF Del
<1> DEFINE r == DelRow(path)
<1>2. path \in Path
  BY InputsAssumption
<1>5. root' = DelPath(root, path) /\ stale' = TRUE /\ snap' = snap /\ Applied(h, r)
  BY <1>1 DEF Change
<1>6. IsRow(r) /\ r # DumpRow /\ r.cmd = "del" /\ r.path = path
  BY <1>2, RowsMade
<1>7. Top(r) = Head(path)
  BY <1>6 DEF Top
<1>8. /\ IsOp(DelOp(path)) /\ IsDoc(root')
      /\ \A k : Kid(root', k) = IF k = Head(path) THEN Do(Low(DelOp(path)), Kid(root, k)) ELSE Kid(root, k)
  BY <1>2, <1>5, DelDoc DEF DocTyped
<1>9. Op(r) = DelOp(path)
  BY <1>6 DEF Op, DelOp
<1> HIDE DEF r
<1>10. Match(DelOp(path), Op(r))
  BY <1>8, <1>9, SameSelf, SimpleTrees DEF Match, DelOp, Item
<1>11. Changed(h, r)
  BY <1>1, <1>5, <1>6, <1>7, <1>8, <1>10, BeginServes DEF Changed
<1>. QED  BY <1>11 DEF Del

LEMMA CloneChanges ==
    ASSUME ParseTree, DocTyped, NEW h \in Handlers, CloneWrite(h)
    PROVE  /\ copied' = [copied EXCEPT ![h] = Null]
           /\ \/ Changed(h, row[h])
              \/ /\ pc' = [pc EXCEPT ![h] = "idle"] /\ row' = [row EXCEPT ![h] = DumpRow]
                 /\ UNCHANGED <<docVars, queue, fileVars, phase, astray, nvac, ncrash>>
                 /\ pc[h] = "copied"
<1> DEFINE r == row[h]
           v == Parse(r.raw)
<1>1. /\ pc[h] = "copied" /\ copied' = [copied EXCEPT ![h] = Null]
      /\ \/ SetPath(root, r.path, v) # Refused /\ Change(SetPath(root, r.path, v)) /\ Applied(h, r)
         \/ /\ pc' = [pc EXCEPT ![h] = "idle"] /\ row' = [row EXCEPT ![h] = DumpRow]
            /\ UNCHANGED <<docVars, queue, fileVars, phase, astray, nvac, ncrash>>
  BY DEF CloneWrite
<1>2. IsRow(r) /\ r # DumpRow /\ r.cmd = "set" /\ phase = "serving"
  BY <1>1 DEF DocTyped
<1>3. r.path \in Path /\ IsTree(v)
  BY <1>2, RowPath, RowKinds, ParsedTree
<1> HIDE DEF r, v
<1>4. ASSUME SetPath(root, r.path, v) # Refused, Change(SetPath(root, r.path, v)), Applied(h, r)
      PROVE  Changed(h, r)
  <2>1. root' = SetPath(root, r.path, v) /\ stale' = TRUE /\ snap' = snap
    BY <1>4 DEF Change
  <2>2. /\ IsOp(SetOp(r.path, v)) /\ IsDoc(root')
        /\ \A k : Kid(root', k) = IF k = Top(r) THEN Do(Low(SetOp(r.path, v)), Kid(root, k)) ELSE Kid(root, k)
    BY <1>3, <1>4, <2>1, SetDoc DEF DocTyped, Top
  <2>3. Op(r) = SetOp(r.path, v)
    BY <1>2 DEF Op, SetOp, v
  <2>4. Match(SetOp(r.path, v), Op(r))
    BY <1>3, <2>2, <2>3, SameSelf DEF Match, SetOp, Item
  <2>. QED  BY <1>1, <1>2, <1>4, <2>1, <2>2, <2>4 DEF Changed
<1>. QED  BY <1>1, <1>4 DEF r

LEMMA ChangedTyped ==
    ASSUME DocTyped, NEW h \in Handlers, NEW r, Changed(h, r),
           copied' = copied \/ copied' = [copied EXCEPT ![h] = Null]
    PROVE  DocTyped'
<1>1. /\ IsRow(r) /\ r # DumpRow /\ IsDoc(root') /\ stale' = TRUE /\ snap' = snap /\ phase = "serving"
      /\ pc' = [pc EXCEPT ![h] = "applied"] /\ row' = [row EXCEPT ![h] = r]
      /\ UNCHANGED <<queue, fileVars, phase>>
  BY DEF Changed, Applied
<1>2. /\ pc' \in [Handlers -> {"idle", "copied", "applied"}]
      /\ row' = [g \in Handlers |-> row'[g]] /\ copied' = [g \in Handlers |-> copied'[g]]
      /\ \A g \in Handlers : /\ JSON(copied'[g]) /\ IsRow(row'[g])
                             /\ pc'[g] = "idle" <=> row'[g] = DumpRow
                             /\ pc'[g] = "copied" => row'[g].cmd = "set"
  BY <1>1, HandlerMoves, TextKinds
<1>. QED  BY <1>1, <1>2 DEF DocTyped, fileVars

LEMMA Fresh ==
    ASSUME AppendTree, DocTyped, TakeSnapshot
    PROVE  IsText(snap') /\ root' = root /\ stale' = FALSE
<1>1. IsText(Render(root))
  BY RenderedText DEF DocTyped, IsDoc
<1>. QED  BY <1>1 DEF TakeSnapshot, SnapshotOf, DocTyped

LEMMA QueueTail ==
    ASSUME RowSeq(queue), queue # <<>>
    PROVE  /\ RowSeq(Tail(queue)) /\ IsRow(Head(queue)) /\ queue = <<Head(queue)>> \o Tail(queue)
           /\ \A i \in 1..Len(Tail(queue)) : i + 1 \in 2..Len(queue) /\ Tail(queue)[i] = queue[i + 1]
           /\ Len(queue) \in Nat /\ Len(Tail(queue)) \in Nat
<1>1. PICK S : queue \in Seq(S) /\ \A r \in S : IsRow(r)
  BY DEF RowSeq
<1>2. Tail(queue) \in Seq(S) /\ Head(queue) \in S /\ queue = <<Head(queue)>> \o Tail(queue)
  BY <1>1
<1>3. /\ \A i \in 1..Len(Tail(queue)) : i + 1 \in 2..Len(queue) /\ Tail(queue)[i] = queue[i + 1]
      /\ Len(queue) \in Nat /\ Len(Tail(queue)) \in Nat
  BY <1>1
<1>. QED  BY <1>1, <1>2, <1>3 DEF RowSeq

LEMMA AppendMembers ==
    ASSUME NEW q, RowSeq(q), NEW r, NEW s, s \notin ToSet(q), r # s
    PROVE  s \notin ToSet(Append(q, r))
<1>1. PICK S : q \in Seq(S)
  BY DEF RowSeq
<1>. QED  BY <1>1 DEF ToSet

LEMMA CutRows ==
    ASSUME NEW q, RowSeq(q), NEW i \in 0..Len(q), NEW s, s \notin ToSet(q)
    PROVE  RowSeq(SubSeq(q, 1, i)) /\ s \notin ToSet(SubSeq(q, 1, i))
<1>1. PICK S : q \in Seq(S) /\ \A r \in S : IsRow(r)
  BY DEF RowSeq
<1>2. SubSeq(q, 1, i) \in Seq(S) /\ Len(SubSeq(q, 1, i)) = i /\ \A j \in 1..i : SubSeq(q, 1, i)[j] = q[j]
  BY <1>1, SeqPrefix
<1>3. DOMAIN SubSeq(q, 1, i) = 1..i /\ DOMAIN q = 1..Len(q) /\ Len(q) \in Nat
  BY <1>1, <1>2
<1>4. \A j \in 1..i : j \in 1..Len(q)
  BY <1>3
<1> DEFINE p == SubSeq(q, 1, i)
<1>5. p \in Seq(S) /\ DOMAIN p = 1..i /\ \A j \in 1..i : p[j] = q[j]
  BY <1>2, <1>3
<1> HIDE DEF p
<1>6. RowSeq(p) /\ s \notin ToSet(p)
  BY <1>1, <1>3, <1>4, <1>5 DEF RowSeq, ToSet
<1>. QED  BY <1>6 DEF p

LEMMA TypedNext ==
    ASSUME AppendTree, ParseTree, DocTyped, [Next]_vars
    PROVE  DocTyped'
<1>0. CASE UNCHANGED vars
  BY <1>0 DEF DocTyped, Agree, vars, docVars, handlerVars, fileVars, boundVars
<1>1. ASSUME NEW h \in Handlers, Set(h) PROVE DocTyped'
  <2>1. PICK r : Changed(h, r) /\ copied' = copied
    BY <1>1, SetChanges
  <2>. QED  BY <2>1, ChangedTyped
<1>2. ASSUME NEW h \in Handlers, Del(h) PROVE DocTyped'
  <2>1. PICK r : Changed(h, r) /\ copied' = copied
    BY <1>2, DelChanges
  <2>. QED  BY <2>1, ChangedTyped
<1>3. ASSUME NEW h \in Handlers, CloneRead(h) PROVE DocTyped'
  <2>1. PICK c \in Clones : /\ Begin(h) /\ Lookup(root, c[1]) # Absent
                            /\ copied' = [copied EXCEPT ![h] = Render(Lookup(root, c[1]))]
                            /\ row' = [row EXCEPT ![h] = SetRow(c[2], copied'[h])]
                            /\ pc' = [pc EXCEPT ![h] = "copied"]
                            /\ UNCHANGED <<docVars, queue, fileVars, phase, astray, nvac, ncrash>>
    BY <1>3 DEF CloneRead
  <2> DEFINE raw == Render(Lookup(root, c[1]))
  <2>2. c[1] \in Path /\ c[2] \in Path
    BY InputsAssumption
  <2>3. IsTree(Lookup(root, c[1]))
    BY <2>1, <2>2, LookedUp DEF DocTyped, Item
  <2>4. IsText(raw) /\ JSON(raw)
    BY <2>3, RenderedText, TextKinds
  <2>5. copied'[h] = raw
    BY <2>1 DEF DocTyped
  <2> HIDE DEF raw
  <2>6. IsRow(SetRow(c[2], raw)) /\ SetRow(c[2], raw) # DumpRow /\ SetRow(c[2], raw).cmd = "set"
    BY <2>2, <2>4, RowsMade
  <2>7. row' = [row EXCEPT ![h] = SetRow(c[2], raw)] /\ copied' = [copied EXCEPT ![h] = raw]
    BY <2>1, <2>5 DEF raw
  <2>8. /\ pc' \in [Handlers -> {"idle", "copied", "applied"}]
        /\ row' = [g \in Handlers |-> row'[g]] /\ copied' = [g \in Handlers |-> copied'[g]]
        /\ \A g \in Handlers : /\ JSON(copied'[g]) /\ IsRow(row'[g])
                               /\ pc'[g] = "idle" <=> row'[g] = DumpRow
                               /\ pc'[g] = "copied" => row'[g].cmd = "set"
    BY <2>1, <2>4, <2>6, <2>7, HandlerMoves
  <2>9. phase = "serving"
    BY <2>1, BeginServes
  <2>. QED  BY <2>1, <2>8, <2>9 DEF DocTyped, docVars, fileVars
<1>4. ASSUME NEW h \in Handlers, CloneWrite(h) PROVE DocTyped'
  <2>1. CASE Changed(h, row[h])
    BY <1>4, <2>1, CloneChanges, ChangedTyped
  <2>2. CASE ~Changed(h, row[h])
    <3>1. /\ copied' = [copied EXCEPT ![h] = Null] /\ pc[h] = "copied"
          /\ pc' = [pc EXCEPT ![h] = "idle"] /\ row' = [row EXCEPT ![h] = DumpRow]
          /\ UNCHANGED <<docVars, queue, fileVars, phase, astray, nvac, ncrash>>
      BY <1>4, <2>2, CloneChanges
    <3>2. /\ pc' \in [Handlers -> {"idle", "copied", "applied"}]
          /\ row' = [g \in Handlers |-> row'[g]] /\ copied' = [g \in Handlers |-> copied'[g]]
          /\ \A g \in Handlers : /\ JSON(copied'[g]) /\ IsRow(row'[g])
                                 /\ pc'[g] = "idle" <=> row'[g] = DumpRow
                                 /\ pc'[g] = "copied" => row'[g].cmd = "set"
      BY <3>1, HandlerMoves, TextKinds, RowsMade
    <3>3. phase = "serving"
      BY <3>1 DEF DocTyped
    <3>. QED  BY <3>1, <3>2, <3>3 DEF DocTyped, docVars, fileVars
  <2>. QED  BY <2>1, <2>2
<1>5. ASSUME NEW h \in Handlers, AppendAOF(h) PROVE DocTyped'
  <2>1. /\ copied' = copied /\ pc[h] = "applied" /\ queue' = Append(queue, row[h])
        /\ pc' = [pc EXCEPT ![h] = "idle"] /\ row' = [row EXCEPT ![h] = DumpRow]
        /\ UNCHANGED <<docVars, copied, fileVars, phase, astray>>
    BY <1>5 DEF AppendAOF
  <2>2. /\ pc' \in [Handlers -> {"idle", "copied", "applied"}]
        /\ row' = [g \in Handlers |-> row'[g]] /\ copied' = [g \in Handlers |-> copied'[g]]
        /\ \A g \in Handlers : /\ JSON(copied'[g]) /\ IsRow(row'[g])
                               /\ pc'[g] = "idle" <=> row'[g] = DumpRow
                               /\ pc'[g] = "copied" => row'[g].cmd = "set"
    BY <2>1, HandlerMoves, TextKinds, RowsMade
  <2>3. phase = "serving" /\ RowSeq(queue')
    BY <2>1, RowSeqs DEF DocTyped
  <2>. QED  BY <2>1, <2>2, <2>3 DEF DocTyped, docVars, fileVars
<1>6. CASE Vacuum
  <2>1. RowSeq(queue')
    BY <1>6, RowSeqs, RowsMade DEF Vacuum, DocTyped
  <2>. QED  BY <1>6, <2>1 DEF Vacuum, DocTyped, docVars, fileVars, handlerVars
<1>7. CASE Get
  <2>1. IsText(snap') /\ root' = root /\ stale' = FALSE
    BY <1>7, Fresh DEF Get
  <2>. QED  BY <1>7, <2>1 DEF Get, DocTyped, docVars, fileVars, handlerVars
<1>8. ASSUME Persist PROVE RowSeq(queue') /\ IsRow(Head(queue)) /\ phase' = "serving" /\ UNCHANGED handlerVars
  BY <1>8, QueueTail DEF Persist, DocTyped
<1>9. CASE Record
  <2>1. RowSeq(recs') /\ DumpRow \notin ToSet(recs')
    BY <1>8, <1>9, RowSeqs, AppendMembers DEF Record, DocTyped
  <2>. QED  BY <1>8, <1>9, <2>1 DEF Record, DocTyped, docVars, fileVars, handlerVars
<1>10. CASE Dump
  <2>1. IsText(snap') /\ root' = root /\ stale' = FALSE
    BY <1>10, Fresh DEF Dump
  <2>2. recs' = <<>> /\ RowSeq(recs') /\ DumpRow \notin ToSet(recs')
    BY <1>10, RowSeqs DEF Dump, ToSet
  <2>3. IsText(base')
    BY <1>10, <2>1 DEF Dump
  <2>. QED  BY <1>8, <1>10, <2>1, <2>2, <2>3 DEF Dump, DocTyped, docVars, fileVars, handlerVars
<1>11. CASE DumpFails
  <2>1. IsText(snap') /\ root' = root /\ stale' \in BOOLEAN
    BY <1>11, Fresh DEF DumpFails, docVars, DocTyped
  <2>. QED  BY <1>8, <1>11, <2>1 DEF DumpFails, DocTyped, docVars, fileVars, handlerVars
<1>12. CASE Crash
  <2>1. PICK i \in 0..Len(recs) : recs' = SubSeq(recs, 1, i)
    BY <1>12 DEF Crash
  <2>2. RowSeq(recs') /\ DumpRow \notin ToSet(recs')
    BY <2>1, CutRows DEF DocTyped
  <2>3. /\ root' = NewObj /\ snap' = JSONObj(<<>>) /\ stale' = FALSE /\ queue' = <<>> /\ astray' = {}
        /\ phase' = "down" /\ base' = base
    BY <1>12 DEF Crash
  <2>4. IsDoc(root') /\ IsText(snap') /\ RowSeq(queue')
    BY <2>3, SimpleTrees, Kinds, TextKinds, RowSeqs DEF IsDoc
  <2>5. /\ pc' = [h \in Handlers |-> "idle"] /\ row' = [h \in Handlers |-> DumpRow]
        /\ copied' = [h \in Handlers |-> Null]
    BY <1>12 DEF Crash
  <2>6. /\ pc' \in [Handlers -> {"idle", "copied", "applied"}]
        /\ row' = [h \in Handlers |-> row'[h]] /\ copied' = [h \in Handlers |-> copied'[h]]
        /\ \A h \in Handlers : pc'[h] = "idle" /\ row'[h] = DumpRow /\ copied'[h] = Null
    BY <2>5
  <2>7. \A h \in Handlers : /\ JSON(copied'[h]) /\ IsRow(row'[h])
                            /\ pc'[h] = "idle" <=> row'[h] = DumpRow
                            /\ pc'[h] = "copied" => row'[h].cmd = "set"
    BY <2>6, TextKinds, RowsMade
  <2>8. /\ IsText(base') /\ phase' \in {"down", "starting", "serving"} /\ stale' \in BOOLEAN
        /\ queue' = <<>> /\ astray' = {}
    BY <2>3 DEF DocTyped
  <2>9. \A h \in Handlers : pc'[h] = "idle"
    BY <2>6
  <2>10. pc' \in [Handlers -> {"idle", "copied", "applied"}]
    BY <2>6
  <2>11. row' = [h \in Handlers |-> row'[h]] /\ copied' = [h \in Handlers |-> copied'[h]]
    BY <2>6
  <2>. QED  BY <2>2, <2>4, <2>7, <2>8, <2>9, <2>10, <2>11 DEF DocTyped
<1>13. CASE Start
  <2>1. IsDoc(root') /\ snap' = snap /\ stale' = TRUE
    BY <1>13, ParsedDoc, ReplayDoc DEF Start, Change, Replay, DocTyped
  <2>. QED  BY <1>13, <2>1 DEF Start, DocTyped, docVars, fileVars, handlerVars
<1>14. CASE Restore
  <2>1. PICK raw \in PeerDocs : root' = ParseDoc(raw) /\ stale' = FALSE /\ snap' = raw
    BY <1>14 DEF Restore, Replace
  <2>2. IsText(raw)
    BY InputsAssumption, TextsAreTexts
  <2>3. IsDoc(root') /\ IsText(snap')
    BY <2>1, <2>2, ParsedDoc, TextKinds
  <2>4. RowSeq(queue')
    BY <1>14, RowSeqs, RowsMade DEF Restore, DocTyped
  <2>. QED  BY <1>14, <2>1, <2>3, <2>4 DEF Restore, DocTyped, fileVars, handlerVars
<1>15. CASE Serve
  BY <1>15 DEF Serve, DocTyped, docVars, fileVars, handlerVars
<1>. QED
  BY <1>0, <1>1, <1>2, <1>3, <1>4, <1>5, <1>6, <1>7, <1>9, <1>10, <1>11, <1>12, <1>13, <1>14, <1>15
  DEF Next, Handler

LEMMA TreesInStep ==
    ASSUME NEW n, Item(n)
    PROVE  InStep(n)
<1> SUFFICES ASSUME n.kind = "obj"
             PROVE  /\ Len(n.keys) = Len(n.vals) /\ DOMAIN n.idx = ToSet(n.keys)
                    /\ \A i \in DOMAIN n.keys : n.idx[n.keys[i]] = i
  BY DEF InStep
<1>1. IsTree(n)
  BY Kinds DEF Item
<1>2. PICK T : ObjIn(n, T)
  BY <1>1, TreeKinds, Kinds, ArrKids
<1>. QED  BY <1>2 DEF ObjIn

\* The type invariant of the document follows from what the state is made of.
LEMMA TypedIsOK ==
    ASSUME DocTyped
    PROVE  DocTypeOK
<1>1. root.kind = "obj" /\ InStep(root)
  BY TreesInStep DEF DocTyped, IsDoc, Item
<1>2. \A path \in Paths : InStep(Lookup(root, path))
  BY InputsAssumption, LookedUp, TreesInStep DEF DocTyped
<1>3. JSON(snap) /\ JSON(base)
  BY TextKinds DEF DocTyped
<1>4. \A h \in Handlers : JSON(copied[h]) /\ (pc[h] # "idle" => row[h].cmd \in {"set", "del"})
  BY RowKinds DEF DocTyped
<1>. QED  BY <1>1, <1>2, <1>3, <1>4 DEF DocTypeOK, DocTyped

--------------------------------------------------------------------------------
(* The file and what is owed to it.                                              *)

\* The file once persist has taken the queue.
File == ReplayFrom(ParseDoc(base), recs \o queue)

\* The record of a key that a handler has not queued yet: DumpRow for none.
Owed(k, r) ==
    \/ r = DumpRow /\ \A h \in Pending : Top(row[h]) # k
    \/ \E h \in Pending : /\ r = row[h] /\ Top(r) = k
                          /\ \A g \in Pending : Top(row[g]) = k => g = h

\* With it the file has for a key what the document has.
Kept(k) == \E r : Owed(k, r) /\ Agree(root, ReplayRow(File, r), k)

DocKept == phase # "down" => \A k : k \in astray \/ Kept(k)

LEMMA FileDoc ==
    ASSUME ParseTree, DocTyped
    PROVE  IsDoc(ParseDoc(base)) /\ RowSeq(recs \o queue) /\ IsDoc(File)
<1>1. IsDoc(ParseDoc(base)) /\ RowSeq(recs \o queue)
  BY ParsedDoc, RowSeqs DEF DocTyped
<1>. QED  BY <1>1, ReplayDoc DEF File

LEMMA PendingRows ==
    ASSUME DocTyped, NEW h \in Pending
    PROVE  h \in Handlers /\ IsRow(row[h]) /\ row[h] # DumpRow /\ phase = "serving" /\ pc[h] = "applied"
BY DEF DocTyped, Pending

LEMMA OwedRow ==
    ASSUME DocTyped, NEW k, NEW r, Owed(k, r)
    PROVE  IsRow(r)
BY PendingRows, RowsMade DEF Owed

LEMMA OwedSame ==
    ASSUME Pending' = Pending, \A h \in Pending : row'[h] = row[h], NEW k, NEW r
    PROVE  Owed(k, r)' <=> Owed(k, r)
BY DEF Owed

LEMMA NoneOwed ==
    ASSUME Pending = {}, NEW k, NEW r
    PROVE  Owed(k, r) <=> r = DumpRow
BY DEF Owed

LEMMA DumpReplayed == \A n : ReplayRow(n, DumpRow) = n
BY ReplayRowIs, RowsMade

\* A step that changes neither the document, nor the file, nor what is owed.
LEMMA KeptStays ==
    ASSUME DocKept, phase # "down", root' = root, File' = File, astray' = astray,
           Pending' = Pending, \A h \in Pending : row'[h] = row[h]
    PROVE  DocKept'
<1>1. ASSUME NEW k, k \notin astray PROVE Kept(k)'
  <2>1. PICK r : Owed(k, r) /\ Agree(root, ReplayRow(File, r), k)
    BY <1>1 DEF DocKept, Kept
  <2>2. Owed(k, r)'
    BY <2>1, OwedSame
  <2>3. Agree(root', ReplayRow(File', r), k)
    BY <2>1
  <2> HIDE DEF File
  <2>. QED  BY <2>2, <2>3 DEF Kept
<1>. QED  BY <1>1 DEF DocKept

LEMMA KeptInit ==
    ASSUME ParseTree, Init
    PROVE  DocKept
<1>1. DocTyped /\ recs = <<>> /\ queue = <<>> /\ root = ParseDoc(base) /\ pc = [h \in Handlers |-> "idle"]
  BY TypedInit DEF Init, NoHandlers
<1>2. recs \o queue = <<>>
  BY <1>1
<1>3. File = root
  BY <1>1, <1>2, ReplayNone DEF File
<1>4. Pending = {}
  BY <1>1 DEF Pending
<1>5. \A k : Agree(root, ReplayRow(File, DumpRow), k)
  BY <1>1, <1>3, DumpReplayed, DocKid DEF DocTyped
<1>. QED  BY <1>4, <1>5, NoneOwed DEF DocKept, Kept

\* A handler changes the document.
LEMMA KeptChanged ==
    ASSUME ParseTree, DocTyped, DocKept, NEW h, NEW r, Changed(h, r)
    PROVE  DocKept'
<1>1. /\ IsRow(r) /\ r # DumpRow /\ h \in Handlers /\ IsDoc(root') /\ phase = "serving" /\ pc[h] # "applied"
      /\ pc' = [pc EXCEPT ![h] = "applied"] /\ row' = [row EXCEPT ![h] = r]
      /\ astray' = astray \cup Races(r)
      /\ UNCHANGED <<queue, base, recs, phase>>
  BY DEF Changed, Applied, fileVars
<1>2. PICK o : /\ IsOp(o) /\ Match(o, Op(r))
               /\ \A k : Kid(root', k) = IF k = Top(r) THEN Do(Low(o), Kid(root, k)) ELSE Kid(root, k)
  BY DEF Changed
<1>3. Pending' = Pending \cup {h} /\ h \notin Pending /\ row'[h] = r /\ \A g \in Pending : row'[g] = row[g]
  <2>1. pc \in [Handlers -> {"idle", "copied", "applied"}] /\ row = [g \in Handlers |-> row[g]]
    BY DEF DocTyped
  <2>. QED  BY <1>1, <2>1 DEF Pending
<1>4. File' = File
  BY <1>1 DEF File
<1>5. IsDoc(File) /\ IsDoc(root)
  BY FileDoc DEF DocTyped
<1> HIDE DEF File
<1>6. ASSUME NEW k, k \notin astray' PROVE Kept(k)'
  <2>1. PICK q : Owed(k, q) /\ Agree(root, ReplayRow(File, q), k)
    BY <1>1, <1>6 DEF DocKept, Kept
  <2>2. CASE k # Top(r)
    <3>1. Owed(k, q)'
      BY <1>3, <2>1, <2>2 DEF Owed
    <3>2. Kid(root', k) = Kid(root, k)
      BY <1>2, <2>2
    <3>3. Agree(root', ReplayRow(File', q), k)
      BY <1>4, <2>1, <3>2 DEF Agree
    <3>. QED  BY <3>1, <3>3 DEF Kept
  <2>3. CASE k = Top(r)
    <3>1. \A g \in Pending : Top(row[g]) # k
      BY <1>1, <1>6, <2>3 DEF Races
    <3>2. q = DumpRow
      BY <2>1, <3>1 DEF Owed
    <3>3. Same(Kid(root, k), Kid(File, k))
      BY <2>1, <3>2, DumpReplayed DEF Agree
    <3>4. Owed(k, r)'
      BY <1>3, <2>3, <3>1 DEF Owed
    <3>5. /\ Kid(root', k) = Do(Low(o), Kid(root, k))
          /\ Kid(ReplayRow(File, r), k) = Do(Low(Op(r)), Kid(File, k))
      <4>1. AtKey(r, k) = Low(Op(r))
        BY <1>1, <2>3 DEF AtKey, On
      <4>2. Kid(ReplayRow(File, r), k) = Do(AtKey(r, k), Kid(File, k))
        BY <1>1, <1>5, ReplayRowKids
      <4>. QED  BY <1>2, <2>3, <4>1, <4>2
    <3>6. Match(Low(o), Low(Op(r)))
      <4>1. IsOp(Op(r)) /\ Op(r).path # <<>> /\ o.path = Op(r).path /\ o.cmd = Op(r).cmd /\ Same(o.val, Op(r).val)
        BY <1>1, <1>2, OpOfRow DEF Match
      <4>2. /\ IsOp(Low(o)) /\ Low(o).cmd = o.cmd /\ Low(o).path = Tail(o.path) /\ Low(o).val = o.val
            /\ IsOp(Low(Op(r))) /\ Low(Op(r)).cmd = Op(r).cmd /\ Low(Op(r)).path = Tail(Op(r).path)
            /\ Low(Op(r)).val = Op(r).val
        BY <1>2, <4>1, LowOp
      <4>. QED  BY <4>1, <4>2 DEF Match
    <3>7. Item(Kid(root, k)) /\ Item(Kid(File, k))
      BY <1>5, DocKid
    <3>8. Same(Do(Low(o), Kid(root, k)), Do(Low(Op(r)), Kid(File, k)))
      BY <3>3, <3>6, <3>7, Carried DEF Carries
    <3>9. Agree(root', ReplayRow(File', r), k)
      BY <1>4, <3>5, <3>8 DEF Agree
    <3>. QED  BY <3>4, <3>9 DEF Kept
  <2>. QED  BY <2>2, <2>3
<1>. QED  BY <1>6 DEF DocKept

LEMMA SeqParts ==
    ASSUME NEW S, NEW a \in Seq(S), NEW b \in Seq(S), NEW r \in S
    PROVE  /\ a \o Append(b, r) = Append(a \o b, r)
           /\ b # <<>> => Append(a, Head(b)) \o Tail(b) = a \o b
           /\ a \o <<>> = a /\ <<>> \o a = a
<1>1. a \o Append(b, r) = Append(a \o b, r)
  OBVIOUS
<1>2. ASSUME b # <<>> PROVE Append(a, Head(b)) \o Tail(b) = a \o b
  <2> DEFINE c == Append(a, Head(b))
             t == Tail(b)
  <2>1. /\ Len(b) \in Nat /\ Len(b) # 0 /\ Len(a) \in Nat /\ Head(b) \in S /\ Head(b) = b[1]
        /\ t \in Seq(S) /\ Len(t) = Len(b) - 1 /\ \A i \in 1..(Len(b) - 1) : t[i] = b[i + 1]
    BY <1>2
  <2>2. c \in Seq(S) /\ Len(c) = Len(a) + 1 /\ c[Len(a) + 1] = b[1] /\ \A i \in 1..Len(a) : c[i] = a[i]
    BY <2>1
  <2> HIDE DEF c, t
  <2>3. c \o t = a \o b
    <3> DEFINE L == Len(a) + Len(b)
               f == c \o t
               g == a \o b
    <3>1. f \in Seq(S) /\ g \in Seq(S) /\ Len(g) = L
      BY <2>1, <2>2, ConcatProperties
    <3>2. Len(f) = L
      <4>1. Len(f) = Len(c) + Len(t)
        BY <2>1, <2>2, ConcatProperties
      <4>. QED  BY <2>1, <2>2, <4>1
    <3>3. \A i \in 1..(Len(c) + Len(t)) : f[i] = IF i <= Len(c) THEN c[i] ELSE t[i - Len(c)]
      BY <2>1, <2>2, ConcatProperties
    <3>4. \A i \in 1..(Len(a) + Len(b)) : g[i] = IF i <= Len(a) THEN a[i] ELSE b[i - Len(a)]
      BY ConcatProperties
    <3> HIDE DEF f, g
    <3>5. ASSUME NEW i \in 1..L PROVE f[i] = g[i]
      <4>1. CASE i <= Len(a)
        <5>1. i \in 1..Len(a) /\ i \in 1..(Len(c) + Len(t)) /\ i <= Len(c)
          BY <2>1, <2>2, <4>1
        <5>. QED  BY <2>2, <3>3, <3>4, <4>1, <5>1
      <4>2. CASE i = Len(a) + 1
        <5>1. i \in 1..(Len(c) + Len(t)) /\ i <= Len(c) /\ ~(i <= Len(a)) /\ i - Len(a) = 1
          BY <2>1, <2>2, <4>2
        <5>2. f[i] = b[1]
          BY <2>2, <3>3, <4>2, <5>1
        <5>. QED  BY <3>4, <5>1, <5>2
      <4>3. CASE i > Len(a) + 1
        <5>1. /\ i \in 1..(Len(c) + Len(t)) /\ ~(i <= Len(c)) /\ ~(i <= Len(a))
              /\ i - Len(c) \in 1..(Len(b) - 1) /\ (i - Len(c)) + 1 = i - Len(a)
          BY <2>1, <2>2, <4>3
        <5>2. f[i] = t[i - Len(c)] /\ t[i - Len(c)] = b[(i - Len(c)) + 1]
          BY <2>1, <3>3, <5>1
        <5>. QED  BY <3>4, <5>1, <5>2
      <4>. QED  BY <2>1, <4>1, <4>2, <4>3
    <3>6. f = g
      BY <3>1, <3>2, <3>5, SeqEqual
    <3>. QED  BY <3>6 DEF f, g
  <2>. QED  BY <2>3 DEF c, t
<1>3. a \o <<>> = a /\ <<>> \o a = a
  OBVIOUS
<1>. QED  BY <1>1, <1>2, <1>3

LEMMA RowParts ==
    ASSUME NEW a, RowSeq(a), NEW b, RowSeq(b)
    PROVE  /\ \A r : IsRow(r) => a \o Append(b, r) = Append(a \o b, r)
           /\ b # <<>> => Append(a, Head(b)) \o Tail(b) = a \o b
           /\ a \o <<>> = a /\ <<>> \o a = a
<1>1. PICK S : a \in Seq(S) /\ \A x \in S : IsRow(x)
  BY DEF RowSeq
<1>2. PICK T : b \in Seq(T) /\ \A x \in T : IsRow(x)
  BY DEF RowSeq
<1>3. ASSUME NEW r, IsRow(r)
      PROVE  /\ a \o Append(b, r) = Append(a \o b, r)
             /\ b # <<>> => Append(a, Head(b)) \o Tail(b) = a \o b
             /\ a \o <<>> = a /\ <<>> \o a = a
  <2> DEFINE U == S \cup T \cup {r}
  <2>1. a \in Seq(U) /\ b \in Seq(U) /\ r \in U
    BY <1>1, <1>2
  <2> HIDE DEF U
  <2>. QED  BY <2>1, SeqParts
<1>. QED  BY <1>3, RowsMade

\* A handler queues its record.
LEMMA KeptAppend ==
    ASSUME ParseTree, DocTyped, DocKept, NEW h \in Handlers, AppendAOF(h)
    PROVE  DocKept'
<1>1. /\ pc[h] = "applied" /\ queue' = Append(queue, row[h])
      /\ pc' = [pc EXCEPT ![h] = "idle"] /\ row' = [row EXCEPT ![h] = DumpRow]
      /\ UNCHANGED <<root, base, recs, phase, astray>>
  BY DEF AppendAOF, docVars, fileVars
<1> DEFINE r == row[h]
<1>2. /\ h \in Pending /\ Pending' = Pending \ {h} /\ \A g \in Pending \ {h} : row'[g] = row[g]
  <2>1. pc \in [Handlers -> {"idle", "copied", "applied"}] /\ row = [g \in Handlers |-> row[g]]
    BY DEF DocTyped
  <2>. QED  BY <1>1, <2>1 DEF Pending
<1>3. IsRow(r) /\ r # DumpRow /\ phase = "serving"
  BY <1>2, PendingRows
<1>4. File' = ReplayRow(File, r)
  <2>1. RowSeq(recs) /\ RowSeq(queue) /\ RowSeq(recs \o queue)
    BY RowSeqs DEF DocTyped
  <2>2. recs \o queue' = Append(recs \o queue, r)
    BY <1>1, <1>3, <2>1, RowParts
  <2>. QED  BY <1>1, <2>1, <2>2, ReplayOne DEF File
<1>5. IsDoc(File) /\ IsDoc(File')
  BY <1>3, <1>4, FileDoc, ReplayRowKids
<1> HIDE DEF File
<1>6. ASSUME NEW k, k \notin astray PROVE Kept(k)'
  <2>1. PICK q : Owed(k, q) /\ Agree(root, ReplayRow(File, q), k)
    BY <1>3, <1>6 DEF DocKept, Kept
  <2>2. CASE k = Top(r)
    <3>1. q = r /\ \A g \in Pending \ {h} : Top(row[g]) # k
      BY <1>2, <2>1, <2>2 DEF Owed
    <3>2. Owed(k, DumpRow)'
      BY <1>2, <3>1 DEF Owed
    <3>3. Agree(root', ReplayRow(File', DumpRow), k)
      BY <1>1, <1>4, <2>1, <3>1, DumpReplayed
    <3>. QED  BY <3>2, <3>3 DEF Kept
  <2>3. CASE k # Top(r)
    <3>1. Owed(k, q)'
      <4>1. CASE q = DumpRow /\ \A g \in Pending : Top(row[g]) # k
        BY <1>2, <4>1 DEF Owed
      <4>2. CASE \E g \in Pending : /\ q = row[g] /\ Top(q) = k
                                    /\ \A f \in Pending : Top(row[f]) = k => f = g
        <5>1. PICK g \in Pending : /\ q = row[g] /\ Top(q) = k
                                   /\ \A f \in Pending : Top(row[f]) = k => f = g
          BY <4>2
        <5>2. g \in Pending' /\ row'[g] = q /\ \A f \in Pending' : Top(row'[f]) = k => f = g
          BY <1>2, <2>3, <5>1
        <5>. QED  BY <5>1, <5>2 DEF Owed
      <4>. QED  BY <2>1, <4>1, <4>2 DEF Owed
    <3>2. Kid(File', k) = Kid(File, k)
      <4>1. AtKey(r, k) = Nothing
        BY <2>3 DEF AtKey, On
      <4>2. Kid(ReplayRow(File, r), k) = Do(AtKey(r, k), Kid(File, k))
        BY <1>3, <1>5, ReplayRowKids
      <4>. QED  BY <1>4, <4>1, <4>2, NothingRep
    <3>3. IsRow(q)
      BY <2>1, OwedRow
    <3>4. Agree(File, File', k)
      BY <1>5, <3>2, DocKid DEF Agree
    <3>5. Agree(ReplayRow(File, q), ReplayRow(File', q), k)
      BY <1>5, <3>3, <3>4, AgreeReplay
    <3>6. Agree(root', ReplayRow(File', q), k)
      BY <1>1, <2>1, <3>5, AgreeThrough
    <3>. QED  BY <3>1, <3>6 DEF Kept
  <2>. QED  BY <2>2, <2>3
<1>. QED  BY <1>1, <1>6 DEF DocKept

\* What persist takes from the queue.
LEMMA Taken ==
    ASSUME DocTyped, Persist
    PROVE  /\ phase = "serving" /\ phase' = "serving" /\ Pending' = Pending /\ row' = row
           /\ queue' = Tail(queue) /\ RowSeq(queue') /\ IsRow(Head(queue)) /\ queue # <<>>
           /\ RowSeq(recs) /\ RowSeq(queue)
           /\ Append(recs, Head(queue)) \o queue' = recs \o queue
BY QueueTail, RowParts DEF Persist, DocTyped, handlerVars, Pending

LEMMA KeptRecord ==
    ASSUME DocTyped, DocKept, Record
    PROVE  DocKept'
<1>1. root' = root /\ base' = base /\ astray' = astray /\ recs' = Append(recs, Head(queue)) /\ Persist
  BY DEF Record, docVars
<1>2. recs' \o queue' = recs \o queue
  BY <1>1, Taken
<1>3. File' = File
  BY <1>1, <1>2 DEF File
<1>. QED  BY <1>1, <1>3, Taken, KeptStays

\* The file without the dump that is at the head of the queue.
LEMMA DumpTaken ==
    ASSUME DocTyped, Persist, Head(queue) = DumpRow
    PROVE  File = ReplayFrom(ReplayFrom(ParseDoc(base), recs), queue')
<1> DEFINE d == ParseDoc(base)
<1>1. RowSeq(recs) /\ RowSeq(queue') /\ Append(recs, DumpRow) \o queue' = recs \o queue
      /\ RowSeq(Append(recs, DumpRow))
  BY Taken, RowSeqs, RowsMade
<1> HIDE DEF d
<1> DEFINE a == Append(recs, DumpRow)
           b == queue'
<1>2. ReplayFrom(d, recs \o queue) = ReplayFrom(ReplayFrom(d, Append(recs, DumpRow)), queue')
  <2>0. RowSeq(a) /\ RowSeq(b)
    BY <1>1
  <2>1. a \o b = recs \o queue
    BY <1>1
  <2> HIDE DEF a, b
  <2>2. ReplayFrom(d, a \o b) = ReplayFrom(ReplayFrom(d, a), b)
    BY <2>0, ReplayJoin
  <2>3. ReplayFrom(d, recs \o queue) = ReplayFrom(ReplayFrom(d, a), b)
    BY <2>1, <2>2
  <2>. QED  BY <2>3 DEF a, b
<1>3. ReplayFrom(d, Append(recs, DumpRow)) = ReplayFrom(d, recs)
  BY <1>1, ReplayOne, DumpReplayed
<1>. QED  BY <1>2, <1>3 DEF File, d

\* What is kept of the document as text, unless it is out of date, reads as the document.
SnapSame == ~stale /\ phase # "down" => Same(ParseDoc(snap), root)

LEMMA RenderedSame ==
    ASSUME AppendTree, ParseTree, NEW n, IsDoc(n)
    PROVE  IsText(Render(n)) /\ Same(ParseDoc(Render(n)), n)
<1>1. Same(Parse(Render(n)), n) /\ IsText(Render(n)) /\ Render(n).kind = "members"
  BY ReadBack, RenderedText DEF IsDoc
<1>2. Parse(Render(n)).kind = "obj"
  BY <1>1, ParsedTree
<1>. QED  BY <1>1, <1>2 DEF ParseDoc

LEMMA KeptDumpFails ==
    ASSUME DocTyped, DocKept, DumpFails
    PROVE  DocKept'
<1>1. root' = root /\ base' = base /\ recs' = recs /\ astray' = astray /\ Persist /\ Head(queue) = DumpRow
  BY DEF DumpFails, TakeSnapshot, docVars, fileVars
<1>2. File = ReplayFrom(ReplayFrom(ParseDoc(base), recs), queue')
  BY <1>1, DumpTaken
<1>3. RowSeq(recs) /\ RowSeq(queue')
  BY <1>1, Taken
<1>4. ReplayFrom(ParseDoc(base), recs \o queue') = ReplayFrom(ReplayFrom(ParseDoc(base), recs), queue')
  BY <1>3, ReplayJoin
<1>5. File' = File
  BY <1>1, <1>2, <1>4 DEF File
<1>. QED  BY <1>1, <1>5, Taken, KeptStays

\* Records that are in the snapshot are replayed over it: for a key whose records may
\* come twice, and when there are none.
LEMMA KeptDump ==
    ASSUME AppendTree, ParseTree, DocTyped, DocKept, SnapSame, Dump
    PROVE  DocKept'
<1>1. /\ root' = root /\ recs' = <<>> /\ Persist /\ Head(queue) = DumpRow
      /\ astray' = Twice \cup (IF Held \subseteq {DumpRow} THEN {} ELSE astray)
      /\ base' = snap' /\ snap' = SnapshotOf(root, snap, stale)
  BY DEF Dump, TakeSnapshot
<1>2. /\ phase = "serving" /\ phase' = "serving" /\ Pending' = Pending /\ row' = row
      /\ RowSeq(queue') /\ RowSeq(recs) /\ queue' = Tail(queue)
      /\ \A i \in 1..Len(queue') : i + 1 \in 2..Len(queue) /\ queue'[i] = queue[i + 1]
  BY <1>1, Taken, QueueTail
<1>3. base' = IF stale THEN Render(root) ELSE snap
  BY <1>1 DEF SnapshotOf
<1> DEFINE d == ParseDoc(base')
           x == ReplayFrom(ParseDoc(base), recs)
           w == queue'
<1>4. IsDoc(root) /\ IsDoc(x)
  BY <1>2, FileDoc, ReplayDoc DEF DocTyped
<1>5. IsDoc(d) /\ \A k : Agree(d, root, k)
  <2>1. IsText(base') /\ Same(d, root)
    <3>1. CASE stale
      BY <1>3, <3>1, RenderedSame DEF DocTyped
    <3>2. CASE ~stale
      BY <1>2, <1>3, <3>2 DEF SnapSame, DocTyped
    <3>. QED  BY <3>1, <3>2
  <2>. QED  BY <2>1, ParsedDoc, SameUnfold DEF Agree
<1>6. File = ReplayFrom(x, w)
  BY <1>1, DumpTaken
<1>7. File' = ReplayFrom(d, w)
  <2>1. <<>> \o w = w
    BY <1>2, RowParts
  <2>. QED  BY <1>1, <2>1 DEF File
<1>8. \A i \in 1..Len(w) : w[i] \in Held
  BY <1>2 DEF Held
<1>9. \A h \in Pending : row[h] \in Held
  BY DEF Held
<1>10. Len(w) \in Nat /\ DOMAIN w = 1..Len(w) /\ \A i \in 1..Len(w) : IsRow(w[i])
  BY <1>2, RowSeqs
<1> HIDE DEF d, x, w, File, Held
<1>11. ASSUME NEW k, k \notin astray', Held \subseteq {DumpRow} PROVE Kept(k)'
  <2>1. Pending = {}
    BY <1>9, <1>11, PendingRows
  <2>2. Owed(k, DumpRow)'
    BY <1>2, <2>1 DEF Owed
  <2>3. w \in Seq({DumpRow})
    <3>1. \A i \in 1..Len(w) : w[i] \in {DumpRow}
      BY <1>8, <1>11
    <3>2. PICK S : w \in Seq(S)
      BY <1>2 DEF RowSeq, w
    <3>3. w = [i \in 1..Len(w) |-> w[i]]
      BY <3>2
    <3>. QED  BY <1>10, <3>1, <3>3, SeqMapped
  <2>4. Kid(ReplayFrom(d, w), k) = Kid(d, k)
    <3>1. \A r \in {DumpRow} : IsRow(r) /\ ~On(r, k)
      BY RowsMade DEF On
    <3>. QED  BY <1>5, <2>3, <3>1, ReplayOff
  <2>5. Agree(root', ReplayRow(File', DumpRow), k)
    BY <1>1, <1>5, <1>7, <2>4, DumpReplayed, AgreeBack DEF Agree
  <2>. QED  BY <2>2, <2>5 DEF Kept
<1>12. ASSUME NEW k, k \notin astray', ~(Held \subseteq {DumpRow}) PROVE Kept(k)'
  <2>1. k \notin astray /\ k \notin Twice
    BY <1>1, <1>12
  <2>2. PICK r : Owed(k, r) /\ Agree(root, ReplayRow(File, r), k)
    BY <1>2, <2>1 DEF DocKept, Kept
  <2>3. Owed(k, r)'
    BY <1>2, <2>2, OwedSame
  <2> DEFINE S == {q \in Held \cup {DumpRow} : IsRow(q)}
             v == Append(w, r)
  <2>4. \A s \in S : Again(s, k)
    BY <2>1 DEF Again, On, Twice
  <2>5. w \in Seq(S)
    <3>1. \A i \in 1..Len(w) : w[i] \in S
      BY <1>8, <1>10
    <3>2. PICK U : w \in Seq(U)
      BY <1>2 DEF RowSeq, w
    <3>3. w = [i \in 1..Len(w) |-> w[i]]
      BY <3>2
    <3> HIDE DEF S
    <3>. QED  BY <1>10, <3>1, <3>3, SeqMapped
  <2>6. r \in S
    BY <1>9, <2>2, OwedRow DEF Owed
  <2>7. v \in Seq(S) /\ RowSeq(w)
    <3> HIDE DEF S
    <3>. QED  BY <1>2, <2>5, <2>6 DEF w
  <2>8. \A n : ReplayRow(ReplayFrom(n, w), r) = ReplayFrom(n, v)
    BY <2>7, ReplayOne
  <2> HIDE DEF S, v
  <2>9. RowSeq(v) /\ IsRow(r)
    BY <2>4, <2>6, <2>7 DEF RowSeq, Again
  <2>10. Agree(root, ReplayFrom(x, v), k)
    BY <1>6, <2>2, <2>8
  <2>11. IsDoc(ReplayFrom(x, v))
    BY <1>4, <2>9, ReplayDoc
  <2>12. Agree(ReplayFrom(root, v), ReplayFrom(ReplayFrom(x, v), v), k)
    BY <1>4, <2>9, <2>10, <2>11, ReplayAgree
  <2>13. Agree(ReplayFrom(ReplayFrom(x, v), v), ReplayFrom(x, v), k)
    BY <1>4, <2>4, <2>7, AgainAfter
  <2>14. Agree(ReplayFrom(d, v), ReplayFrom(root, v), k)
    BY <1>4, <1>5, <2>9, ReplayAgree
  <2>15. Agree(root, ReplayFrom(d, v), k)
    BY <2>10, <2>12, <2>13, <2>14, AgreeThrough, AgreeBack
  <2>16. Agree(root', ReplayRow(File', r), k)
    BY <1>1, <1>7, <2>8, <2>15
  <2>. QED  BY <2>3, <2>16 DEF Kept
<1>. QED  BY <1>11, <1>12 DEF DocKept

LEMMA KeptNext ==
    ASSUME AppendTree, ParseTree, DocTyped, DocKept, SnapSame, [Next]_vars
    PROVE  DocKept'
<1>0. CASE UNCHANGED vars
  <2>1. UNCHANGED <<root, pc, row, queue, base, recs, phase, astray>>
    BY <1>0 DEF vars, docVars, handlerVars, fileVars
  <2>2. File' = File /\ Pending' = Pending
    BY <2>1 DEF File, Pending
  <2>3. CASE phase = "down"
    BY <2>1, <2>3 DEF DocKept
  <2>. QED  BY <2>1, <2>2, <2>3, KeptStays
<1>1. ASSUME NEW h \in Handlers, Set(h) PROVE DocKept'
  BY <1>1, SetChanges, KeptChanged
<1>2. ASSUME NEW h \in Handlers, Del(h) PROVE DocKept'
  BY <1>2, DelChanges, KeptChanged
<1>3. ASSUME NEW h \in Handlers, CloneRead(h) PROVE DocKept'
  <2>1. /\ phase = "serving" /\ pc[h] = "idle" /\ pc' = [pc EXCEPT ![h] = "copied"]
        /\ \E r : row' = [row EXCEPT ![h] = r]
        /\ UNCHANGED <<root, queue, base, recs, phase, astray>>
    BY <1>3, BeginServes DEF CloneRead, docVars, fileVars
  <2>2. Pending' = Pending /\ \A g \in Pending : row'[g] = row[g]
    BY <2>1 DEF Pending, DocTyped
  <2>3. File' = File
    BY <2>1 DEF File
  <2>. QED  BY <2>1, <2>2, <2>3, KeptStays
<1>4. ASSUME NEW h \in Handlers, CloneWrite(h) PROVE DocKept'
  <2>1. CASE Changed(h, row[h])
    BY <2>1, KeptChanged
  <2>2. CASE ~Changed(h, row[h])
    <3>1. /\ pc[h] = "copied"
          /\ pc' = [pc EXCEPT ![h] = "idle"] /\ row' = [row EXCEPT ![h] = DumpRow]
          /\ UNCHANGED <<root, queue, base, recs, phase, astray>>
      BY <1>4, <2>2, CloneChanges DEF docVars, fileVars
    <3>2. Pending' = Pending /\ \A g \in Pending : row'[g] = row[g]
      BY <3>1 DEF Pending, DocTyped
    <3>3. File' = File /\ phase # "down"
      BY <3>1 DEF File, DocTyped
    <3>. QED  BY <3>1, <3>2, <3>3, KeptStays
  <2>. QED  BY <2>1, <2>2
<1>5. ASSUME NEW h \in Handlers, AppendAOF(h) PROVE DocKept'
  BY <1>5, KeptAppend
<1>6. CASE Vacuum
  <2>1. /\ phase = "serving" /\ queue' = Append(queue, DumpRow)
        /\ UNCHANGED <<root, pc, row, base, recs, phase, astray>>
    BY <1>6 DEF Vacuum, docVars, handlerVars, fileVars
  <2>2. RowSeq(recs) /\ RowSeq(queue) /\ RowSeq(recs \o queue)
    BY RowSeqs DEF DocTyped
  <2>3. recs \o queue' = Append(recs \o queue, DumpRow)
    BY <2>1, <2>2, RowParts, RowsMade
  <2>4. File' = File
    BY <2>1, <2>2, <2>3, ReplayOne, DumpReplayed DEF File
  <2>5. Pending' = Pending
    BY <2>1 DEF Pending
  <2>. QED  BY <2>1, <2>4, <2>5, KeptStays
<1>7. CASE Get
  <2>1. phase = "serving" /\ UNCHANGED <<root, pc, row, queue, base, recs, phase, astray>>
    BY <1>7 DEF Get, TakeSnapshot, handlerVars, fileVars
  <2>2. File' = File /\ Pending' = Pending
    BY <2>1 DEF File, Pending
  <2>. QED  BY <2>1, <2>2, KeptStays
<1>9. CASE Record
  BY <1>9, KeptRecord
<1>10. CASE Dump
  BY <1>10, KeptDump
<1>11. CASE DumpFails
  BY <1>11, KeptDumpFails
<1>12. CASE Crash
  BY <1>12 DEF Crash, DocKept
<1>13. CASE Start
  <2>1. /\ root' = Replay(base, recs) /\ phase' = "starting" /\ phase = "down"
        /\ UNCHANGED <<pc, row, queue, base, recs, astray>>
    BY <1>13 DEF Start, Change, handlerVars, fileVars
  <2>2. queue' = <<>> /\ recs \o queue' = recs
    BY <2>1, RowParts DEF DocTyped
  <2>3. File' = root'
    BY <2>1, <2>2 DEF File, Replay
  <2>4. Pending' = {}
    BY <2>1 DEF Pending, DocTyped
  <2>5. IsDoc(root')
    BY <2>1, ParsedDoc, ReplayDoc DEF Replay, DocTyped
  <2>6. \A k : Agree(root', ReplayRow(File', DumpRow), k)
    BY <2>3, <2>5, DumpReplayed, DocKid
  <2>7. \A k : Owed(k, DumpRow)'
    BY <2>4 DEF Owed
  <2> HIDE DEF File
  <2>. QED  BY <2>6, <2>7 DEF DocKept, Kept
<1>14. CASE Restore
  <2>1. /\ phase = "starting" /\ Empty /\ queue' = Append(queue, DumpRow) /\ astray' = ToSet(root'.keys)
        /\ UNCHANGED <<pc, row, base, recs>>
    BY <1>14 DEF Restore, handlerVars, fileVars
  <2>2. /\ RowSeq(recs) /\ RowSeq(queue) /\ RowSeq(recs \o queue)
        /\ Pending = {} /\ astray = {} /\ IsDoc(root) /\ IsDoc(root')
    BY <2>1, RowSeqs, TypedNext DEF DocTyped, Pending
  <2>3. recs \o queue' = Append(recs \o queue, DumpRow)
    BY <2>1, <2>2, RowParts, RowsMade
  <2>4. File' = File
    BY <2>1, <2>2, <2>3, ReplayOne, DumpReplayed DEF File
  <2>5. Pending' = {}
    BY <2>1, <2>2 DEF Pending
  <2> HIDE DEF File
  <2>6. ASSUME NEW k, k \notin astray' PROVE Kept(k)'
    <3>1. Kid(root, k) = Absent
      <4>1. PICK T : ObjIn(root, T)
        BY <2>2, TreeKinds, Kinds, ArrKids DEF IsDoc
      <4>2. DOMAIN Sub(root) = ToSet(root.keys)
        BY <4>1, ObjKids
      <4>3. ToSet(root.keys) = {}
        BY <2>1 DEF Empty, ToSet
      <4>. QED  BY <4>2, <4>3 DEF Kid
    <3>2. Kid(root', k) = Absent
      <4>1. PICK T : ObjIn(root', T)
        BY <2>2, TreeKinds, Kinds, ArrKids DEF IsDoc
      <4>2. DOMAIN Sub(root') = ToSet(root'.keys)
        BY <4>1, ObjKids
      <4>. QED  BY <2>1, <2>6, <4>2 DEF Kid
    <3>3. PICK r : Owed(k, r) /\ Agree(root, ReplayRow(File, r), k)
      BY <2>1, <2>2 DEF DocKept, Kept
    <3>4. r = DumpRow
      BY <2>2, <3>3, NoneOwed
    <3>5. Agree(root', ReplayRow(File', DumpRow), k)
      BY <2>4, <3>1, <3>2, <3>3, <3>4 DEF Agree
    <3>6. Owed(k, DumpRow)'
      BY <2>5 DEF Owed
    <3>. QED  BY <3>5, <3>6 DEF Kept
  <2>. QED  BY <2>6 DEF DocKept
<1>15. CASE Serve
  <2>1. phase = "starting" /\ phase' = "serving" /\ UNCHANGED <<root, pc, row, queue, base, recs, astray>>
    BY <1>15 DEF Serve, docVars, handlerVars, fileVars
  <2>2. File' = File /\ Pending' = Pending
    BY <2>1 DEF File, Pending
  <2>. QED  BY <2>1, <2>2, KeptStays
<1>. QED
  BY <1>0, <1>1, <1>2, <1>3, <1>4, <1>5, <1>6, <1>7, <1>9, <1>10, <1>11, <1>12, <1>13, <1>14, <1>15
  DEF Next, Handler

--------------------------------------------------------------------------------
(* What is owed, in the order of Coming.                                         *)

Distinct(q) == \A i, j \in 1..Len(q) : q[i] = q[j] => i = j

LEMMA SetInOrder ==
    ASSUME NEW S, IsFiniteSet(S)
    PROVE  LET s == SetToSeq(S) IN s \in Seq(S) /\ Distinct(s) /\ \A x \in S : x \in ToSet(s)
<1> DEFINE D == 1..Cardinality(S)
           s == SetToSeq(S)
<1>1. Cardinality(S) \in Nat /\ Bijection(D, S) # {}
  BY FS_CardinalityType DEF ExistsBijection
<1>2. \E f \in [D -> S] : IsInjective(f)
  BY <1>1 DEF Bijection, Injection
<1>3. s \in [D -> S] /\ IsInjective(s)
  BY <1>2 DEF SetToSeq
<1> HIDE DEF s
<1>4. s \in Injection(D, S)
  BY <1>3 DEF Injection
<1>5. IsFiniteSet(D) /\ Cardinality(D) = Cardinality(S)
  <2>1. ExistsBijection(D, S)
    BY <1>1 DEF ExistsBijection
  <2>2. IsFiniteSet(D)
    BY <1>4, FS_Injection
  <2>. QED  BY <2>1, <2>2, FS_Bijection
<1>6. s \in Surjection(D, S)
  BY <1>4, <1>5, FS_Injection
<1>7. s \in Seq(S) /\ Len(s) = Cardinality(S) /\ DOMAIN s = D
  BY <1>1, <1>3
<1>8. \A x \in S : \E i \in D : s[i] = x
  BY <1>6 DEF Surjection
<1>9. Distinct(s) /\ \A x \in S : x \in ToSet(s)
  BY <1>1, <1>3, <1>7, <1>8 DEF IsInjective, ToSet, Distinct
<1>. QED  BY <1>7, <1>9 DEF s

\* Of records of which one is on a key, that one is done to it.
LEMMA ReplayOneOn ==
    ASSUME ParseTree, NEW n, IsDoc(n), NEW k, NEW S, NEW u, IsRow(u),
           \A r \in S : IsRow(r) /\ (On(r, k) => r = u), NEW rows \in Seq(S), Distinct(rows), u \in ToSet(rows)
    PROVE  Kid(ReplayFrom(n, rows), k) = Kid(ReplayRow(n, u), k)
<1> DEFINE T == {q \in Seq(S) :
                    Distinct(q) => Kid(ReplayFrom(n, q), k) =
                                      IF u \in ToSet(q) THEN Do(AtKey(u, k), Kid(n, k)) ELSE Kid(n, k)}
<1>1. <<>> \in T
  BY ReplayNone DEF ToSet
<1>2. ASSUME NEW q \in Seq(S), NEW r \in S, q \in T PROVE Append(q, r) \in T
  <2> DEFINE p == Append(q, r)
  <2>0. RowSeq(q) /\ IsRow(r)
    BY RowSeqOf
  <2>1. ReplayFrom(n, p) = ReplayRow(ReplayFrom(n, q), r) /\ IsDoc(ReplayFrom(n, q))
    BY <2>0, ReplayOne, ReplayDoc
  <2>2. Kid(ReplayFrom(n, p), k) = Do(AtKey(r, k), Kid(ReplayFrom(n, q), k))
    BY <2>0, <2>1, ReplayRowKids
  <2>3. /\ p \in Seq(S) /\ Len(p) = Len(q) + 1 /\ p[Len(q) + 1] = r /\ Len(q) \in Nat
        /\ DOMAIN p = 1..(Len(q) + 1) /\ DOMAIN q = 1..Len(q)
        /\ \A i \in 1..Len(q) : p[i] = q[i] /\ i # Len(q) + 1
    OBVIOUS
  <2> HIDE DEF p
  <2>4. SUFFICES ASSUME Distinct(p)
                 PROVE  Kid(ReplayFrom(n, p), k) =
                            IF u \in ToSet(p) THEN Do(AtKey(u, k), Kid(n, k)) ELSE Kid(n, k)
    BY <2>3 DEF p
  <2>5. Distinct(q) /\ r \notin ToSet(q)
    BY <2>3, <2>4 DEF Distinct, ToSet
  <2>6. u \in ToSet(p) <=> u = r \/ u \in ToSet(q)
    BY <2>3, SMTT(30) DEF ToSet
  <2>7. CASE r = u
    BY <1>2, <2>2, <2>5, <2>6, <2>7
  <2>8. CASE r # u
    <3>1. AtKey(r, k) = Nothing
      BY <2>8 DEF AtKey
    <3>. QED  BY <1>2, <2>2, <2>5, <2>6, <2>8, <3>1, NothingRep
  <2>. QED  BY <2>7, <2>8
<1>3. Seq(S) \subseteq T
  <2> HIDE DEF T
  <2>. QED  BY <1>1, <1>2, SeqInduction
<1>4. Kid(ReplayRow(n, u), k) = Do(AtKey(u, k), Kid(n, k))
  BY ReplayRowKids
<1>. QED  BY <1>3, <1>4

LEMMA PendingInOrder ==
    ASSUME DocTyped, NEW S, S = {row[h] : h \in Pending}, NEW s, s = SetToSeq(S)
    PROVE  /\ s \in Seq(S) /\ Distinct(s) /\ RowSeq(s) /\ \A r \in S : r \in ToSet(s)
<1>1. IsFiniteSet(Pending)
  <2>1. Pending \in SUBSET Handlers
    BY DEF Pending
  <2>. QED  BY <2>1, HandlersAssumption, FS_Subset
<1>2. [h \in Pending |-> row[h]] \in Surjection(Pending, S)
  BY DEF Surjection
<1>3. IsFiniteSet(S)
  BY <1>1, <1>2, FS_Surjection
<1>4. s \in Seq(S) /\ Distinct(s) /\ \A r \in S : r \in ToSet(s)
  BY <1>3, SetInOrder
<1>5. \A r \in S : IsRow(r)
  BY PendingRows
<1>. QED  BY <1>4, <1>5 DEF RowSeq

LEMMA RebuiltIs ==
    ASSUME DocTyped
    PROVE  Rebuilt = ReplayFrom(File, SetToSeq({row[h] : h \in Pending}))
<1> DEFINE s == SetToSeq({row[h] : h \in Pending})
<1>1. RowSeq(s) /\ RowSeq(recs) /\ RowSeq(queue) /\ RowSeq(recs \o queue)
  BY PendingInOrder, RowSeqs DEF DocTyped
<1> HIDE DEF s
<1>2. recs \o (queue \o s) = (recs \o queue) \o s
  <2>1. PICK A : recs \in Seq(A)
    BY <1>1 DEF RowSeq
  <2>2. PICK B : queue \in Seq(B)
    BY <1>1 DEF RowSeq
  <2>3. PICK C : s \in Seq(C)
    BY <1>1 DEF RowSeq
  <2> DEFINE U == A \cup B \cup C
  <2>4. recs \in Seq(U) /\ queue \in Seq(U) /\ s \in Seq(U)
    BY <2>1, <2>2, <2>3
  <2> HIDE DEF U
  <2>. QED  BY <2>4, ConcatAssociative, SMTT(30)
<1>3. ReplayFrom(ParseDoc(base), (recs \o queue) \o s) = ReplayFrom(File, s)
  <2> DEFINE a == recs \o queue
             d == ParseDoc(base)
  <2>1. RowSeq(a) /\ RowSeq(s)
    BY <1>1
  <2> HIDE DEF a, d
  <2>2. ReplayFrom(d, a \o s) = ReplayFrom(ReplayFrom(d, a), s)
    BY <2>1, ReplayJoin
  <2>. QED  BY <2>2 DEF a, d, File
<1>. QED  BY <1>2, <1>3 DEF Rebuilt, Coming, Replay, s

LEMMA KeptRebuilds ==
    ASSUME ParseTree, DocTyped, DocKept
    PROVE  ReplayRebuilds
<1> SUFFICES ASSUME phase = "serving", NEW path \in Paths, Head(path) \notin astray
             PROVE  Seen(Rebuilt, path) = Seen(root, path)
  BY DEF ReplayRebuilds
<1> DEFINE k == Head(path)
           S == {row[h] : h \in Pending}
           s == SetToSeq(S)
           n == Rebuilt
<1>1. s \in Seq(S) /\ Distinct(s) /\ RowSeq(s) /\ \A r \in S : r \in ToSet(s)
  BY PendingInOrder
<1>2. n = ReplayFrom(File, s)
  BY RebuiltIs
<1>3. IsDoc(File) /\ IsDoc(root)
  BY FileDoc DEF DocTyped
<1>4. \A h \in Pending : IsRow(row[h]) /\ row[h] # DumpRow
  BY PendingRows
<1> HIDE DEF s, n
<1>5. IsDoc(n)
  BY <1>1, <1>2, <1>3, ReplayDoc
<1>6. Same(Kid(root, k), Kid(n, k))
  <2>1. PICK r : Owed(k, r) /\ Agree(root, ReplayRow(File, r), k)
    BY DEF DocKept, Kept
  <2>2. CASE r = DumpRow /\ \A h \in Pending : Top(row[h]) # k
    <3>1. \A q \in S : IsRow(q) /\ ~On(q, k)
      BY <1>4, <2>2 DEF On
    <3> HIDE DEF k, S
    <3>2. Kid(n, k) = Kid(File, k)
      BY <1>1, <1>2, <1>3, <3>1, ReplayOff
    <3>. QED  BY <2>1, <2>2, <3>2, DumpReplayed DEF Agree
  <2>3. CASE \E h \in Pending : /\ r = row[h] /\ Top(r) = k
                                /\ \A g \in Pending : Top(row[g]) = k => g = h
    <3>1. \A q \in S : IsRow(q) /\ (On(q, k) => q = r)
      BY <1>4, <2>3 DEF On
    <3>2. r \in S /\ IsRow(r)
      BY <1>4, <2>3
    <3> HIDE DEF k, S
    <3>3. Kid(n, k) = Kid(ReplayRow(File, r), k)
      BY <1>1, <1>2, <1>3, <3>1, <3>2, ReplayOneOn
    <3>. QED  BY <2>1, <3>3 DEF Agree
  <2>. QED  BY <2>1, <2>2, <2>3 DEF Owed
<1>7. path \in Strings /\ path # <<>> /\ Tail(path) \in Strings
  BY InputsAssumption, PathParts DEF Path, Strings
<1>8. ASSUME NEW m, IsDoc(m) PROVE Seen(m, path) = Seen(Kid(m, k), Tail(path))
  <2>1. Child(m, k) = Kid(m, k)
    <3>1. Item(m) /\ ~Bad(m, k) /\ Pos(m, k) = k
      BY <1>8 DEF IsDoc, Item, Bad, Pos
    <3> HIDE DEF k
    <3>. QED  BY <3>1, ChildIsKid
  <2>2. Lookup(m, path) = Lookup(Kid(m, k), Tail(path))
    BY <1>7, <2>1, LookupShift
  <2>. QED  BY <2>2 DEF Seen
<1>9. Item(Kid(root, k)) /\ Item(Kid(n, k))
  BY <1>3, <1>5, DocKid
<1>10. Seen(Kid(root, k), Tail(path)) = Seen(Kid(n, k), Tail(path))
  BY <1>6, <1>7, <1>9, SameSeen
<1>. QED  BY <1>3, <1>5, <1>8, <1>10 DEF n

--------------------------------------------------------------------------------
(* The rendering of the document.                                                *)

LEMMA SnapSameNext ==
    ASSUME AppendTree, ParseTree, DocTyped, SnapSame, [Next]_vars
    PROVE  SnapSame'
<1>1. ASSUME UNCHANGED <<docVars, phase>> PROVE SnapSame'
  BY <1>1 DEF SnapSame, docVars
<1>2. ASSUME stale' = TRUE PROVE SnapSame'
  BY <1>2 DEF SnapSame
<1>3. ASSUME TakeSnapshot, phase # "down" PROVE SnapSame'
  <2>1. root' = root /\ snap' = IF stale THEN Render(root) ELSE snap
    BY <1>3 DEF TakeSnapshot, SnapshotOf
  <2>2. IsDoc(root)
    BY DEF DocTyped
  <2>. QED  BY <1>3, <2>1, <2>2, RenderedSame DEF SnapSame, DocTyped
<1>4. CASE UNCHANGED vars
  BY <1>1, <1>4 DEF vars
<1>5. ASSUME NEW h \in Handlers, Handler(h) PROVE SnapSame'
  <2>1. CASE Set(h)
    BY <1>2, <2>1 DEF Set, Change
  <2>2. CASE Del(h)
    BY <1>2, <2>2 DEF Del, Change
  <2>3. CASE CloneRead(h)
    BY <1>1, <2>3 DEF CloneRead
  <2>4. CASE CloneWrite(h)
    BY <1>1, <1>2, <2>4 DEF CloneWrite, Change
  <2>5. CASE AppendAOF(h)
    BY <1>1, <2>5 DEF AppendAOF
  <2>. QED  BY <1>5, <2>1, <2>2, <2>3, <2>4, <2>5 DEF Handler
<1>6. CASE Vacuum \/ Record
  BY <1>1, <1>6 DEF Vacuum, Record, Persist
<1>7. CASE Get \/ Dump
  BY <1>3, <1>7 DEF Get, Dump, Persist
<1>8. CASE DumpFails
  BY <1>1, <1>3, <1>8 DEF DumpFails, Persist
<1>9. CASE Crash
  BY <1>9 DEF Crash, SnapSame
<1>10. CASE Start
  BY <1>2, <1>10 DEF Start, Change
<1>11. CASE Restore
  <2>1. PICK raw \in PeerDocs : root' = ParseDoc(raw) /\ snap' = raw
    BY <1>11 DEF Restore, Replace
  <2>2. Item(ParseDoc(raw))
    BY InputsAssumption, TextsAreTexts, ParsedDoc DEF IsDoc, Item
  <2>. QED  BY <2>1, <2>2, SameSelf DEF SnapSame
<1>12. CASE Serve
  BY <1>12 DEF Serve, SnapSame, docVars
<1>. QED  BY <1>4, <1>5, <1>6, <1>7, <1>8, <1>9, <1>10, <1>11, <1>12 DEF Next

LEMMA SameIsFresh ==
    ASSUME ParseTree, DocTyped, SnapSame
    PROVE  SnapshotFresh
<1> SUFFICES ASSUME ~stale, phase # "down", NEW path \in Paths
             PROVE  Seen(ParseDoc(snap), path) = Seen(root, path)
  BY DEF SnapshotFresh
<1>1. Same(ParseDoc(snap), root)
  BY DEF SnapSame
<1>2. Item(ParseDoc(snap)) /\ Item(root)
  BY ParsedDoc DEF DocTyped, IsDoc, Item
<1>3. path \in Strings
  BY InputsAssumption DEF Path, Strings
<1>. QED  BY <1>1, <1>2, <1>3, SameSeen

\* For a Render and a Parse that are each their own step (Tree), a reader of the whole
\* document is shown at every path what a reader of the path is: every writer of the tree
\* marks its text out of date, a new text reads back as the tree (snapshot), and a text
\* that comes from a peer is what the tree was made of, however it is spelt (Replace).
THEOREM SnapshotIsFresh ==
    ASSUME AppendTree, ParseTree
    PROVE  Spec => []SnapshotFresh
<1>1. Init => DocTyped /\ SnapSame
  BY TypedInit DEF Init, SnapSame
<1>2. DocTyped /\ SnapSame /\ [Next]_vars => DocTyped' /\ SnapSame'
  BY TypedNext, SnapSameNext
<1>3. DocTyped /\ SnapSame => SnapshotFresh
  BY SameIsFresh
<1>. QED  BY <1>1, <1>2, <1>3, PTL DEF Spec

\* For a Render and a Parse that are each their own step, the document is an object
\* whose index names the places of its keys, the texts that are kept of it are JSON,
\* and the handlers and the records of the file are well formed.
THEOREM DocumentIsTyped ==
    ASSUME AppendTree, ParseTree
    PROVE  Spec => []DocTypeOK
<1>1. Init => DocTyped
  BY TypedInit
<1>2. DocTyped /\ [Next]_vars => DocTyped'
  BY TypedNext
<1>3. DocTyped => DocTypeOK
  BY TypedIsOK
<1>. QED  BY <1>1, <1>2, <1>3, PTL DEF Spec

\* For the same Render and Parse, the file with what is queued for it rebuilds what
\* readers see, at every path: replayAOF over doEraseAndDump, appendAOF, clones and
\* crashes, for keys that are not astray.
THEOREM ReplayRebuildsDocument ==
    ASSUME AppendTree, ParseTree
    PROVE  Spec => []ReplayRebuilds
<1>1. Init => DocTyped /\ DocKept /\ SnapSame
  BY TypedInit, KeptInit DEF Init, SnapSame
<1>2. DocTyped /\ DocKept /\ SnapSame /\ [Next]_vars => DocTyped' /\ DocKept' /\ SnapSame'
  BY TypedNext, KeptNext, SnapSameNext
<1>3. DocTyped /\ DocKept => ReplayRebuilds
  BY KeptRebuilds
<1>. QED  BY <1>1, <1>2, <1>3, PTL DEF Spec
================================================================================

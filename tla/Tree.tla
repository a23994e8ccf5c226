---------------------------------- MODULE Tree ----------------------------------
(* The document as internal/db/tree.go holds it: ordered objects with an index  *)
(* from key to position, arrays, and scalars kept as their JSON text.            *)
(*                                                                               *)
(* A path is a sequence of segments; splitting it at dots and the two copies of  *)
(* each walk (for paths with and without escapes) are one walk here.  The JSON   *)
(* text of a key is not kept apart from the key.                                 *)
EXTENDS Integers, Sequences, FiniteSets, SequencesExt

CONSTANT
    Canonical       \* a function from the scalar texts a client or a file may hold
                    \* to the text that is stored (canonicalNumberText)

\* strconv.Atoi: the segments that are numbers.  A document of a run has no longer
\* array than there are names.
Names == <<"0", "1", "2", "3", "4", "5", "6", "7", "8", "9", "10", "11">>
IsIndex(s) == s \in ToSet(Names)
Index(s)   == CHOOSE i \in DOMAIN Names : Names[i] = s   \* counted from 1

--------------------------------------------------------------------------------
(* Nodes.                                                                        *)

Leaf(text) == [kind |-> "leaf", text |-> text]
Null       == Leaf("null")
Nil        == [kind |-> "nil"]      \* an element that padding has put in an array
Absent     == [kind |-> "absent"]
Refused    == [kind |-> "refused"]  \* a pathError
Arr(elems) == [kind |-> "arr", elems |-> elems]
NewObj     == [kind |-> "obj", keys |-> <<>>, vals |-> <<>>, idx |-> <<>>]

IsContainer(n) == n.kind \in {"obj", "arr"}

\* treeObj.set and put: a key that is there keeps its place, a new one goes last.
Put(o, k, v) ==
    IF k \in DOMAIN o.idx THEN [o EXCEPT !.vals[o.idx[k]] = v]
    ELSE [o EXCEPT !.keys = Append(@, k), !.vals = Append(@, v),
                   !.idx = [x \in DOMAIN @ \cup {k} |-> IF x = k THEN Len(o.keys) + 1 ELSE @[x]]]

\* treeObj.del: the keys after it move up, in the index too.
DelKeyStaleIndex(o, k) ==  \* mutant: the index of the keys after it is not renumbered
    IF k \notin DOMAIN o.idx THEN o
    ELSE [o EXCEPT !.keys = RemoveAt(@, o.idx[k]), !.vals = RemoveAt(@, o.idx[k]),
                   !.idx = [x \in DOMAIN @ \ {k} |-> @[x]]]
DelKey(o, k) ==
    IF k \notin DOMAIN o.idx THEN o
    ELSE [o EXCEPT !.keys = RemoveAt(@, o.idx[k]), !.vals = RemoveAt(@, o.idx[k]),
                   !.idx = [x \in DOMAIN @ \ {k} |-> IF @[x] > @[k] THEN @[x] - 1 ELSE @[x]]]

Child(n, s) ==
    CASE n.kind = "obj" /\ s \in DOMAIN n.idx -> n.vals[n.idx[s]]
      [] n.kind = "arr" /\ IsIndex(s) /\ Index(s) <= Len(n.elems) -> n.elems[Index(s)]
      [] OTHER -> Absent

\* treeLookup and treeLookupPath.
Lookup(n, path) ==
    LET at[i \in 0..Len(path)] == IF i = 0 THEN n ELSE Child(at[i - 1], path[i])
    IN at[Len(path)]

PaddedShort(elems, i) == elems \o [j \in 1..(i - 1 - Len(elems)) |-> Nil]  \* mutant: one too few
\* An array long enough to hold an element at i.
Padded(elems, i) == elems \o [j \in 1..(i - Len(elems)) |-> Nil]

\* A step of treeSet and treeSetPlain: sub takes the place that a segment names in a
\* container.  Index -1 appends, and what is below may have been refused.
Place(n, s, sub) ==
    IF sub = Refused THEN Refused
    ELSE CASE n.kind = "obj" -> Put(n, s, sub)
           [] n.kind = "arr" /\ s = "-1" -> Arr(Append(n.elems, sub))
           [] n.kind = "arr" /\ IsIndex(s) ->
                  Arr([Padded(n.elems, Index(s)) EXCEPT ![Index(s)] = sub])
           [] OTHER -> Refused

\* The container that the i-th segment of a path is a place in: what is not a container
\* on the way gives way to a new object.
Onto(n, path, i) ==
    LET c == Lookup(n, SubSeq(path, 1, i - 1)) IN IF IsContainer(c) THEN c ELSE NewObj

\* treeSet and treeSetPlain, from the end of the path up.  The code changes nodes in
\* place, and only once the walk below has succeeded, so a refused path leaves the
\* tree as it was.
SetPath(n, path, v) ==
    LET At(j) == Len(path) - j + 1
        up[j \in 0..Len(path)] ==
            IF j = 0 THEN v ELSE Place(Onto(n, path, At(j)), path[At(j)], up[j - 1])
    IN up[Len(path)]

\* The last step of treeDel: the elements after the one deleted move down.
RemoveChild(n, s) == IF n.kind = "obj" THEN DelKey(n, s) ELSE Arr(RemoveAt(n.elems, Index(s)))

\* treeDel and treeDelPlain, which put every node above back in its place.
DelPath(n, path) ==
    IF Lookup(n, path) = Absent THEN n
    ELSE SetPath(n, Front(path), RemoveChild(Lookup(n, Front(path)), Last(path)))

--------------------------------------------------------------------------------
(* JSON text: an object is the sequence of its members, an array of its items.  The *)
(* two conversions recurse; here is one step of each, and the constants Render and  *)
(* Parse of Document are such that each is its own step.                            *)

JSONObj(members) == [kind |-> "members", members |-> members]
JSONArr(items)   == [kind |-> "items", items |-> items]

\* appendTree.
RenderStep(Below(_), n) ==
    CASE n.kind = "leaf" -> n
      [] n.kind = "nil"  -> Null
      [] n.kind = "arr"  -> JSONArr([i \in DOMAIN n.elems |-> Below(n.elems[i])])
      [] n.kind = "obj"  -> JSONObj([i \in DOMAIN n.keys |-> <<n.keys[i], Below(n.vals[i])>>])

\* The object of a sequence of <<key, node>>; of a key that comes twice, the last.
Filled(members) ==
    LET o[i \in 0..Len(members)] ==
            IF i = 0 THEN NewObj ELSE Put(o[i - 1], members[i][1], members[i][2])
    IN o[Len(members)]

\* parseTree: numbers are stored in the form a live write would have stored.
ParseStep(Below(_), j) ==
    CASE j.kind = "leaf"    -> Leaf(Canonical[j.text])
      [] j.kind = "items"   -> Arr([i \in DOMAIN j.items |-> Below(j.items[i])])
      [] j.kind = "members" ->
             Filled([i \in DOMAIN j.members |-> <<j.members[i][1], Below(j.members[i][2])>>])

--------------------------------------------------------------------------------
\* What a reader of a path is told of the node there: its text, or its kind.
Seen(n, path) ==
    LET c == Lookup(n, path)
    IN CASE c.kind = "nil" -> Null
         [] IsContainer(c) -> [kind |-> c.kind]
         [] OTHER -> c

\* The index of an object is the inverse of its keys.
InStep(n) ==
    n.kind = "obj" =>
        /\ Len(n.keys) = Len(n.vals) /\ DOMAIN n.idx = ToSet(n.keys)
        /\ \A i \in DOMAIN n.keys : n.idx[n.keys[i]] = i
================================================================================

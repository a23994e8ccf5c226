----------------------------- MODULE TreeReference -----------------------------
(* The tree for TLC: the two conversions from their steps, and a reference for the   *)
(* operators of Tree that knows a tree as the flat set of its places.                *)
EXTENDS Document

RECURSIVE RenderTree(_)
RenderTree(n) == RenderStep(RenderTree, n)

RECURSIVE ParseText(_)
ParseText(j) == ParseStep(ParseText, j)

--------------------------------------------------------------------------------
(* What the operators of Tree should do, said of the flat set of a tree's places:   *)
(* the path of every node and what a reader sees there.                           *)

Mark(n) == IF n.kind \in {"leaf", "nil"} THEN Render(n).text ELSE n.kind

Segments(n) == CASE n.kind = "obj" -> ToSet(n.keys)
                 [] n.kind = "arr" -> {Names[i] : i \in DOMAIN n.elems}
                 [] OTHER -> {}

RECURSIVE Places(_)
Places(n) ==
    {<<<<>>, Mark(n)>>} \cup
        UNION {{<<<<s>> \o e[1], e[2]>> : e \in Places(Child(n, s))} : s \in Segments(n)}

PathsOf(places)   == {e[1] : e \in places}
At(places, path)  == IF path \notin PathsOf(places) THEN "nothing"
                     ELSE (CHOOSE e \in places : e[1] = path)[2]
Size(places, path) == Cardinality({q \in PathsOf(places) : Len(q) = Len(path) + 1 /\ IsPrefix(path, q)})

Parents(path) == {SubSeq(path, 1, i) : i \in 0..(Len(path) - 1)}
Next1(q, path) == path[Len(q) + 1]

\* The path with each append replaced by the index it gets.
Resolved(places, path) ==
    FoldLeft(LAMBDA q, s : Append(q, IF s = "-1" /\ At(places, q) = "arr"
                                     THEN Names[Size(places, q) + 1] ELSE s),
             <<>>, path)

RefRefused(places, path) ==
    LET p == Resolved(places, path)
    IN \E q \in Parents(p) : At(places, q) = "arr" /\ ~IsIndex(Next1(q, p))

\* What is at the path or below goes, scalars above it become objects, arrays above
\* it are padded, and the value's places come in.
RefSet(places, path, v) ==
    LET p == Resolved(places, path)
        scalars == {q \in Parents(p) : At(places, q) \notin {"obj", "arr"}}
    IN {e \in places : ~IsPrefix(p, e[1]) /\ e[1] \notin scalars}
       \cup {<<q, "obj">> : q \in scalars}
       \cup {<<p \o e[1], e[2]>> : e \in Places(v)}
       \cup UNION {{<<Append(q, Names[i]), "null">> :
                       i \in (Size(places, q) + 1)..(Index(Next1(q, p)) - 1)} :
                   q \in {r \in Parents(p) : At(places, r) = "arr"}}

\* What is at the path or below goes; if it was an element, those after it move down.
RefDel(places, path) ==
    LET up == Front(path)
        Moves(e) == /\ At(places, up) = "arr" /\ Len(e[1]) >= Len(path)
                    /\ IsPrefix(up, e[1]) /\ Index(e[1][Len(path)]) > Index(Last(path))
    IN IF path \notin PathsOf(places) THEN places
       ELSE {IF Moves(e) THEN <<[e[1] EXCEPT ![Len(path)] = Names[Index(@) - 1]], e[2]>> ELSE e :
                e \in {f \in places : ~IsPrefix(path, f[1])}}

--------------------------------------------------------------------------------
\* tree.go against a flat set of places: what a set, an append, a set that pads, a
\* refused one and a delete leave; that a new key goes last and the others keep their
\* order; and that a document read back from its own text is the same.
KeysOf(n) == ToSet(n.keys)
Quiet == phase = "serving" /\ queue = <<>> /\ pc = [h \in Handlers |-> "idle"]
SetMeetsReference(path, v) ==
    LET n == SetPath(root, path, v)
    IN IF RefRefused(Places(root), path) THEN n = Refused
       ELSE /\ n # Refused /\ Places(n) = RefSet(Places(root), path, v)
            /\ n.keys = root.keys \o (IF Head(path) \in KeysOf(root) THEN <<>> ELSE <<Head(path)>>)
DelMeetsReference(path) ==
    LET n == DelPath(root, path)
    IN /\ Places(n) = RefDel(Places(root), path)
       /\ n.keys = SelectSeq(root.keys, LAMBDA k : k \in KeysOf(n))
TreeMeetsReference ==
    Quiet => /\ \A s \in Sets : SetMeetsReference(s[1], Parse(s[2]))
             /\ \A path \in Dels : DelMeetsReference(path)
             /\ Render(Parse(Render(root))) = Render(root)
             /\ Places(Parse(Render(root))) = Places(root)
================================================================================

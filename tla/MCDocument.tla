------------------------------ MODULE MCDocument ------------------------------
(* Instances of Document for TLC.                                               *)
EXTENDS TreeReference, TLC

Symmetry == Permutations(Handlers)

\* 1e1 is a number that is stored as 10.
Numbers == [t \in {"null", "1", "2", "1e1", "10"} |-> IF t = "1e1" THEN "10" ELSE t]

One == Leaf("1")
Obj(k, v) == JSONObj(<<<<k, v>>>>)

AllSets ==
    {<<<<"a">>, JSONArr(<<One, Leaf("2")>>)>>,  \* an array
     <<<<"a", "-1">>, Leaf("1e1")>>,            \* an append
     <<<<"a", "-1", "x">>, One>>,
     <<<<"a", "3", "x">>, One>>,                \* pads an array, replaces a scalar
     <<<<"a", "x">>, Obj("y", One)>>,           \* refused by an array
     <<<<"a", "1", "y">>, Null>>,
     <<<<"b", "x">>, One>>}
AllDels   == {<<"b">>, <<"a", "0">>, <<"a", "1", "y">>}
AllClones == {<<<<"a">>, <<"b">>>>, <<<<"b", "x">>, <<"a", "x">>>>}

EmptyDoc == JSONObj(<<>>)
OldDoc   == JSONObj(<<<<"b", Obj("x", Leaf("1e1"))>>, <<"a", One>>>>)
Nested   == Obj("a", JSONArr(<<One, Obj("y", Leaf("2")), Leaf("2")>>))
AllFiles == {EmptyDoc, OldDoc, Nested}
AllPeerDocs == {Obj("a", JSONArr(<<One, Leaf("1e1")>>))}  \* from an older peer

RECURSIVE ValuesIn(_)
ValuesIn(j) ==
    {j} \cup CASE j.kind = "leaf"    -> {}
               [] j.kind = "items"   -> UNION {ValuesIn(v) : v \in ToSet(j.items)}
               [] j.kind = "members" -> UNION {ValuesIn(m[2]) : m \in ToSet(j.members)}
AllTexts == UNION {ValuesIn(j) : j \in {s[2] : s \in AllSets} \cup AllFiles \cup AllPeerDocs}

\* Every place that two writes can make, and some below or beside.
AllPaths ==
    {<<key>> \o below : key \in {"a", "b"}, below \in
        {<<>>} \cup {<<s>> : s \in {"-1", "0", "1", "2", "3", "4", "x"}}
        \cup ({"1", "2", "3"} \X {"x", "y"}) \cup ({"x"} \X {"0", "1", "x", "y"})
        \cup {<<"x", "1", "y">>, <<"x", "3", "x">>, <<"x", "x", "y">>}}
================================================================================

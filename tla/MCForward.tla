------------------------------- MODULE MCForward -------------------------------
(* Instances of Forward for TLC.                                                 *)
EXTENDS Forward

CONSTANTS n1, n2, w1, w2

\* Both clients talk to n2, which is not the first leader, so that its pool is shared.
SameNode == [w \in {w1, w2} |-> n2]

NewOnly   == {{}}
OldLeader == {{}, {n1}}
================================================================================

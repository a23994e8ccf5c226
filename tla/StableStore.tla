------------------------------ MODULE StableStore ------------------------------
(* What Raft asks of the store of its log, term and vote: a set of registers    *)
(* (log indexes and stable keys).  A put that returned without an error is what *)
(* every later start reads; one that failed, or was cut off by a crash, may or  *)
(* may not have happened, register by register.                                 *)
CONSTANTS Item, Value, None

VARIABLES
    up,     \* whether the process runs
    value,  \* what it reads
    may     \* for each register, what the next start may read

vars == <<up, value, may>>

Init ==
    /\ up = TRUE
    /\ value = [x \in Item |-> None]
    /\ may = [x \in Item |-> {None}]

\* A put (or a delete, a put of None) to the registers S is under way.
Put ==
    /\ up /\ UNCHANGED up
    /\ value' \in [Item -> Value]
    /\ may' = [x \in Item |-> IF value'[x] = value[x] THEN may[x] ELSE may[x] \cup {value'[x]}]

\* Puts to the registers S are durable.
Settle ==
    /\ up /\ UNCHANGED <<up, value>>
    /\ \E S \in SUBSET Item :
           may' = [x \in Item |-> IF x \in S THEN {value[x]} ELSE may[x]]

\* A process that stops in good order settles what it put first; a crash nothing.
Crash ==
    /\ up /\ up' = FALSE
    /\ value' = [x \in Item |-> None]
    /\ \E S \in SUBSET Item :
           may' = [x \in Item |-> IF x \in S THEN {value[x]} ELSE may[x]]

Recover ==
    /\ ~up /\ up' = TRUE
    /\ \A x \in Item : value'[x] \in may[x]
    /\ \A x \in Item : may'[x] \subseteq may[x] /\ value'[x] \in may'[x]

Next == Put \/ Settle \/ Crash \/ Recover

Spec == Init /\ [][Next]_vars
================================================================================

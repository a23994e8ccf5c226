--------------------------------- MODULE MCNode ---------------------------------
(* Two parts of a node of a cluster for TLC: the state machines that the nodes run, *)
(* and the end of one process.  They share no variable, and a behaviour takes the   *)
(* steps of one of them.                                                            *)
EXTENDS StateMachine, Server, TLC

VARIABLE part

Symmetry == Permutations(Nodes) \cup Permutations(MuxConns)

NodeInit ==
    /\ Init /\ ServerInit
    /\ part \in {"state machine", "end"}
    /\ part = "state machine" => kind = [c \in MuxConns |-> "silent"]

NodeNext ==
    /\ UNCHANGED part
    /\ \/ part = "state machine" /\ Next /\ UNCHANGED serverVars
       \/ part = "end" /\ ServerNext /\ UNCHANGED vars

NodeSpec == NodeInit /\ [][NodeNext]_<<part, vars, serverVars>>
================================================================================

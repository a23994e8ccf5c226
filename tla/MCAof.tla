--------------------------------- MODULE MCAof ---------------------------------
(* Instances of Aof for TLC.                                                    *)
EXTENDS Aof, TLC

\* Handlers are interchangeable: no action or property tells one from another.
Symmetry == Permutations(Writers)

NoFaults        == {}
AnyFault        == FaultKinds
ToleratedFaults == FaultKinds \ {"presync", "reopen"}
RetriedFaults   == {"write", "snapshot", "rename"}
ReopenFault     == {"reopen"}
FsyncLostInVacuum == {"presync", "rename"}


Power      == {"power"}
Kills      == {"kill"}
AllCrashes == {"kill", "power"}
NoCrashes  == {}
================================================================================

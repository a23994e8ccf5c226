------------------------------ MODULE MCPeerQueue ------------------------------
(* Instances of PeerQueue for TLC.                                              *)
EXTENDS PeerQueue

NoFaults   == {}
WALErrors  == {"write", "fsync"}
AnyFault   == FaultKinds
FsyncFails == {"fsync"}
WriteFails == {"write"}
CkptFail   == {"checkpoint"}

NoCrashes  == {}
Kills      == {"kill"}
AllCrashes == {"kill", "power"}
Tears      == {"tear"}
================================================================================

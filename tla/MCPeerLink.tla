------------------------------- MODULE MCPeerLink -------------------------------
(* Instances of PeerLink for TLC.                                               *)
EXTENDS PeerLink

SetsAndDels == {"set", "del"}
SetsAndClones == {"set", "clone"}
OnlySets == {"set"}
================================================================================

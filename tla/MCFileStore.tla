------------------------------ MODULE MCFileStore ------------------------------
(* Instances of FileStore for TLC.                                              *)
EXTENDS FileStore

NoFaults     == {}
ErrorsOnly   == {"write", "fsync", "checkpoint", "rename", "dirsync"}
ShortWrite   == {"shortwrite"}
FsyncLost    == {"fsynclost"}
WALErrors    == {"write", "fsync"}
CheckpointFails == {"checkpoint"}

Kills       == {"kill"}
AllCrashes  == {"kill", "power"}
PowerLosses == {"power"}
NoCrashes   == {}
================================================================================

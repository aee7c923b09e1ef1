--------------------------- MODULE MCRemoteSession ---------------------------
(* Instances of RemoteSession for TLC: the threads are 1..NThreads.         *)
EXTENDS RemoteSession

CONSTANT NThreads
MCThreads == 1..NThreads
=============================================================================

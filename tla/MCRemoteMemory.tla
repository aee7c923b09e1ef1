--------------------------- MODULE MCRemoteMemory ---------------------------
(* Model checking of RemoteMemory; the constants are given in the .cfg     *)
(* files.                                                                  *)
EXTENDS RemoteMemory
=============================================================================

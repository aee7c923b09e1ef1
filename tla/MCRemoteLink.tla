---------------------------- MODULE MCRemoteLink ----------------------------
(* Model checking of RemoteLink; the constants are given in the .cfg files. *)
EXTENDS RemoteLink
=============================================================================

---------------------------- MODULE MCSimEvents ----------------------------
(* Model checking of SimEvents; the constants are given in the .cfg files. *)
EXTENDS SimEvents
=============================================================================

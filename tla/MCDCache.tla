------------------------------ MODULE MCDCache ------------------------------
(* Model checking of DCache; the constants are given in the .cfg files.    *)
EXTENDS DCache

\* Everything but io, a history that only the refinement looks at.
View == <<mem, cache, remote_dcache, cache_has_stuff, op, ret>>
=============================================================================

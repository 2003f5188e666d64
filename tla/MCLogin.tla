-------------------------------- MODULE MCLogin --------------------------------
(* Login on a small instance; no symmetry, since a liveness property is checked. *)
EXTENDS Login
=============================================================================

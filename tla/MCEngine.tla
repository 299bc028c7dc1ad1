------------------------------ MODULE MCEngine ------------------------------
(* Instances of Engine for TLC.  The constants are given in the .cfg files. *)
EXTENDS Engine
=============================================================================

------------------------------ MODULE MCLinks ------------------------------
(* Instances of Links for TLC.  The constants are given in the .cfg files. *)
EXTENDS Links
=============================================================================

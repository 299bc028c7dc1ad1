------------------------------- MODULE MCRelay -------------------------------
(* Instances of WizardRelay for TLC.  The constants are in the .cfg files.  *)
EXTENDS WizardRelay
=============================================================================

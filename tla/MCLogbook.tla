----------------------------- MODULE MCLogbook -----------------------------
(***************************************************************************)
(* TLC instance of Logbook: a scenario with two timed phases in a row, an  *)
(* input phase and a last timed one, and a short scenario to change to.    *)
(***************************************************************************)
EXTENDS Logbook

CONSTANTS long, short

Timed(type, d) == [input |-> FALSE, type |-> type, dur |-> d]
OnInput == [input |-> TRUE, type |-> "stimulus", dur |-> 1]

MCPhases == [s \in {long, short} |->
  IF s = long THEN <<Timed("noise", 2), Timed("observe", 1), OnInput, Timed("stimulus", 1)>>
              ELSE <<Timed("stimulus", 1)>>]
=============================================================================

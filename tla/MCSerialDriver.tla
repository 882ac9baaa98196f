---------------------------- MODULE MCSerialDriver ----------------------------
(***************************************************************************)
(* A small machine for the model checker.                                  *)
(***************************************************************************)
EXTENDS SerialDriver, TLC

\* There are two cores, so that contexts move, and a reader.
ASSUME SizesAssumption == NCores >= 2 /\ Readers # {}

=============================================================================

----------------------------- MODULE MCSymposium -----------------------------
(***************************************************************************)
(* A small symposium for the model checker.                                *)
(***************************************************************************)
EXTENDS Symposium

\* With four, two can eat at once and opposite philosophers share no fork.
ASSUME SizesAssumption == N >= 4 /\ bites >= 2

=============================================================================

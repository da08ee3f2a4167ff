----------------------------- MODULE MCRecorder -----------------------------
(* Instances of Recorder for TLC. *)
EXTENDS Recorder, TLC

CONSTANTS c1, c2

MCOne == {c1}
MCTwo == {c1, c2}
MCSymmetry == Permutations(MCTwo)
=============================================================================

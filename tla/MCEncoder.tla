------------------------------ MODULE MCEncoder ------------------------------
(* Instances of Encoder for TLC: two pictures, which alternate or repeat. *)
EXTENDS Encoder, TLC

CONSTANTS a, b

MCPictures == {a, b}
MCSymmetry == Permutations(MCPictures)
=============================================================================

---------------------------- MODULE MCTranspose ----------------------------
(***************************************************************************)
(* Instances of Transpose for TLC: three ranks, so two phases, of which    *)
(* any pair may or may not reach each other's window.                      *)
(***************************************************************************)
EXTENDS TransposeInv

AllModes == {"direct", "single", "buffered", "gpumpi", "staged"}
AllMappings == SUBSET {{0, 1}, {0, 2}, {1, 2}}
=============================================================================

---------------------------- MODULE MCHaloTokens ----------------------------
(***************************************************************************)
(* Three ranks of the cube of eight: 0, the one beyond its face (1 here)   *)
(* and the one at the opposite corner (2 here), which is an edge neighbour *)
(* of the second.  All three classes of neighbours occur.                  *)
(***************************************************************************)
EXTENDS HaloTokensInv

Triangle == [r \in 0 .. 2 |-> [q \in 0 .. 2 |->
  CASE <<r, q>> = <<0, 1>> -> 6  [] <<r, q>> = <<1, 0>> -> 5
    [] <<r, q>> = <<0, 2>> -> 26 [] <<r, q>> = <<2, 0>> -> 19
    [] <<r, q>> = <<1, 2>> -> 11 [] <<r, q>> = <<2, 1>> -> 8
    [] OTHER -> 0]]

\* Which pairs are within reach of CUDA IPC: each pair is in some of the sets
\* and not in others, and in the last all are.
SomeMappings == {{{0, 1}}, {{0, 2}, {1, 2}}, {{0, 1}, {0, 2}}, {{0, 1}, {0, 2}, {1, 2}}}
BothPackings == {"local", "remote"}
=============================================================================

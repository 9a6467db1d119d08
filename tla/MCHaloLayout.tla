---------------------------- MODULE MCHaloLayout ----------------------------
(***************************************************************************)
(* Instances of HaloLayout for TLC: a cube of 8 ranks, where every rank is *)
(* a corner, and one of 27, where the middle rank has all 26 neighbours.   *)
(***************************************************************************)
EXTENDS HaloLayoutInv

AllShapes == {[tp |-> 2, nx |-> 2], [tp |-> 2, nx |-> 4], [tp |-> 3, nx |-> 1]}
AllPhases == {"mass", "sbn", "sync", "monoq"}
AllPaths == {"isend", "fallback", "put", "direct"}
=============================================================================

----------------------------- MODULE MCStencil -----------------------------
(***************************************************************************)
(* Instances of Stencil for TLC.                                           *)
(***************************************************************************)
EXTENDS StencilInv

AllModes == {"barrier", "neighbor", "ssend"}
TokenModes == {"neighbor", "ssend"}
BarrierMode == {"barrier"}
NeighborMode == {"neighbor"}
=============================================================================

---------------------------- MODULE LuleshStdpar ----------------------------
(***************************************************************************)
(* LULESH/stdpar: parallel algorithms of standard C++ over one memory, on  *)
(* one rank.                                                               *)
(***************************************************************************)
EXTENDS Offload

TimeIncrement == Reduce \o NewDt

InitStressTermsForElems == HostCode(<< Put("sig", {"p", "q"}) >>)
IntegrateStressForElems ==
  HostCode(<< Put("determ", {"x"}), Put("fx_elem", {"x", "sig"}), Put("fx", {"fx_elem"}) >>)
CalcFBHourglassForceForElems ==
  HostCode(<< Put("fx_elem", {"dvdx", "x8n", "determ", "xd", "ss", "elemMass"}), Put("fx", {"fx", "fx_elem"}) >>)
CalcHourglassControlForElems ==
  HostCode(<< Put("dvdx", {"x"}), Put("x8n", {"x"}), Put("determ", {"volo", "v"}) >>)
  \o StopIf("host", "v")
  \o CalcFBHourglassForceForElems
CalcVolumeForceForElems ==
  InitStressTermsForElems
  \o IntegrateStressForElems
  \o StopIf("host", "determ")
  \o CalcHourglassControlForElems
CalcForceForNodes == HostCode(<< Put("fx", {}) >>) \o CalcVolumeForceForElems

CalcAccelerationForNodes == HostCode(<< Put("xdd", {"fx", "nodalMass"}) >>)
ApplyAccelerationBoundaryConditionsForNodes == HostCode(<< Put("xdd", {"xdd", "symm"}) >>)
CalcVelocityForNodes == HostCode(<< Store("xd", {"xd", "xdd", "dt"}) >>)
CalcPositionForNodes == HostCode(<< Store("x", {"x", "xd", "dt"}) >>)
LagrangeNodal ==
  CalcForceForNodes
  \o CalcAccelerationForNodes
  \o ApplyAccelerationBoundaryConditionsForNodes
  \o CalcVelocityForNodes
  \o CalcPositionForNodes

CalcKinematicsForElems ==
  HostCode(<< Put("vnew", {"x", "volo"}), Put("delv", {"vnew", "v"}),
              Put("arealg", {"x"}), Put("dxx", {"x", "xd", "dt"}) >>)
CalcLagrangeElements ==
  CalcKinematicsForElems
  \o HostCode(<< Put("vdov", {"dxx"}) >>)
  \o StopIf("host", "vnew")
CalcMonotonicQGradientsForElems ==
  HostCode(<< Put("delx", {"x", "volo", "vnew"}), Put("grad", {"x", "xd", "volo", "vnew"}) >>)
CalcMonotonicQRegionForElems ==
  HostCode(<< Put("qq", {"grad", "delx", "vdov", "elemMass", "volo", "vnew"}),
              Put("ql", {"grad", "delx", "vdov", "elemMass", "volo", "vnew"}) >>)
CalcMonotonicQForElems == CalcMonotonicQRegionForElems
\* Mutant: the viscosity is not looked at.
CalcQForElemsUnchecked == CalcMonotonicQGradientsForElems \o CalcMonotonicQForElems
CalcQForElems ==
  CalcMonotonicQGradientsForElems
  \o CalcMonotonicQForElems
  \o StopIf("host", "q")

CalcPressureForElems(p, e, compression) ==
  << Put("bvc", {compression}), Put("pbvc", {}), Put(p, {"bvc", e, "vnewc"}) >>
CalcEnergyForElems ==
  << Put("e_new", {"e_old", "delvc", "p_old", "q_old", "work"}) >>
  \o CalcPressureForElems("pHalfStep", "e_new", "compHalfStep")
  \o << Put("q_new", {"delvc", "pbvc", "e_new", "compHalfStep", "bvc", "pHalfStep", "ql_old", "qq_old"}),
        Put("e_new", {"e_new", "delvc", "p_old", "q_old", "pHalfStep", "q_new", "work"}) >>
  \o CalcPressureForElems("p_new", "e_new", "compression")
  \o << Let("q_tilde", {"pbvc", "e_new", "vnewc", "bvc", "p_new", "ql_old", "qq_old"}),
        Put("e_new", {"e_new", "p_old", "q_old", "pHalfStep", "q_new", "p_new", "q_tilde", "delvc"}) >>
  \o CalcPressureForElems("p_new", "e_new", "compression")
  \o << Put("q_new", {"q_new", "pbvc", "e_new", "vnewc", "bvc", "p_new", "ql_old", "qq_old"}) >>
CalcSoundSpeedForElems == << Store("ss", {"pbvc", "e_new", "vnewc", "bvc", "p_new"}) >>

\* The repetitions that unbalance the load start from the same old values
\* and count once.
EvalEOSForElems ==
  HostCode(<< Put("e_old", {"e"}), Put("delvc", {"delv"}), Put("p_old", {"p"}), Put("q_old", {"q"}),
              Put("qq_old", {"qq"}), Put("ql_old", {"ql"}),
              Put("compression", {"vnewc"}), Put("compHalfStep", {"vnewc", "delvc"}), Put("work", {}) >>
           \o CalcEnergyForElems
           \o << Store("p", {"p_new"}), Store("e", {"e_new"}), Store("q", {"q_new"}) >>
           \o CalcSoundSpeedForElems)
\* vnewc is a copy of vnew, cut to the bounds of the equation of state.
ApplyMaterialPropertiesForElems == HostCode(<< Put("vnewc", {"vnew"}) >>) \o EvalEOSForElems
UpdateVolumesForElems == HostCode(<< Store("v", {"vnew"}) >>)

LagrangeElements ==
  CalcLagrangeElements
  \o CalcQForElems
  \o ApplyMaterialPropertiesForElems
  \o UpdateVolumesForElems

CalcCourantConstraintForElems == HostCode(<< Store("dtcourant", {"ss", "vdov", "arealg"}) >>)
CalcHydroConstraintForElems == HostCode(<< Store("dthydro", {"vdov"}) >>)
CalcTimeConstraintsForElems == CalcCourantConstraintForElems \o CalcHydroConstraintForElems
LagrangeLeapFrog == LagrangeNodal \o LagrangeElements \o CalcTimeConstraintsForElems

Program == [prologue |-> <<>>, cycle |-> TimeIncrement \o LagrangeLeapFrog,
            epilogue |-> HostCode(<< Put("printed", {"e"}) >>)]
============================================================================

----------------------------- MODULE LuleshOmp -----------------------------
(***************************************************************************)
(* LULESH/omp_4.0: OpenMP 4 target regions.  A region maps the fields its  *)
(* clauses name; a field that is present already is neither copied nor     *)
(* freed.  Built with USE_GPU=0 the clauses do nothing and the same        *)
(* program runs on the host.                                               *)
(***************************************************************************)
EXTENDS Offload

(***************************************************************************)
(* lulesh-comm.cc: the directions of the neighbours a rank receives from,  *)
(* sends to and reads from.                                                *)
(***************************************************************************)
If(cond, dirs) == IF cond THEN dirs ELSE {}

CommRecvFaces(doRecv) ==
  {<<1, 0, 0>>, <<0, 1, 0>>, <<0, 0, 1>>} \cup
  If(doRecv, {<<-1, 0, 0>>, <<0, -1, 0>>, <<0, 0, -1>>})
CommRecvEdges(doRecv) ==
  {<<0, 1, 1>>, <<1, 1, 0>>, <<1, 0, 1>>, <<0, 1, -1>>, <<1, -1, 0>>, <<1, 0, -1>>} \cup
  If(doRecv, {<<0, -1, -1>>, <<-1, -1, 0>>, <<-1, 0, -1>>, <<0, -1, 1>>, <<-1, 1, 0>>, <<-1, 0, 1>>})
CommRecvCorners(doRecv) ==
  {<<1, -1, -1>>, <<1, -1, 1>>, <<1, 1, -1>>, <<1, 1, 1>>} \cup
  If(doRecv, {<<-1, -1, -1>>, <<-1, -1, 1>>, <<-1, 1, -1>>, <<-1, 1, 1>>})
CommRecv(phase, doRecv, planeOnly) ==
  Receives(phase, CommRecvFaces(doRecv) \cup
                  If(~planeOnly, CommRecvEdges(doRecv) \cup CommRecvCorners(doRecv)))

\* Mutant: faces are served in both directions whatever the phase.
CommSendFacesBoth(doSend) ==
  {<<-1, 0, 0>>, <<0, -1, 0>>, <<0, 0, -1>>, <<1, 0, 0>>, <<0, 1, 0>>, <<0, 0, 1>>}
CommSendFaces(doSend) ==
  {<<-1, 0, 0>>, <<0, -1, 0>>, <<0, 0, -1>>} \cup
  If(doSend, {<<1, 0, 0>>, <<0, 1, 0>>, <<0, 0, 1>>})
CommSendEdges(doSend) ==
  {<<0, -1, -1>>, <<-1, -1, 0>>, <<-1, 0, -1>>, <<0, -1, 1>>, <<-1, 1, 0>>, <<-1, 0, 1>>} \cup
  If(doSend, {<<0, 1, 1>>, <<1, 1, 0>>, <<1, 0, 1>>, <<0, 1, -1>>, <<1, -1, 0>>, <<1, 0, -1>>})
CommSendCorners(doSend) ==
  {<<-1, -1, -1>>, <<-1, -1, 1>>, <<-1, 1, -1>>, <<-1, 1, 1>>} \cup
  If(doSend, {<<1, -1, -1>>, <<1, -1, 1>>, <<1, 1, -1>>, <<1, 1, 1>>})
CommSend(phase, fields, doSend, planeOnly) ==
  Sends(phase, fields, CommSendFaces(doSend) \cup
                       If(~planeOnly, CommSendEdges(doSend) \cup CommSendCorners(doSend)))
  \o Waitall

SBNFaces == {<<-1, 0, 0>>, <<1, 0, 0>>, <<0, -1, 0>>, <<0, 1, 0>>, <<0, 0, -1>>, <<0, 0, 1>>}
SBNEdges ==
  {<<0, -1, -1>>, <<-1, -1, 0>>, <<-1, 0, -1>>, <<0, 1, 1>>, <<1, 1, 0>>, <<1, 0, 1>>,
   <<0, 1, -1>>, <<1, -1, 0>>, <<1, 0, -1>>, <<0, -1, 1>>, <<-1, 1, 0>>, <<-1, 0, 1>>}
SBNCorners == {-1, 1} \X {-1, 1} \X {-1, 1}
CommSBN(fields) == Merges("sbn", fields, SBNFaces \cup SBNEdges \cup SBNCorners, Now)

SyncPosVelFaces == {<<1, 0, 0>>, <<0, 1, 0>>, <<0, 0, 1>>}
SyncPosVelEdges == {<<0, 1, 1>>, <<1, 1, 0>>, <<1, 0, 1>>, <<0, 1, -1>>, <<1, -1, 0>>, <<1, 0, -1>>}
SyncPosVelCorners == {<<1, -1, -1>>, <<1, -1, 1>>, <<1, 1, -1>>, <<1, 1, 1>>}
CommSyncPosVel ==
  Merges("pos", {"x", "xd"}, SyncPosVelFaces \cup SyncPosVelEdges \cup SyncPosVelCorners, Now)
MonoQFaces == {<<-1, 0, 0>>, <<1, 0, 0>>, <<0, -1, 0>>, <<0, 1, 0>>, <<0, 0, -1>>, <<0, 0, 1>>}
CommMonoQ == Merges("monoq", {"grad"}, MonoQFaces, Now)

(***************************************************************************)
(* Nodal phase.                                                            *)
(***************************************************************************)
TimeIncrement == Reduce \o NewDt

InitStressTermsForElems == Target({"sig"}, {"p", "q"}, {}, << Put("sig", {"p", "q"}) >>)

\* fx_elem is deleted at the end; the reference this takes on fx stays.
IntegrateStressForElems ==
  EnterData({"fx", "fx_elem"}, {})
  \o Target({"x", "sig", "determ"}, {}, {},
            << Put("determ", {"x"}), Put("fx_elem", {"x", "sig"}) >>)
  \o Target({}, {}, {}, << Put("fx", {"fx_elem"}) >>)
  \o ExitData({}, {"fx_elem"})

CalcFBHourglassForceForElems ==
  EnterData({"fx_elem", "fx"}, {})
  \o Target({"dvdx", "x8n", "determ", "xd"}, {"ss", "elemMass"}, {},
            << Put("fx_elem", {"dvdx", "x8n", "determ", "xd", "ss", "elemMass"}) >>)
  \o Target({}, {}, {}, << Put("fx", {"fx", "fx_elem"}) >>)
  \o ExitData({}, {"fx_elem"})

\* vol_error is a scalar: since OpenMP 4.5 a target region has a copy of its
\* own, which is not copied back.
CalcHourglassControlForElems ==
  HostCode(<< Put("vol_error", {}) >>)
  \o EnterData({"dvdx", "x8n", "determ"}, {})
  \o Target({"x"}, {"volo", "v"}, {},
            << Put("dvdx", {"x"}), Put("x8n", {"x"}), Put("determ", {"volo", "v"}),
               Let("private vol_error", {"v"}) >>)
  \o StopIf("host", "vol_error")
  \o CalcFBHourglassForceForElems
  \o ExitData({}, {"dvdx", "x8n"})

CalcVolumeForceForElems ==
  EnterData({"sig"}, {})
  \o InitStressTermsForElems
  \o EnterData({"determ"}, {}) \o EnterData({"x"}, {})
  \o IntegrateStressForElems
  \o Update("host", {"determ"}, Now)
  \o StopIf("host", "determ")
  \o ExitData({}, {"sig"})
  \o CalcHourglassControlForElems
  \o ExitData({}, {"determ"})

CalcForceForNodes ==
  CommRecv("sbn", TRUE, FALSE)
  \o Target({"fx"}, {}, {}, << Put("fx", {}) >>)
  \o CalcVolumeForceForElems
  \o CommSend("sbn", {"fx"}, TRUE, FALSE)
  \o CommSBN({"fx"})

CalcAccelerationForNodes ==
  Target({"fx", "xdd"}, {"nodalMass"}, {}, << Put("xdd", {"fx", "nodalMass"}) >>)
ApplyAccelerationBoundaryConditionsForNodes ==
  Target({"xdd"}, {"symm"}, {}, << Put("xdd", {"xdd", "symm"}) >>)
CalcVelocityForNodes ==
  Target({"xdd", "xd"}, {"dt"}, {}, << Store("xd", {"xd", "xdd", "dt"}) >>)
CalcPositionForNodes ==
  Target({"xd", "x"}, {"dt"}, {}, << Store("x", {"x", "xd", "dt"}) >>)

LagrangeNodal ==
  CalcForceForNodes
  \o CommRecv("pos", FALSE, FALSE)
  \o CalcAccelerationForNodes
  \o ApplyAccelerationBoundaryConditionsForNodes
  \o CalcVelocityForNodes
  \o CalcPositionForNodes
  \o CommSend("pos", {"x", "xd"}, FALSE, FALSE)
  \o CommSyncPosVel

(***************************************************************************)
(* Element phase.                                                          *)
(***************************************************************************)
CalcKinematicsForElems ==
  Target({"xd", "x", "dxx", "vnew"}, {"volo", "v", "dt"}, {"delv", "arealg"},
         << Put("vnew", {"x", "volo"}), Put("delv", {"vnew", "v"}),
            Put("arealg", {"x"}), Put("dxx", {"x", "xd", "dt"}) >>)

CalcLagrangeElements ==
  EnterData({"dxx"}, {})
  \o CalcKinematicsForElems
  \o HostCode(<< Put("vol_error", {}) >>)
  \o Target({"vnew", "dxx"}, {}, {"vdov"},
            << Put("vdov", {"dxx"}), Let("private vol_error", {"vnew"}) >>)
  \o StopIf("host", "vol_error")
  \o ExitData({}, {"dxx"})

CalcMonotonicQGradientsForElems ==
  Target({"xd", "x", "grad", "delx", "vnew"}, {"volo"}, {},
         << Put("delx", {"x", "volo", "vnew"}), Put("grad", {"x", "xd", "volo", "vnew"}) >>)

CalcMonotonicQRegionForElems ==
  Target({"delx", "grad", "vnew"}, {"vdov", "elemMass", "volo", "ql", "qq"}, {"ql", "qq"},
         << Put("qq", {"grad", "delx", "vdov", "elemMass", "volo", "vnew"}),
            Put("ql", {"grad", "delx", "vdov", "elemMass", "volo", "vnew"}) >>)
CalcMonotonicQForElems == CalcMonotonicQRegionForElems

CalcQForElems ==
  EnterData({"grad", "delx"}, {})
  \o CommRecv("monoq", TRUE, TRUE)
  \o CalcMonotonicQGradientsForElems
  \o CommSend("monoq", {"grad"}, TRUE, TRUE)
  \o CommMonoQ
  \o CalcMonotonicQForElems
  \o ExitData({}, {"grad", "delx"})
  \o StopIf("host", "q")

\* The repetitions that unbalance the load start from the same copies of
\* the old fields and count once.
EvalEOSForElems ==
  Target({"vnew"}, {"ql", "qq", "delv", "q", "p", "e", "ss", "v"}, {"q", "p", "e", "ss", "v"},
         << Let("e_new", {"e", "p", "q", "delv", "vnew", "ql", "qq"}),
            Let("p_new", {"e_new", "vnew"}),
            Let("q_new", {"e_new", "p_new", "vnew", "delv", "ql", "qq"}),
            Store("p", {"p_new"}), Store("e", {"e_new"}), Store("q", {"q_new"}),
            Store("ss", {"e_new", "p_new", "vnew"}), Store("v", {"vnew"}) >>)
ApplyMaterialPropertiesForElems == EvalEOSForElems

LagrangeElements ==
  EnterData({"vnew"}, {})
  \o CalcLagrangeElements
  \o CalcQForElems
  \o ApplyMaterialPropertiesForElems
  \o ExitData({}, {"vnew"})

CalcCourantConstraintForElems == HostCode(<< Store("dtcourant", {"ss", "vdov", "arealg"}) >>)
CalcHydroConstraintForElems == HostCode(<< Store("dthydro", {"vdov"}) >>)
CalcTimeConstraintsForElems == CalcCourantConstraintForElems \o CalcHydroConstraintForElems

LagrangeLeapFrog == LagrangeNodal \o LagrangeElements \o CalcTimeConstraintsForElems

Prologue ==
  CommRecv("sbn", TRUE, FALSE)
  \o CommSend("sbn", {"nodalMass"}, TRUE, FALSE)
  \o CommSBN({"nodalMass"})
  \o EnterData({}, {"x", "fx", "xd", "xdd"})
Epilogue ==
  ExitData({"x", "fx", "xd", "xdd"}, {})
  \o HostCode(<< Put("printed", {"e"}) >>)

Program == [prologue |-> Prologue, cycle |-> TimeIncrement \o LagrangeLeapFrog, epilogue |-> Epilogue]
============================================================================

----------------------------- MODULE LuleshAcc -----------------------------
(***************************************************************************)
(* LULESH/openacc: one data region around the time loop holds everything   *)
(* the kernels use; what a message carries is copied between the two       *)
(* memories explicitly, in part on asynchronous queues.  mpi: built with   *)
(* USE_MPI.  Compiled without OpenACC the kernels are parallel loops of    *)
(* the host.                                                               *)
(***************************************************************************)
EXTENDS Offload

WithMpi(mpi, instructions) == IF mpi THEN instructions ELSE <<>>

(***************************************************************************)
(* lulesh-comm.cc: the directions of the neighbours a rank receives from,  *)
(* sends to and reads from.                                                *)
(***************************************************************************)
If(cond, dirs) == IF cond THEN dirs ELSE {}

CommRecvFaces(doRecv) ==
  {<<1, 0, 0>>, <<0, 1, 0>>, <<0, 0, 1>>} \cup
  If(doRecv, {<<-1, 0, 0>>, <<0, -1, 0>>, <<0, 0, -1>>})
CommRecvEdges(doRecv) ==
  {<<0, 1, 1>>, <<1, 1, 0>>, <<1, 0, 1>>, <<0, 1, -1>>, <<1, -1, 0>>, <<1, 0, -1>>} \cup
  If(doRecv, {<<0, -1, -1>>, <<-1, -1, 0>>, <<-1, 0, -1>>, <<0, -1, 1>>, <<-1, 1, 0>>, <<-1, 0, 1>>})
CommRecvCorners(doRecv) ==
  {<<1, -1, -1>>, <<1, -1, 1>>, <<1, 1, -1>>, <<1, 1, 1>>} \cup
  If(doRecv, {<<-1, -1, -1>>, <<-1, -1, 1>>, <<-1, 1, -1>>, <<-1, 1, 1>>})
CommRecv(phase, doRecv, planeOnly) ==
  Receives(phase, CommRecvFaces(doRecv) \cup
                  If(~planeOnly, CommRecvEdges(doRecv) \cup CommRecvCorners(doRecv)))

CommSendFaces(doSend) ==
  {<<-1, 0, 0>>, <<0, -1, 0>>, <<0, 0, -1>>} \cup
  If(doSend, {<<1, 0, 0>>, <<0, 1, 0>>, <<0, 0, 1>>})
CommSendEdges(doSend) ==
  {<<0, -1, -1>>, <<-1, -1, 0>>, <<-1, 0, -1>>, <<0, -1, 1>>, <<-1, 1, 0>>, <<-1, 0, 1>>} \cup
  If(doSend, {<<0, 1, 1>>, <<1, 1, 0>>, <<1, 0, 1>>, <<0, 1, -1>>, <<1, -1, 0>>, <<1, 0, -1>>})
CommSendCorners(doSend) ==
  {<<-1, -1, -1>>, <<-1, -1, 1>>, <<-1, 1, -1>>, <<-1, 1, 1>>} \cup
  If(doSend, {<<1, -1, -1>>, <<1, -1, 1>>, <<1, 1, -1>>, <<1, 1, 1>>})
CommSend(phase, fields, doSend, planeOnly) ==
  Sends(phase, fields, CommSendFaces(doSend) \cup
                       If(~planeOnly, CommSendEdges(doSend) \cup CommSendCorners(doSend)))
  \o Waitall

SBNFaces == {<<-1, 0, 0>>, <<1, 0, 0>>, <<0, -1, 0>>, <<0, 1, 0>>, <<0, 0, -1>>, <<0, 0, 1>>}
SBNEdges ==
  {<<0, -1, -1>>, <<-1, -1, 0>>, <<-1, 0, -1>>, <<0, 1, 1>>, <<1, 1, 0>>, <<1, 0, 1>>,
   <<0, 1, -1>>, <<1, -1, 0>>, <<1, 0, -1>>, <<0, -1, 1>>, <<-1, 1, 0>>, <<-1, 0, 1>>}
SBNCorners == {-1, 1} \X {-1, 1} \X {-1, 1}
CommSBN(fields) == Merges("sbn", fields, SBNFaces \cup SBNEdges \cup SBNCorners, Now)

SyncPosVelFaces == {<<1, 0, 0>>, <<0, 1, 0>>, <<0, 0, 1>>}
SyncPosVelEdges == {<<0, 1, 1>>, <<1, 1, 0>>, <<1, 0, 1>>, <<0, 1, -1>>, <<1, -1, 0>>, <<1, 0, -1>>}
SyncPosVelCorners == {<<1, -1, -1>>, <<1, -1, 1>>, <<1, 1, -1>>, <<1, 1, 1>>}
CommSyncPosVel ==
  Merges("pos", {"x", "xd"}, SyncPosVelFaces \cup SyncPosVelEdges \cup SyncPosVelCorners, Now)
MonoQFaces == {<<-1, 0, 0>>, <<1, 0, 0>>, <<0, -1, 0>>, <<0, 1, 0>>, <<0, 0, -1>>, <<0, 0, 1>>}
CommMonoQ == Merges("monoq", {"grad"}, MonoQFaces, Now)

(***************************************************************************)
(* Nodal phase.  A kernel without an async clause is over when the host    *)
(* goes on, but does not wait for the asynchronous queues.                 *)
(***************************************************************************)
TimeIncrement == Reduce \o NewDt

InitStressTermsForElems == Kernel(Now, {}, << Put("sig", {"p", "q"}) >>)
IntegrateStressForElems ==
  Kernel(Now, {}, << Put("determ", {"x"}), Put("fx_elem", {"x", "sig"}) >>)
  \o Kernel(Now, {}, << Put("fx", {"fx_elem"}) >>)
CalcFBHourglassForceForElems ==
  Kernel(Now, {}, << Put("fx_elem", {"dvdx", "x8n", "determ", "xd", "ss", "elemMass"}) >>)
  \o Kernel(Now, {}, << Put("fx", {"fx", "fx_elem"}) >>)

\* The flag abort is private to the kernel, and reduced over the threads only
\* when the loop runs on the host.
CalcHourglassControlForElems ==
  HostCode(<< Put("abort", {}) >>)
  \o Kernel(Now, {}, << Put("dvdx", {"x"}), Put("x8n", {"x"}), Put("determ", {"volo", "v"}), Private("abort", {"v"}) >>)
  \o StopIf("host", "abort")
  \o CalcFBHourglassForceForElems
CalcVolumeForceForElems ==
  InitStressTermsForElems
  \o IntegrateStressForElems
  \o HostCode(<< Put("abort", {}) >>)
  \o Kernel(Now, {}, << Private("abort", {"determ"}) >>)
  \o StopIf("host", "abort")
  \o CalcHourglassControlForElems

CalcForceForNodes(mpi) ==
  WithMpi(mpi, CommRecv("sbn", TRUE, FALSE))
  \o Kernel(Now, {}, << Put("fx", {}) >>)
  \o CalcVolumeForceForElems
  \o WithMpi(mpi, Update("host", {"fx"}, Now)
                  \o CommSend("sbn", {"fx"}, TRUE, FALSE)
                  \o CommSBN({"fx"})
                  \o Update("device", {"fx"}, "async"))

CalcAccelerationForNodes == Kernel(Now, {}, << Put("xdd", {"fx", "nodalMass"}) >>)
ApplyAccelerationBoundaryConditionsForNodes == Kernel(Now, {}, << Put("xdd", {"xdd", "symm"}) >>)
CalcVelocityForNodes == Kernel(Now, {"dt"}, << Store("xd", {"xd", "xdd", "dt"}) >>)
CalcPositionForNodes == Kernel(Now, {"dt"}, << Store("x", {"x", "xd", "dt"}) >>)

LagrangeNodal(mpi) ==
  CalcForceForNodes(mpi)
  \o WithMpi(mpi, CommRecv("pos", FALSE, FALSE) \o Wait(Queues))
  \o CalcAccelerationForNodes
  \o ApplyAccelerationBoundaryConditionsForNodes
  \o CalcVelocityForNodes
  \o WithMpi(mpi, Update("host", {"xd"}, "up"))
  \o CalcPositionForNodes
  \o WithMpi(mpi, Update("host", {"x"}, "up") \o Wait({"up"})
                  \o CommSend("pos", {"x", "xd"}, FALSE, FALSE)
                  \o CommSyncPosVel
                  \o Update("device", {"x", "xd"}, "async"))

(***************************************************************************)
(* Element phase.                                                          *)
(***************************************************************************)
CalcKinematicsForElems ==
  Kernel(Now, {"dt"}, << Put("vnew", {"x", "volo"}), Put("delv", {"vnew", "v"}),
                         Put("arealg", {"x"}), Put("dxx", {"x", "xd", "dt"}) >>)
CalcLagrangeElements ==
  CalcKinematicsForElems
  \o HostCode(<< Put("abort", {}) >>)
  \o Kernel(Now, {}, << Put("vdov", {"dxx"}), Private("abort", {"vnew"}) >>)
  \o StopIf("host", "abort")

CalcMonotonicQGradientsForElems ==
  Kernel(Now, {}, << Put("delx", {"x", "volo", "vnew"}), Put("grad", {"x", "xd", "volo", "vnew"}) >>)
CalcMonotonicQRegionForElems ==
  Kernel(Now, {}, << Put("qq", {"grad", "delx", "vdov", "elemMass", "volo", "vnew"}),
                     Put("ql", {"grad", "delx", "vdov", "elemMass", "volo", "vnew"}) >>)
CalcMonotonicQForElems == CalcMonotonicQRegionForElems

\* The gradients of the neighbours arrive in the host's copy.  The test of q
\* reads the host's copy as well.
CalcQForElems(mpi) ==
  WithMpi(mpi, CommRecv("monoq", TRUE, TRUE))
  \o CalcMonotonicQGradientsForElems
  \o WithMpi(mpi, Update("host", {"grad"}, Now) \o CommSend("monoq", {"grad"}, TRUE, TRUE) \o CommMonoQ)
  \o CalcMonotonicQForElems
  \o StopIf("host", "q")

CalcPressureForElems(p, e, compression) ==
  Kernel(Now, {}, << Put("bvc", {compression}), Put("pbvc", {}), Put(p, {"bvc", e, "vnew"}) >>)
CalcEnergyForElems ==
  Kernel(Now, {}, << Put("e_new", {"e_old", "delvc", "p_old", "q_old", "work"}) >>)
  \o CalcPressureForElems("pHalfStep", "e_new", "compHalfStep")
  \o Kernel(Now, {}, << Put("q_new", {"delvc", "pbvc", "e_new", "compHalfStep", "bvc", "pHalfStep", "ql_old", "qq_old"}),
                        Put("e_new", {"e_new", "delvc", "p_old", "q_old", "pHalfStep", "q_new"}) >>)
  \o Kernel(Now, {}, << Put("e_new", {"e_new", "work"}) >>)
  \o CalcPressureForElems("p_new", "e_new", "compression")
  \o Kernel(Now, {}, << Let("q_tilde", {"pbvc", "e_new", "vnew", "bvc", "p_new", "ql_old", "qq_old"}),
                        Put("e_new", {"e_new", "p_old", "q_old", "pHalfStep", "q_new", "p_new", "q_tilde", "delvc"}) >>)
  \o CalcPressureForElems("p_new", "e_new", "compression")
  \o Kernel(Now, {}, << Put("q_new", {"q_new", "pbvc", "e_new", "vnew", "bvc", "p_new", "ql_old", "qq_old"}) >>)
CalcSoundSpeedForElems == Kernel(Now, {}, << Store("ss", {"pbvc", "e_new", "vnew", "bvc", "p_new"}) >>)

\* The repetitions that unbalance the load start from the same old values
\* and count once.
EvalEOSForElems ==
  EnterData({"pHalfStep"}, {})
  \o Kernel(Now, {}, << Put("e_old", {"e"}), Put("delvc", {"delv"}), Put("p_old", {"p"}), Put("q_old", {"q"}),
                        Put("qq_old", {"qq"}), Put("ql_old", {"ql"}) >>)
  \o Kernel(Now, {}, << Put("compression", {"vnew"}), Put("compHalfStep", {"vnew", "delvc"}) >>)
  \o Kernel(Now, {}, << Put("work", {}) >>)
  \o CalcEnergyForElems
  \o Kernel(Now, {}, << Store("p", {"p_new"}), Store("e", {"e_new"}), Store("q", {"q_new"}) >>)
  \o CalcSoundSpeedForElems
  \o ExitData({}, {"pHalfStep"})
\* Before, vnew is cut to the bounds of the equation of state, in place.
ApplyMaterialPropertiesForElems == Kernel(Now, {}, << Put("vnew", {"vnew"}) >>) \o EvalEOSForElems
UpdateVolumesForElems == Kernel(Now, {}, << Store("v", {"vnew"}) >>)

LagrangeElements(mpi) ==
  CalcLagrangeElements
  \o CalcQForElems(mpi)
  \o ApplyMaterialPropertiesForElems
  \o UpdateVolumesForElems

CalcCourantConstraintForElems == HostCode(<< Store("dtcourant", {"ss", "vdov", "arealg"}) >>)
CalcHydroConstraintForElems == HostCode(<< Store("dthydro", {"vdov"}) >>)
CalcTimeConstraintsForElems == Wait(Queues) \o CalcCourantConstraintForElems \o CalcHydroConstraintForElems

LagrangeLeapFrog(mpi) ==
  LagrangeNodal(mpi)
  \o WithMpi(mpi, Wait(Queues))
  \o LagrangeElements(mpi)
  \o Update("host", {"ss", "vdov", "arealg"}, "async")
  \o CalcTimeConstraintsForElems

Scratch == {"fx", "fx_elem", "dvdx", "x8n", "sig", "determ", "dxx", "vnew", "delx", "grad", "e_old", "delvc", "p_old",
            "q_old", "compression", "compHalfStep", "qq_old", "ql_old", "work", "p_new", "e_new", "q_new", "bvc", "pbvc"}
CopyIn == {"symm", "xdd", "v", "volo", "delv", "arealg", "vdov", "ss", "q", "qq", "ql", "nodalMass", "elemMass"}
CopyInOut == {"x", "xd", "p", "e"}
Prologue(mpi) ==
  WithMpi(mpi, CommRecv("sbn", TRUE, FALSE) \o CommSend("sbn", {"nodalMass"}, TRUE, FALSE) \o CommSBN({"nodalMass"}))
  \o EnterData(Scratch, CopyIn \cup CopyInOut)
\* Mutant: the data region ends without copying anything back.
EpilogueCopyIn == ExitData({}, CopyInOut) \o HostCode(<< Put("printed", {"e"}) >>)
Epilogue == ExitData(CopyInOut, {}) \o HostCode(<< Put("printed", {"e"}) >>)

Program(mpi) ==
  [prologue |-> Prologue(mpi), cycle |-> TimeIncrement \o LagrangeLeapFrog(mpi), epilogue |-> Epilogue]
============================================================================

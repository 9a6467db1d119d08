----------------------------- MODULE LuleshCuda -----------------------------
(***************************************************************************)
(* LULESH/cuda: all fields live on the device, and the host only launches  *)
(* kernels and passes messages.  The flags of the checks and the two       *)
(* constraints on the time step are in pinned memory of the host, where    *)
(* kernels write them.  backend: one of comm/, the two-sided "staged" and  *)
(* "gpumpi" or those with barriers, "shmwin", "nvshmem" and "direct"; or   *)
(* "none" for one rank.                                                    *)
(***************************************************************************)
EXTENDS Offload

WithMpi(backend, instructions) == IF backend = "none" THEN <<>> ELSE instructions

(***************************************************************************)
(* lulesh-comms.cu and lulesh-comms-gpu.cu.  What a stream packs for a     *)
(* message, in one of the two memories, is the host's copy of the field;   *)
(* the streams of the messages of a phase are one queue.  The walks over   *)
(* the neighbours are those of HaloLayout: here only which neighbours.     *)
(***************************************************************************)
Plus == {<<1, 0, 0>>, <<0, 1, 0>>, <<0, 0, 1>>,
         <<0, 1, 1>>, <<1, 1, 0>>, <<1, 0, 1>>, <<0, 1, -1>>, <<1, -1, 0>>, <<1, 0, -1>>,
         <<1, -1, -1>>, <<1, -1, 1>>, <<1, 1, -1>>, <<1, 1, 1>>}
Minus == {<<-d[1], -d[2], -d[3]>> : d \in Plus}
IsFace(d) == d[1] * d[1] + d[2] * d[2] + d[3] * d[3] = 1
Planes(planeOnly, dirs) == {d \in dirs : planeOnly => IsFace(d)}

\* COMM_RECV_POST_BUF of the GPU-aware backend drains the device, so that no
\* unpack still reads the buffer a new message may fill.
\* Mutant: the sync is forgotten.
PostSyncNever(backend) == FALSE
PostSync(backend) == backend = "gpumpi"

\* The one-sided backends post nothing: neighbours write when all ranks have
\* drained their devices.  commRecvSkip is in front of an exchange,
\* COMM_SEND_FINISH behind its puts.
OneSided == {"shmwin", "nvshmem", "direct"}
DeviceSynchronize == Wait(Queues)
commRecvSkip == DeviceSynchronize \o Barrier
SendFinish == Wait({"messages"}) \o Landed \o Barrier

RecvDirs(doRecv, planeOnly) == Planes(planeOnly, IF doRecv THEN Plus \cup Minus ELSE Plus)
SendDirs(doSend, planeOnly) == Planes(planeOnly, IF doSend THEN Plus \cup Minus ELSE Minus)
CommRecv(backend, phase, doRecv, planeOnly) ==
  IF backend \in OneSided THEN commRecvSkip
  ELSE (IF PostSync(backend) THEN DeviceSynchronize ELSE <<>>) \o Receives(phase, RecvDirs(doRecv, planeOnly))

\* Under "shmwin" the host writes into the windows of its neighbours.
CommSend(backend, phase, fields, doSend, planeOnly) ==
  IF backend = "shmwin" THEN Puts(phase, fields, SendDirs(doSend, planeOnly), Now) \o Landed \o Barrier
  ELSE Sends(phase, fields, SendDirs(doSend, planeOnly)) \o Waitall

\* "direct" sets aside the values of its fields before the barrier behind which
\* the neighbours add to them; only the gradients go into buffers.
Packed(fields) == Update("host", fields, "messages")
DirectSend(phase, fields, doSend) ==
  DeviceSynchronize \o Packed(fields) \o Wait({"messages"}) \o Barrier
  \o Scatters(phase, fields, SendDirs(doSend, FALSE), "messages") \o SendFinish
MonoQSendDirect(phase, fields, doSend) ==
  DeviceSynchronize \o Barrier
  \o Packed(fields) \o Puts(phase, fields, SendDirs(doSend, TRUE), "messages") \o SendFinish

CommSendGpu(backend, phase, fields, doSend, planeOnly) ==
  CASE backend = "direct" /\ planeOnly -> MonoQSendDirect(phase, fields, doSend)
    [] backend = "direct" /\ ~planeOnly -> DirectSend(phase, fields, doSend)
    [] backend \in {"shmwin", "nvshmem"} ->
         Packed(fields) \o Puts(phase, fields, SendDirs(doSend, planeOnly), "messages") \o SendFinish
    [] OTHER -> Packed(fields) \o Wait({"messages"}) \o CommSend(backend, phase, fields, doSend, planeOnly)

\* Nothing is left to unpack of what was written into the fields.
CommSBN(fields) == Merges("sbn", fields, Plus \cup Minus, Now)
CommSBNGpu(backend, fields) ==
  IF backend = "direct" THEN <<>> ELSE Merges("sbn", fields, Plus \cup Minus, "messages")
CommSyncPosVelGpu(backend) ==
  IF backend = "direct" THEN <<>> ELSE Merges("pos", {"x", "xd"}, Plus, "messages")
CommMonoQGpu == Merges("monoq", {"grad"}, Planes(TRUE, Plus \cup Minus), "messages")

(***************************************************************************)
(* Nodal phase.  A launch without a stream goes to the default stream.     *)
(***************************************************************************)
\* The event time_constraint_computed is the last thing on streams[1].
TimeIncrement == Wait({"streams[1]"}) \o Reduce \o NewDt

CalcVolumeForceForElems_kernel ==
  << Let("determ", {"x"}), Put("bad_vol", {"bad_vol", "v", "determ"}),
     Put("fx_elem", {"volo", "v", "p", "q", "ss", "elemMass", "x", "xd"}) >>
AddNodeForcesFromElems_kernel == << Put("fx", {"fx_elem"}) >>
CalcVolumeForceForElems ==
  Kernel("default", {}, CalcVolumeForceForElems_kernel)
  \o Kernel("default", {}, AddNodeForcesFromElems_kernel)

CalcForceForNodes(backend) ==
  WithMpi(backend, CommRecv(backend, "sbn", TRUE, FALSE))
  \o CalcVolumeForceForElems
  \o TimeIncrement
  \o WithMpi(backend, CommSendGpu(backend, "sbn", {"fx"}, TRUE, FALSE) \o CommSBNGpu(backend, {"fx"}))

CalcAccelerationForNodes == Kernel("default", {}, << Put("xdd", {"fx", "nodalMass"}) >>)
ApplyAccelerationBoundaryConditionsForNodes == Kernel("default", {}, << Put("xdd", {"xdd", "symm"}) >>)
CalcPositionAndVelocityForNodes ==
  Kernel("default", {"dt"}, << Store("xd", {"xd", "xdd", "dt"}), Store("x", {"x", "xd", "dt"}) >>)

LagrangeNodal(backend) ==
  CalcForceForNodes(backend)
  \o WithMpi(backend, CommRecv(backend, "pos", FALSE, FALSE))
  \o CalcAccelerationForNodes
  \o ApplyAccelerationBoundaryConditionsForNodes
  \o CalcPositionAndVelocityForNodes
  \o WithMpi(backend, CommSendGpu(backend, "pos", {"x", "xd"}, FALSE, FALSE) \o CommSyncPosVelGpu(backend))

(***************************************************************************)
(* Element phase.                                                          *)
(***************************************************************************)
CalcKinematicsAndMonotonicQGradient_kernel ==
  << Put("vnew", {"x", "volo"}), Put("delv", {"vnew", "v"}), Put("arealg", {"x"}),
     Put("vdov", {"x", "xd", "dt"}), Put("delx", {"x", "volo", "vnew"}),
     Put("grad", {"x", "xd", "volo", "vnew"}), Put("bad_vol", {"bad_vol", "vnew"}) >>
CalcKinematicsAndMonotonicQGradient ==
  Kernel("default", {"dt"}, CalcKinematicsAndMonotonicQGradient_kernel)
CalcMonotonicQRegionForElems ==
  Kernel("default", {},
         << Put("qq", {"grad", "delx", "vdov", "elemMass", "volo", "vnew"}),
            Put("ql", {"grad", "delx", "vdov", "elemMass", "volo", "vnew"}), Put("bad_q", {"bad_q", "q"}) >>)

\* The equation of state, one element after the other, in the variables of the
\* kernel.  Its check of v comes behind a cut to positive bounds and does not
\* fire; the repetitions that unbalance the load count once.
ApplyMaterialPropertiesForElems_device == << Let("vnewc", {"vnew"}) >>
CalcPressureForElems_device(p, e, compression) ==
  << Let("bvc", {compression}), Let("pbvc", {}), Let(p, {"bvc", e, "vnewc"}) >>
CalcEnergyForElems_device ==
  << Let("e_new", {"e_old", "delvc", "p_old", "q_old", "work"}) >>
  \o CalcPressureForElems_device("pHalfStep", "e_new", "compHalfStep")
  \o << Let("q_new", {"delvc", "pbvc", "e_new", "compHalfStep", "bvc", "pHalfStep", "ql_old", "qq_old"}),
        Let("e_new", {"e_new", "delvc", "p_old", "q_old", "pHalfStep", "q_new", "work"}) >>
  \o CalcPressureForElems_device("p_new", "e_new", "compression")
  \o << Let("q_tilde", {"delvc", "pbvc", "e_new", "vnewc", "bvc", "p_new", "ql_old", "qq_old"}),
        Let("e_new", {"e_new", "p_old", "q_old", "pHalfStep", "q_new", "p_new", "q_tilde", "delvc"}) >>
  \o CalcPressureForElems_device("p_new", "e_new", "compression")
  \o << Let("q_new", {"q_new", "delvc", "pbvc", "e_new", "vnewc", "bvc", "p_new", "ql_old", "qq_old"}) >>
CalcSoundSpeedForElems_device == << Store("ss", {"pbvc", "e_new", "vnewc", "bvc", "p_new"}) >>
UpdateVolumesForElems_device == << Store("v", {"vnew"}) >>
ApplyMaterialPropertiesAndUpdateVolume_kernel ==
  ApplyMaterialPropertiesForElems_device
  \o << Let("e_old", {"e"}), Let("p_old", {"p"}), Let("q_old", {"q"}), Let("qq_old", {"qq"}),
        Let("ql_old", {"ql"}), Let("delvc", {"delv"}), Let("work", {}),
        Let("compression", {"vnewc"}), Let("compHalfStep", {"vnewc", "delvc"}) >>
  \o CalcEnergyForElems_device
  \o << Store("p", {"p_new"}), Store("e", {"e_new"}), Store("q", {"q_new"}) >>
  \o CalcSoundSpeedForElems_device
  \o UpdateVolumesForElems_device
ApplyMaterialPropertiesAndUpdateVolume == Kernel("default", {}, ApplyMaterialPropertiesAndUpdateVolume_kernel)

LagrangeElements(backend) ==
  WithMpi(backend, CommRecv(backend, "monoq", TRUE, TRUE))
  \o CalcKinematicsAndMonotonicQGradient
  \o WithMpi(backend, CommSendGpu(backend, "monoq", {"grad"}, TRUE, TRUE) \o CommMonoQGpu)
  \o CalcMonotonicQRegionForElems
  \o ApplyMaterialPropertiesAndUpdateVolume

CalcTimeConstraintsForElems_kernel ==
  << Put("dev_mindtcourant", {"ss", "vdov", "arealg"}), Put("dev_mindthydro", {"vdov"}) >>
CalcMinDtOneBlock == << Store("dtcourant", {"dev_mindtcourant"}), Store("dthydro", {"dev_mindthydro"}) >>
CalcTimeConstraintsForElems ==
  Kernel("default", {}, CalcTimeConstraintsForElems_kernel)
  \o Kernel("streams[1]", {}, CalcMinDtOneBlock)

LagrangeLeapFrog(backend) == LagrangeNodal(backend) \o LagrangeElements(backend) \o CalcTimeConstraintsForElems
\* It ends the rank with exit(), which is taken to end the job.
checkErrors == StopIf("host", "bad_vol") \o StopIf("host", "bad_q")

Temporaries == {"fx_elem", "vnew", "grad", "delx", "dev_mindtcourant", "dev_mindthydro"}
Resident == {"x", "xd", "xdd", "fx", "e", "p", "q", "v", "ss", "volo", "elemMass", "nodalMass", "symm",
             "ql", "qq", "delv", "vdov", "arealg"}
\* The first exchange is the host's.  One-sided backends other than "shmwin"
\* become active behind it (g_commActive): it goes through MPI.
Inactive(backend) == IF backend = "shmwin" THEN backend ELSE "staged"
Prologue(backend) ==
  HostCode(<< Put("bad_vol", {}), Put("bad_q", {}) >>)
  \o EnterData(Temporaries, Resident)
  \o WithMpi(backend, Update("host", {"nodalMass"}, Now)
                      \o CommRecv(Inactive(backend), "sbn", TRUE, FALSE)
                      \o CommSend(backend, "sbn", {"nodalMass"}, TRUE, FALSE)
                      \o CommSBN({"nodalMass"})
                      \o Update("device", {"nodalMass"}, Now)
                      \o Barrier)
Epilogue == Wait(Queues) \o Update("host", {"e"}, Now) \o HostCode(<< Put("printed", {"e"}) >>)

Program(backend) ==
  [prologue |-> Prologue(backend), cycle |-> LagrangeLeapFrog(backend) \o checkErrors, epilogue |-> Epilogue]
============================================================================

------------------------------ MODULE MCPorts ------------------------------
(***************************************************************************)
(* Ranks of the cube of 27: 0 and 1 share a face, 0 and 4 an edge, 0 and   *)
(* 13 a corner, and 0 and 2 do not touch.  A team is some of them; the     *)
(* messages of the others are left out.                                    *)
(***************************************************************************)
EXTENDS Ports

MCRanks == {0, 1, 2, 4, 13}
MCLoc == [r \in MCRanks |-> <<r \div 9, (r \div 3) % 3, r % 3>>]

\* A mesh that goes bad in the first cycle, or in the second.
Bad(g) == {<<0, kind, g>> : kind \in {"volume", "q"}}
\* A build runs for three cycles, or for n.
Build(port, offload, ranks, eager, faults) ==
  [port |-> port, offload |-> offload, team |-> ranks, eager |-> eager, faults |-> faults,
   cycles |-> IF Cycles < 3 THEN Cycles ELSE 3]
For(n, b) == [b EXCEPT !.cycles = n]

\* One rank on a device or on the host.
Single ==
  {Build("omp", TRUE, {0}, TRUE, Bad(1)), Build("acc", TRUE, {0}, TRUE, Bad(1)),
   Build("accSerial", TRUE, {0}, TRUE, Bad(1)), Build("accSerial", FALSE, {0}, TRUE, Bad(2)),
   Build("stdpar", FALSE, {0}, TRUE, Bad(1) \cup Bad(2)), Build("cuda", TRUE, {0}, TRUE, Bad(2)),
   For(4, Build("cuda", TRUE, {0}, TRUE, Bad(1)))}
\* Several ranks whose kernels run on the host.
HostTeams ==
  {Build("omp", FALSE, {0, 1}, TRUE, Bad(2)), For(1, Build("omp", FALSE, {0, 1, 4}, FALSE, {})), Build("omp", FALSE, {0, 2}, TRUE, {}),
   Build("acc", FALSE, {0, 1}, TRUE, Bad(1)), Build("acc", FALSE, {0, 13}, FALSE, {})}
\* Several ranks with a device each.  The team of OpenACC shares an edge, over
\* which no viscosity gradients are exchanged.
DeviceTeams ==
  {Build("cudaGpuMpi", TRUE, {0, 1}, TRUE, Bad(1)), Build("cudaGpuMpi", TRUE, {0, 13}, FALSE, {}),
   Build("cudaShmwin", TRUE, {0, 1}, TRUE, {}), Build("cudaNvshmem", TRUE, {0, 1}, TRUE, {}),
   Build("cudaDirect", TRUE, {0, 1}, TRUE, {}), For(1, Build("cudaDirect", TRUE, {0, 1, 2}, TRUE, {})),
   For(2, Build("acc", TRUE, {0, 4}, FALSE, {}))}
SoundBuilds == Single \cup HostTeams \cup DeviceTeams

\* Teams whose messages do not reach, or leave, the memory of the kernels as
\* the algorithm needs.
StagedBuilds == {Build("cudaStaged", TRUE, {0, 1}, TRUE, {})}
AccTeams == {Build("acc", TRUE, {0, 1}, TRUE, {})}
OmpTeams == {Build("omp", TRUE, {0, 1}, TRUE, {})}
============================================================================

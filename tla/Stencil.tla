------------------------------- MODULE Stencil -------------------------------
(***************************************************************************)
(* The ghost exchange of stencil/stencil_ipc.cu: a line of ranks, each one *)
(* host thread driving one GPU through its default stream.  A rank writes  *)
(* its edge columns straight into its neighbours' receive windows (CUDA    *)
(* IPC), or sends them over MPI on a side where the peer query failed, and *)
(* tells the neighbour by one of three handshakes.                         *)
(*                                                                         *)
(* The host and the GPU are separate processes: a kernel launch or an      *)
(* asynchronous copy only enqueues work, and the host learns that it ran   *)
(* at the next cudaDeviceSynchronize.  The stream is in order and its      *)
(* contents are the operations between the GPU's position (gen, gpc) and   *)
(* the host's (iter, pc), so no queue is kept.                             *)
(*                                                                         *)
(* A column of N doubles is abstracted to its stamp: the iteration in      *)
(* which it was packed, so the generation of the strip it was copied from. *)
(***************************************************************************)
EXTENDS Integers

CONSTANTS N,          \* MPI_Comm_size
          Total,      \* warmup + iterations
          Warmup,     \* STENCIL_WARMUP
          SyncModes,  \* the values of STENCIL_SYNC considered
          Eager       \* MPI_Isend of a zero-byte token completes unmatched

ASSUME NAssumption      == N \in Nat \ {0}
ASSUME TotalAssumption  == Total \in Nat /\ Warmup \in Nat /\ Warmup < Total
ASSUME ModesAssumption  == SyncModes \subseteq {"barrier", "neighbor", "ssend"}
ASSUME EagerAssumption  == Eager \in BOOLEAN

Rank == 0 .. N - 1
Side == {"L", "R"}
Opp(d) == IF d = "L" THEN "R" ELSE "L"

\* left_rank and right_rank; the ends of the line have one neighbour only.
HasNbr(r, d) == IF d = "L" THEN r > 0 ELSE r < N - 1
Nbr(r, d) == IF d = "L" THEN r - 1 ELSE r + 1

None == -1                \* a column that is no generation of any strip
Stamp == Nat \cup {None}
RECV_SLOTS == 2

VARIABLES
  sync,      \* STENCIL_SYNC, the same environment on every rank
  ipcOk,     \* ipc_ok_L, ipc_ok_R: the side is reached by a direct copy
  iter,      \* the host's iteration
  pc,        \* the host's position in it
  gen,       \* the iteration the GPU is executing
  gpc,       \* the next operation of the default stream
  recvSlot,  \* d_ghost_recv_L, d_ghost_recv_R, two slots each
  sendBuf,   \* d_ghost_send_L, d_ghost_send_R
  ghost,     \* the ghost columns of d_old
  grid,      \* the interior of d_old
  sent,      \* messages sent out of a side: fallback columns, or tokens
  rcvd,      \* messages received on a side
  arrived    \* calls of MPI_Barrier entered since the loop began

hostVars == <<iter, pc>>
gpuVars  == <<gen, gpc>>
dataVars == <<recvSlot, sendBuf, ghost, grid>>
msgVars  == <<sent, rcvd, arrived>>
vars == <<sync, ipcOk, hostVars, gpuVars, dataVars, msgVars>>

HostPc == {"top", "align", "post", "sync", "wait", "hs0", "hs1", "hs2", "hs3",
           "unpack", "drain", "free", "done"}
GpuPc  == {"memset", "pack", "putL", "putR", "unL", "unR", "stencil"}

-----------------------------------------------------------------------------
(* Positions.                                                              *)

\* Barrier mode pins slot 0, the neighbour handshakes alternate two slots.
SlotSingle(i) == 0
Slot(i) == IF sync = "barrier" THEN 0 ELSE i % RECV_SLOTS

\* Where the host goes when it reaches iteration i.
TopPcOffByOne(i) == IF i > Total THEN "drain" ELSE IF i = Warmup THEN "top" ELSE "post"
TopPc(i) == IF i = Total THEN "drain" ELSE IF i = Warmup THEN "top" ELSE "post"

\* The stream holds the operation the GPU would execute next.
InStream(r) ==
  CASE gpc[r] = "memset" -> TRUE
    [] gpc[r] \in {"pack", "putL", "putR"} ->
         gen[r] < iter[r] \/ pc[r] \in {"sync", "wait", "hs0", "hs1", "hs2", "hs3", "unpack"}
    [] OTHER -> gen[r] < iter[r]

\* cudaDeviceSynchronize and cudaEventSynchronize return.
Drained(r) == ~InStream(r)

\* A receive is posted on the side: a fallback column, or a token.
Expects(r, d) == HasNbr(r, d) /\ (~ipcOk[r][d] \/ sync = "neighbor")

\* MPI_Barrier returns.
BarrierOpen(r) == \A q \in Rank : arrived[q] >= arrived[r]

-----------------------------------------------------------------------------
(* Both peer queries of the setup have run, and every rank has left the    *)
(* barrier before the loop.  The grids and the windows were cleared with   *)
(* cudaMemset, which does not wait for the GPU; only the rank that owns    *)
(* the heat source has synchronised since, in its cudaMemcpy.  The probe   *)
(* of the window layer is assumed to give both ends of a side the same     *)
(* verdict.                                                                *)

HeatRank == N \div 2

Init ==
  /\ sync \in SyncModes
  /\ ipcOk \in [Rank -> [Side -> BOOLEAN]]
  /\ \A r \in Rank, d \in Side :
       ipcOk[r][d] => HasNbr(r, d) /\ ipcOk[Nbr(r, d)][Opp(d)]
  /\ iter = [r \in Rank |-> 0]
  /\ pc = [r \in Rank |-> TopPc(0)]
  /\ gen = [r \in Rank |-> 0]
  /\ gpc = [r \in Rank |-> IF r = HeatRank THEN "pack" ELSE "memset"]
  /\ recvSlot = [r \in Rank |-> [d \in Side |-> [s \in 0 .. RECV_SLOTS - 1 |-> None]]]
  /\ sendBuf = [r \in Rank |-> [d \in Side |-> None]]
  /\ ghost = [r \in Rank |-> [d \in Side |-> None]]
  /\ grid = [r \in Rank |-> 0]
  /\ sent = [r \in Rank |-> [d \in Side |-> 0]]
  /\ rcvd = [r \in Rank |-> [d \in Side |-> 0]]
  /\ arrived = [r \in Rank |-> 0]

-----------------------------------------------------------------------------
(* The host program.                                                       *)

Goto(r, label) == pc' = [pc EXCEPT ![r] = label]

\* The clock starts: synchronise the device and align the ranks.
AlignUnsynced(r) ==
  /\ pc[r] = "top"
  /\ Goto(r, "align")
  /\ arrived' = [arrived EXCEPT ![r] = @ + 1]
  /\ UNCHANGED <<sync, ipcOk, iter, gpuVars, dataVars, sent, rcvd>>

Align(r) ==
  /\ pc[r] = "top"
  /\ Drained(r)
  /\ Goto(r, "align")
  /\ arrived' = [arrived EXCEPT ![r] = @ + 1]
  /\ UNCHANGED <<sync, ipcOk, iter, gpuVars, dataVars, sent, rcvd>>

LeaveAlign(r) ==
  /\ pc[r] = "align"
  /\ BarrierOpen(r)
  /\ Goto(r, "post")
  /\ UNCHANGED <<sync, ipcOk, iter, gpuVars, dataVars, msgVars>>

\* Post the receives of this iteration; enqueue the packs and the copies.
Launch(r) ==
  /\ pc[r] = "post"
  /\ Goto(r, "sync")
  /\ UNCHANGED <<sync, ipcOk, iter, gpuVars, dataVars, msgVars>>

\* The messages of the sides that get one.
Send(r) == sent' = [sent EXCEPT ![r] = [d \in Side |-> IF Expects(r, d) THEN @[d] + 1 ELSE @[d]]]

\* cudaDeviceSynchronize, then the nonblocking sends.
SyncSendEarly(r) ==
  /\ pc[r] = "sync"
  /\ Goto(r, "wait")
  /\ Send(r)
  /\ UNCHANGED <<sync, ipcOk, iter, gpuVars, dataVars, rcvd, arrived>>

SyncSend(r) ==
  /\ pc[r] = "sync"
  /\ Drained(r)
  /\ Goto(r, "wait")
  /\ Send(r)
  /\ UNCHANGED <<sync, ipcOk, iter, gpuVars, dataVars, rcvd, arrived>>

\* The requests of side d that MPI_Waitall waits for.  A column is sent from
\* device memory and completes when the neighbour has taken it.
CompleteRecvOnly(r, d) == rcvd[r][d] = iter[r] + 1
CompleteTokenUnwaited(r, d) ==
  ~ipcOk[r][d] => rcvd[r][d] = iter[r] + 1 /\ sent[r][d] = rcvd[Nbr(r, d)][Opp(d)]
Complete(r, d) ==
  /\ rcvd[r][d] = iter[r] + 1
  /\ (ipcOk[r][d] /\ Eager) \/ sent[r][d] = rcvd[Nbr(r, d)][Opp(d)]

\* MPI_Waitall, and in barrier mode the entry of the barrier behind it.
WaitAll(r) ==
  /\ pc[r] = "wait"
  /\ \A d \in Side : Expects(r, d) => Complete(r, d)
  /\ Goto(r, IF sync = "ssend" THEN "hs0" ELSE "unpack")
  /\ arrived' = IF sync = "barrier" THEN [arrived EXCEPT ![r] = @ + 1] ELSE arrived
  /\ UNCHANGED <<sync, ipcOk, iter, gpuVars, dataVars, sent, rcvd>>

\* Step k of the Ssend handshake: two passes of two sides, L before R.  Even
\* ranks send in the first pass, odd ranks in the second.
HsStep(k) == CASE k = 0 -> "hs0" [] k = 1 -> "hs1" [] k = 2 -> "hs2" [] k = 3 -> "hs3"
               [] OTHER -> "unpack"
HsSide(k) == IF k \in {0, 2} THEN "L" ELSE "R"
HsSendsSameFirst(r, k) == k < 2
HsSends(r, k) == IF r % 2 = 0 THEN k < 2 ELSE k >= 2

HsSkip(r, k) ==
  /\ pc[r] = HsStep(k)
  /\ ~ipcOk[r][HsSide(k)]
  /\ Goto(r, HsStep(k + 1))
  /\ UNCHANGED <<sync, ipcOk, iter, gpuVars, dataVars, msgVars>>

\* MPI_Ssend of r meets MPI_Recv of its neighbour: both return.
HsMeet(r, k, l) ==
  LET d == HsSide(k)  q == Nbr(r, d) IN
  /\ pc[r] = HsStep(k) /\ HsSends(r, k) /\ ipcOk[r][d]
  /\ pc[q] = HsStep(l) /\ ~HsSends(q, l) /\ HsSide(l) = Opp(d)
  /\ pc' = [pc EXCEPT ![r] = HsStep(k + 1), ![q] = HsStep(l + 1)]
  /\ sent' = [sent EXCEPT ![r][d] = @ + 1]
  /\ rcvd' = [rcvd EXCEPT ![q][Opp(d)] = @ + 1]
  /\ UNCHANGED <<sync, ipcOk, iter, gpuVars, dataVars, arrived>>

\* Enqueue the unpack and stencil kernels, swap the grids, next iteration.
LaunchUnpack(r) ==
  /\ pc[r] = "unpack"
  /\ sync = "barrier" => BarrierOpen(r)
  /\ iter' = [iter EXCEPT ![r] = @ + 1]
  /\ Goto(r, TopPc(iter[r] + 1))
  /\ UNCHANGED <<sync, ipcOk, gpuVars, dataVars, msgVars>>

\* cudaEventSynchronize, verification, and the barrier before cleanup.
Finish(r) ==
  /\ pc[r] = "drain"
  /\ Drained(r)
  /\ Goto(r, "free")
  /\ arrived' = [arrived EXCEPT ![r] = @ + 1]
  /\ UNCHANGED <<sync, ipcOk, iter, gpuVars, dataVars, sent, rcvd>>

FreeWindows(r) ==
  /\ pc[r] = "free"
  /\ BarrierOpen(r)
  /\ Goto(r, "done")
  /\ UNCHANGED <<sync, ipcOk, iter, gpuVars, dataVars, msgVars>>

-----------------------------------------------------------------------------
(* The GPU: the default stream in order.                                   *)

Retire(r, op) == gpc' = [gpc EXCEPT ![r] = op] /\ gen' = gen

\* cudaMemset of both windows.
Memset(r) ==
  /\ gpc[r] = "memset"
  /\ recvSlot' = [recvSlot EXCEPT ![r] = [d \in Side |-> [s \in 0 .. RECV_SLOTS - 1 |-> None]]]
  /\ Retire(r, "pack")
  /\ UNCHANGED <<sync, ipcOk, hostVars, sendBuf, ghost, grid, msgVars>>

\* pack_edge on every side with a neighbour.  The stream holds pack, copy, pack,
\* copy; each side has a send buffer of its own, so packing both first is the same.
Pack(r) ==
  /\ gpc[r] = "pack" /\ InStream(r)
  /\ sendBuf' = [sendBuf EXCEPT ![r] = [d \in Side |-> IF HasNbr(r, d) THEN gen[r] ELSE @[d]]]
  /\ Retire(r, "putL")
  /\ UNCHANGED <<sync, ipcOk, hostVars, recvSlot, ghost, grid, msgVars>>

PutPc(d) == IF d = "L" THEN "putL" ELSE "putR"
UnPc(d) == IF d = "L" THEN "unL" ELSE "unR"

\* The direct copy into the neighbour's window, on a side that has one.
Put(r, d) ==
  /\ gpc[r] = PutPc(d) /\ InStream(r)
  /\ recvSlot' = IF ipcOk[r][d]
                 THEN [recvSlot EXCEPT ![Nbr(r, d)][Opp(d)][Slot(gen[r])] = sendBuf[r][d]]
                 ELSE recvSlot
  /\ Retire(r, IF d = "L" THEN "putR" ELSE "unL")
  /\ UNCHANGED <<sync, ipcOk, hostVars, sendBuf, ghost, grid, msgVars>>

\* unpack_ghost from this iteration's slot.
Unpack(r, d) ==
  /\ gpc[r] = UnPc(d) /\ InStream(r)
  /\ ghost' = [ghost EXCEPT ![r][d] = IF HasNbr(r, d) THEN recvSlot[r][d][Slot(gen[r])] ELSE @]
  /\ Retire(r, IF d = "L" THEN "unR" ELSE "stencil")
  /\ UNCHANGED <<sync, ipcOk, hostVars, recvSlot, sendBuf, grid, msgVars>>

\* stencil_kernel and the swap: the next generation, if it was computed from
\* ghost columns of this one; otherwise no generation at all.
Kernel(r) ==
  /\ gpc[r] = "stencil" /\ InStream(r)
  /\ grid' = [grid EXCEPT ![r] =
                IF @ # None /\ \A d \in Side : HasNbr(r, d) => ghost[r][d] = gen[r]
                THEN gen[r] + 1 ELSE None]
  /\ gpc' = [gpc EXCEPT ![r] = "pack"]
  /\ gen' = [gen EXCEPT ![r] = @ + 1]
  /\ UNCHANGED <<sync, ipcOk, hostVars, recvSlot, sendBuf, ghost, msgVars>>

-----------------------------------------------------------------------------
(* MPI: a posted receive takes the oldest message of the side.  A column   *)
(* goes from the neighbour's send buffer, as it then is, into the slot the *)
(* receive was posted on.                                                  *)

Deliver(r, d) ==
  LET q == Nbr(r, d) IN
  /\ Expects(r, d)
  /\ pc[r] \in {"sync", "wait"} /\ rcvd[r][d] = iter[r]
  /\ sent[q][Opp(d)] > rcvd[r][d]
  /\ rcvd' = [rcvd EXCEPT ![r][d] = @ + 1]
  /\ recvSlot' = IF ipcOk[r][d] THEN recvSlot
                 ELSE [recvSlot EXCEPT ![r][d][Slot(iter[r])] = sendBuf[q][Opp(d)]]
  /\ UNCHANGED <<sync, ipcOk, hostVars, gpuVars, sendBuf, ghost, grid, sent, arrived>>

-----------------------------------------------------------------------------

Host(r) ==
  \/ Align(r) \/ LeaveAlign(r) \/ Launch(r) \/ SyncSend(r) \/ WaitAll(r)
  \/ LaunchUnpack(r) \/ Finish(r) \/ FreeWindows(r)
  \/ \E k \in 0 .. 3 : HsSkip(r, k) \/ \E l \in 0 .. 3 : HsMeet(r, k, l)

Gpu(r) ==
  \/ Memset(r) \/ Pack(r) \/ Kernel(r)
  \/ \E d \in Side : Put(r, d) \/ Unpack(r, d)

Terminated == (\A r \in Rank : pc[r] = "done") /\ UNCHANGED vars

Next ==
  \/ \E r \in Rank : Host(r) \/ Gpu(r) \/ \E d \in Side : Deliver(r, d)
  \/ Terminated

\* Each host thread runs, each GPU works its stream off, and MPI moves a
\* message whose send and receive are both posted.
Fairness ==
  \A r \in Rank : /\ WF_vars(Host(r)) /\ WF_vars(Gpu(r))
                  /\ \A d \in Side : WF_vars(Deliver(r, d))

Spec == Init /\ [][Next]_vars /\ Fairness
-----------------------------------------------------------------------------
(* Properties.                                                             *)

\* Values of every variable; the iteration never passes the loop bound.
TypeOK ==
  /\ sync \in SyncModes
  /\ ipcOk \in [Rank -> [Side -> BOOLEAN]]
  /\ iter \in [Rank -> 0 .. Total] /\ gen \in [Rank -> 0 .. Total]
  /\ pc \in [Rank -> HostPc] /\ gpc \in [Rank -> GpuPc]
  /\ recvSlot \in [Rank -> [Side -> [0 .. RECV_SLOTS - 1 -> Stamp]]]
  /\ sendBuf \in [Rank -> [Side -> Stamp]] /\ ghost \in [Rank -> [Side -> Stamp]]
  /\ grid \in [Rank -> Stamp]
  /\ sent \in [Rank -> [Side -> Nat]] /\ rcvd \in [Rank -> [Side -> Nat]]
  /\ arrived \in [Rank -> Nat]

\* The host has launched unpack_ghost on side d and the GPU has not run it.
UnpackPending(r, d) ==
  /\ HasNbr(r, d) /\ gen[r] < iter[r]
  /\ gpc[r] \notin {"stencil"} \cup (IF d = "L" THEN {"unR"} ELSE {})

\* Read after write: by the time an unpack is launched, the column of its
\* iteration is in its slot ("the neighbour must not unpack until that write
\* has landed", stencil_ipc.cu:500).
NoStaleGhost ==
  \A r \in Rank, d \in Side :
    UnpackPending(r, d) => recvSlot[r][d][Slot(gen[r])] >= gen[r]

\* Write after read: no later iteration's column reaches the slot of an
\* unpack that has not run ("the slot it reuses is always already read",
\* stencil_ipc.cu:536).
NoOverwrittenGhost ==
  \A r \in Rank, d \in Side :
    UnpackPending(r, d) => recvSlot[r][d][Slot(gen[r])] <= gen[r]

\* A rank is never two iterations ahead of a neighbour (stencil_ipc.cu:535).
DriftBound ==
  \A r \in Rank, d \in Side : HasNbr(r, d) => iter[r] <= iter[Nbr(r, d)] + 1

\* Messages pair up: a side never has more than two on their way, and none is
\* left when a rank frees its windows, so no token of a run can be taken for
\* one of a later exchange.
MessagesPair ==
  \A r \in Rank, d \in Side : HasNbr(r, d) =>
    LET flying == sent[r][d] - rcvd[Nbr(r, d)][Opp(d)] IN
    /\ flying \in 0 .. 2
    /\ (\E q \in Rank : pc[q] = "done") => flying = 0

\* The send buffer of a fallback side is not packed again while MPI may still
\* read it.
SendBufStable ==
  [][\A r \in Rank, d \in Side :
       HasNbr(r, d) /\ ~ipcOk[r][d] /\ sent[r][d] > rcvd[Nbr(r, d)][Opp(d)]
         => sendBuf'[r][d] = sendBuf[r][d]]_vars

\* Every rank finishes: the handshakes, the odd/even ordering of the Ssends
\* among them, never leave ranks waiting on each other.
Termination == <>(\A r \in Rank : pc[r] = "done")

\* The exchange implements the synchronous iteration: a strip's generation
\* only ever advances, from ghost columns of the same generation.
Reference == INSTANCE Jacobi WITH gen <- grid
JacobiSpec == Reference!Spec
=============================================================================

----------------------------- MODULE Transpose -----------------------------
(***************************************************************************)
(* transpose/transpose_ipc.cu: the transpose of a matrix in column strips, *)
(* one per GPU, over each of its transports: kernels that write into the   *)
(* peer's B (phase by phase, or one kernel for all peers), packed blocks   *)
(* copied into the peer's window, GPU-aware MPI, and MPI through the host. *)
(* A peer the window does not reach gets MPI messages instead.             *)
(*                                                                         *)
(* Every rank runs the same sequence of host steps.  The program counter   *)
(* of a host is its iteration, phase and step, and a rank has come to a    *)
(* barrier when its position has.  A block is abstracted to the number of  *)
(* times it was incremented (A) or accumulated (B).                        *)
(***************************************************************************)
EXTENDS Integers, Sequences, FiniteSets

CONSTANTS P,        \* number of ranks
          Total,    \* iterations, the untimed ones included
          Warmup,   \* untimed iterations
          Modes,    \* among "direct", "single", "buffered", "gpumpi", "staged"
          Mappings  \* sets of pairs of ranks that reach each other's window

Rank == 0 .. P - 1

ASSUME TransposeAssumption ==
  /\ P \in Nat \ {0, 1} /\ Total \in Nat \ {0} /\ Warmup \in Nat
  /\ Modes \subseteq {"direct", "single", "buffered", "gpumpi", "staged"}
  /\ {} \in Mappings
  /\ Mappings \subseteq SUBSET {p \in SUBSET Rank : Cardinality(p) = 2}

VARIABLES
  mode,      \* COMM_MODE and SINGLE_KERNEL of the build
  ipc,       \* the pairs with ipc_ok_B or ipc_ok_recv, in both directions
  pos,       \* where each host is: iteration, phase and step
  stream,    \* kernels and copies enqueued and not run
  A, B,      \* A[r][q], B[r][q]: the block of rank r's strip that faces q
  sendBuf,   \* send_buf, in direct mode fb_send
  recvBuf,   \* recv_buf, in buffered mode the window
  fbRecv,    \* fb_recv, fb_recv1
  hostSend, hostRecv,
  posted,    \* the rank of whom a receive is posted, None if of none
  msgs       \* msgs[q][r]: messages from q to r

conf == <<mode, ipc>>
bufVars == <<sendBuf, recvBuf, fbRecv, hostSend, hostRecv>>
vars == <<conf, pos, stream, A, B, bufVars, posted, msgs>>

None == -1
Empty == [from |-> None, to |-> None, value |-> None]
Held == [from |-> None, to |-> None, value |-> 0]   \* still in its sender's buffer

-----------------------------------------------------------------------------
(* The positions of a host.                                                *)

\* One phase of the transports, step by step.
PhaseStepsOneBarrier ==
  [direct   |-> << "sync", "barrier", "post", "write", "sync", "isend", "waitall",
                   "unpackFallback", "sync", "barrier" >>,
   single   |-> << "sync", "barrier", "writeAll", "sync", "barrier" >>,
   buffered |-> << "pack", "sync", "post", "copy", "sync", "isend", "waitall",
                   "barrier", "unpack", "sync" >>,
   gpumpi   |-> << "pack", "sync", "post", "isend", "waitall", "unpack" >>,
   staged   |-> << "pack", "sync", "d2h", "post", "isend", "waitall", "h2d", "unpack" >>]

PhaseSteps ==
  [direct   |-> << "sync", "barrier", "post", "write", "sync", "isend", "waitall",
                   "unpackFallback", "sync", "barrier" >>,
   single   |-> << "sync", "barrier", "writeAll", "sync", "barrier" >>,
   buffered |-> << "pack", "sync", "post", "copy", "sync", "isend", "waitall",
                   "barrier", "unpack", "sync", "barrier" >>,
   gpumpi   |-> << "pack", "sync", "post", "isend", "waitall", "unpack" >>,
   staged   |-> << "pack", "sync", "d2h", "post", "isend", "waitall", "h2d", "unpack" >>]

LastPhase == IF mode = "single" THEN 1 ELSE P - 1

\* What a host does in an iteration: the local block, the phases, the end.  The
\* start and the end of the program are iterations -1 and Total.
Steps(p) ==
  IF p.iter = -1 THEN << "init", "sync", "barrier" >>
  ELSE IF p.iter = Total THEN << "sync", "barrier", "verify" >>
  ELSE IF p.phase = 0 THEN (IF p.iter = Warmup THEN << "sync", "barrier", "local" >> ELSE << "local" >>)
  ELSE IF p.phase > LastPhase THEN << "sync" >>
  ELSE PhaseSteps[mode]
LastSection(i) == IF i \in 0 .. Total - 1 THEN LastPhase + 1 ELSE 0

Start == [iter |-> -1, phase |-> 0, step |-> 1]
Done == [iter |-> Total, phase |-> 0, step |-> 4]
Following(p) ==
  IF p.step < Len(Steps(p)) \/ p.iter = Total THEN [p EXCEPT !.step = @ + 1]
  ELSE IF p.phase < LastSection(p.iter) THEN [p EXCEPT !.phase = @ + 1, !.step = 1]
  ELSE [iter |-> p.iter + 1, phase |-> 0, step |-> 1]

\* Position o is p or comes after it.
AtLeast(o, p) ==
  \/ o.iter > p.iter
  \/ o.iter = p.iter /\ o.phase > p.phase
  \/ o.iter = p.iter /\ o.phase = p.phase /\ o.step >= p.step

Doing(r, what) == pos[r] # Done /\ Steps(pos[r])[pos[r].step] = what
phase(r) == pos[r].phase
send_to(r) == (r - phase(r) + P) % P
recv_fromSame(r) == (r - phase(r) + P) % P
recv_from(r) == (r + phase(r)) % P

TwoSided == mode \in {"gpumpi", "staged"}
IpcOk(r, q) == {r, q} \in ipc

-----------------------------------------------------------------------------

\* B and the buffers are not initialised yet.  In single-kernel mode the
\* program refuses to run unless it reaches every peer.
Init ==
  /\ mode \in Modes
  /\ ipc \in Mappings /\ (TwoSided => ipc = {})
  /\ mode = "single" => \A r, q \in Rank : r # q => {r, q} \in ipc
  /\ pos = [r \in Rank |-> Start]
  /\ stream = [r \in Rank |-> <<>>]
  /\ A = [r \in Rank |-> [q \in Rank |-> None]]
  /\ B = [r \in Rank |-> [q \in Rank |-> None]]
  /\ sendBuf = [r \in Rank |-> Empty] /\ recvBuf = [r \in Rank |-> Empty]
  /\ fbRecv = [r \in Rank |-> Empty]
  /\ hostSend = [r \in Rank |-> Empty] /\ hostRecv = [r \in Rank |-> Empty]
  /\ posted = [r \in Rank |-> None]
  /\ msgs = [q \in Rank |-> [r \in Rank |-> <<>>]]

GoOn(r) == pos' = [pos EXCEPT ![r] = Following(@)]

\* cudaStreamSynchronize, cudaDeviceSynchronize.
DrainedButOne(r) == Len(stream[r]) <= 1
Drained(r) == stream[r] = <<>>
Sync(r) ==
  /\ Doing(r, "sync")
  /\ Drained(r)
  /\ GoOn(r)
  /\ UNCHANGED <<conf, stream, A, B, bufVars, posted, msgs>>

Barrier(r) ==
  /\ Doing(r, "barrier")
  /\ \A q \in Rank : AtLeast(pos[q], pos[r])
  /\ GoOn(r)
  /\ UNCHANGED <<conf, stream, A, B, bufVars, posted, msgs>>

\* What a launch puts on the stream, as <<what, peer>>.
WritesOfAllRanks(r) == [k \in 1 .. P |-> <<"write", (r - k + P) % P>>]
WritesOfAll(r) == [k \in 1 .. P - 1 |-> <<"write", (r - k + P) % P>>]
Launched(r) ==
  LET do == Steps(pos[r])[pos[r].step]
      to == send_to(r)  from == recv_from(r) IN
  CASE do = "init"  -> << <<"init", r>> >>
    [] do = "local" -> << <<"write", r>> >>
    [] do = "write" -> IF IpcOk(r, to) THEN << <<"write", to>> >> ELSE << <<"pack", to>> >>
    [] do = "writeAll" -> WritesOfAll(r)
    [] do = "pack"  -> << <<"pack", to>> >>
    [] do = "copy"  -> IF IpcOk(r, to) THEN << <<"copy", to>> >> ELSE <<>>
    [] do = "unpackFallback" -> IF IpcOk(r, from) THEN <<>> ELSE << <<"unpack", from>> >>
    [] do = "unpack" -> << <<"unpack", from>> >>
Launch(r) ==
  /\ \E do \in {"init", "local", "write", "writeAll", "pack", "copy", "unpackFallback", "unpack"} :
       Doing(r, do)
  /\ stream' = [stream EXCEPT ![r] = @ \o Launched(r)]
  /\ GoOn(r)
  /\ UNCHANGED <<conf, A, B, bufVars, posted, msgs>>

\* MPI_Irecv from a peer that cannot write here; the receive of MPI_Sendrecv.
Post(r) ==
  /\ Doing(r, "post")
  /\ posted' = IF IpcOk(r, recv_from(r)) THEN posted ELSE [posted EXCEPT ![r] = recv_from(r)]
  /\ GoOn(r)
  /\ UNCHANGED <<conf, stream, A, B, bufVars, msgs>>

Isend(r) ==
  /\ Doing(r, "isend")
  /\ msgs' = IF IpcOk(r, send_to(r)) THEN msgs ELSE [msgs EXCEPT ![r][send_to(r)] = Append(@, Held)]
  /\ GoOn(r)
  /\ UNCHANGED <<conf, stream, A, B, bufVars, posted>>

\* MPI_Waitall; the end of MPI_Sendrecv.
SentAny(r) == TRUE
AllSent(r) == \A q \in Rank : \A i \in DOMAIN msgs[r][q] : msgs[r][q][i] # Held
Received(r) == posted[r] = None
Waitall(r) ==
  /\ Doing(r, "waitall")
  /\ Received(r) /\ AllSent(r)
  /\ GoOn(r)
  /\ UNCHANGED <<conf, stream, A, B, bufVars, posted, msgs>>

\* cudaMemcpy between host and device, which waits for the stream.
CopyToHost(r) ==
  /\ Doing(r, "d2h") /\ Drained(r)
  /\ hostSend' = [hostSend EXCEPT ![r] = sendBuf[r]]
  /\ GoOn(r)
  /\ UNCHANGED <<conf, stream, A, B, sendBuf, recvBuf, fbRecv, hostRecv, posted, msgs>>

CopyToDevice(r) ==
  /\ Doing(r, "h2d") /\ Drained(r)
  /\ recvBuf' = [recvBuf EXCEPT ![r] = hostRecv[r]]
  /\ GoOn(r)
  /\ UNCHANGED <<conf, stream, A, B, sendBuf, fbRecv, hostSend, hostRecv, posted, msgs>>

\* The strip is copied to the host and checked; then the windows are freed.
Verify(r) ==
  /\ Doing(r, "verify")
  /\ GoOn(r)
  /\ UNCHANGED <<conf, stream, A, B, bufVars, posted, msgs>>

-----------------------------------------------------------------------------
(* The GPU.                                                                *)

\* B += block: right if it is the block's next value.
Sum(b, value) == IF b # None /\ value = b THEN b + 1 ELSE None

InitKernel(r) ==
  /\ A' = [A EXCEPT ![r] = [q \in Rank |-> 0]]
  /\ B' = [B EXCEPT ![r] = [q \in Rank |-> 0]]
  /\ UNCHANGED bufVars

\* transpose_kernel and a peer's part of transpose_all_peers_kernel: read the
\* block, increment it, add it to the strip of q or pack it.
Write(r, q) ==
  /\ A' = [A EXCEPT ![r][q] = @ + 1]
  /\ B' = [B EXCEPT ![q][r] = Sum(@, A[r][q])]
  /\ UNCHANGED bufVars
Pack(r, q) ==
  /\ A' = [A EXCEPT ![r][q] = @ + 1]
  /\ sendBuf' = [sendBuf EXCEPT ![r] = [from |-> r, to |-> q, value |-> A[r][q]]]
  /\ UNCHANGED <<B, recvBuf, fbRecv, hostSend, hostRecv>>

Copy(r, q) ==
  /\ recvBuf' = [recvBuf EXCEPT ![q] = sendBuf[r]]
  /\ UNCHANGED <<A, B, sendBuf, fbRecv, hostSend, hostRecv>>

\* The buffer an unpack of q's block reads.
Source(r, q) ==
  IF mode = "direct" \/ (mode = "buffered" /\ ~IpcOk(r, q)) THEN fbRecv[r] ELSE recvBuf[r]
Unpack(r, q) ==
  LET b == Source(r, q) IN
  /\ B' = [B EXCEPT ![r][q] = IF b.from = q /\ b.to = r THEN Sum(@, b.value) ELSE None]
  /\ UNCHANGED <<A, bufVars>>

Run(r) ==
  /\ stream[r] # <<>>
  /\ LET op == Head(stream[r])[1]  q == Head(stream[r])[2] IN
     \/ op = "init" /\ InitKernel(r)
     \/ op = "write" /\ Write(r, q)
     \/ op = "pack" /\ Pack(r, q)
     \/ op = "copy" /\ Copy(r, q)
     \/ op = "unpack" /\ Unpack(r, q)
  /\ stream' = [stream EXCEPT ![r] = Tail(@)]
  /\ UNCHANGED <<conf, pos, posted, msgs>>

-----------------------------------------------------------------------------
(* MPI.  A message may be buffered by the library, which completes the     *)
(* send, or stay with its sender until its receive is posted.              *)

Packed(q) == IF mode = "staged" THEN hostSend[q] ELSE sendBuf[q]

Buffer(q, r) ==
  /\ \E i \in DOMAIN msgs[q][r] :
       msgs[q][r][i] = Held /\ msgs' = [msgs EXCEPT ![q][r][i] = Packed(q)]
  /\ UNCHANGED <<conf, pos, stream, A, B, bufVars, posted>>

Deliver(q, r) ==
  /\ posted[r] = q /\ msgs[q][r] # <<>>
  /\ LET m == IF Head(msgs[q][r]) = Held THEN Packed(q) ELSE Head(msgs[q][r]) IN
     /\ hostRecv' = IF mode = "staged" THEN [hostRecv EXCEPT ![r] = m] ELSE hostRecv
     /\ recvBuf' = IF mode = "gpumpi" THEN [recvBuf EXCEPT ![r] = m] ELSE recvBuf
     /\ fbRecv' = IF TwoSided THEN fbRecv ELSE [fbRecv EXCEPT ![r] = m]
  /\ msgs' = [msgs EXCEPT ![q][r] = Tail(@)]
  /\ posted' = [posted EXCEPT ![r] = None]
  /\ UNCHANGED <<conf, pos, stream, A, B, sendBuf, hostSend>>

-----------------------------------------------------------------------------

Host(r) ==
  \/ Sync(r) \/ Barrier(r) \/ Launch(r) \/ Post(r) \/ Isend(r) \/ Waitall(r)
  \/ CopyToHost(r) \/ CopyToDevice(r) \/ Verify(r)

Terminated == (\A r \in Rank : pos[r] = Done) /\ UNCHANGED vars

Next ==
  \/ \E r \in Rank : Host(r) \/ Run(r)
  \/ \E q, r \in Rank : Buffer(q, r) \/ Deliver(q, r)
  \/ Terminated

\* Hosts run, streams are worked off, and MPI moves a message whose send and
\* receive are both posted.
Fairness ==
  /\ \A r \in Rank : WF_vars(Host(r)) /\ WF_vars(Run(r))
  /\ \A q, r \in Rank : WF_vars(Deliver(q, r))

Spec == Init /\ [][Next]_vars /\ Fairness
-----------------------------------------------------------------------------
(* Properties.                                                             *)

Block == [from : Rank \cup {None}, to : Rank \cup {None}, value : {None} \cup 0 .. Total]

\* Values of every variable; no block is accumulated more often than there are
\* iterations.
TypeOK ==
  /\ mode \in Modes /\ ipc \in Mappings
  /\ pos \in [Rank -> [iter : -1 .. Total, phase : 0 .. P, step : 1 .. 12]]
  /\ \A r \in Rank : \A i \in DOMAIN stream[r] :
       stream[r][i] \in {"init", "write", "pack", "copy", "unpack"} \X Rank
  /\ A \in [Rank -> [Rank -> {None} \cup 0 .. Total]] /\ B \in [Rank -> [Rank -> {None} \cup 0 .. Total]]
  /\ \A b \in {sendBuf, recvBuf, fbRecv, hostSend, hostRecv} : b \in [Rank -> Block]
  /\ posted \in [Rank -> Rank \cup {None}]
  /\ \A q, r \in Rank : \A i \in DOMAIN msgs[q][r] : msgs[q][r][i] \in Block

\* Every strip the program verifies is complete: each block of each peer went
\* in once for each iteration, in order, from the value A had in it.
BlocksExact ==
  \A r \in Rank : Doing(r, "verify") => \A q \in Rank : B[r][q] = Total

\* From its launch until it has run, an unpack finds the block of its phase in
\* the one buffer all phases share.
UnpacksExact ==
  \A r \in Rank : \A i \in DOMAIN stream[r] : stream[r][i][1] = "unpack" =>
    LET q == stream[r][i][2] IN
    Source(r, q) = [from |-> q, to |-> r, value |-> B[r][q]]

\* When a rank has verified it frees its window, and by then no kernel or copy
\* of a peer, and no message, is on its way to it.
QuietAtFree ==
  \A r \in Rank : pos[r] = Done =>
    \A q \in Rank : /\ msgs[q][r] = <<>>
                    /\ \A i \in DOMAIN stream[q] : stream[q][i] \notin {<<"write", r>>, <<"copy", r>>}

\* Every rank comes to the end, with any mixture of transports.
Termination == <>(\A r \in Rank : pos[r] = Done)
=============================================================================

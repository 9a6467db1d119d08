# Verification of the CUDA IPC benchmarks

TLA+ models of the protocols in this repository, checked with TLC and, for the stencil,
the transpose, the interposer, the token backends, the halo layout and the pace of the
cycle of LULESH, proved with TLAPS. The programs here move halo data between GPUs by one
process writing straight into another's memory; nothing but a few tokens, barriers and
stream synchronisations decides whether the right word is there when a kernel reads it.
That is what is modelled, and for the four versions of LULESH whether each kernel reads
the right generation of its fields. Arithmetic, timing and output are not.

## 1. The system

| Component | Source | State it keeps | Operations |
|---|---|---|---|
| WinIPC interposer | `mpi-intercept/mpiwrap_ipc.cc` | per window: handles, opened mappings, probe verdict, fabric or CUDA IPC | `MPI_Win_allocate`, `MPI_Win_create`, delivery probe, `MPI_Win_shared_query`, `MPI_Win_free` |
| Stencil | `stencil/stencil_ipc.cu` | two receive slots and a send buffer per side, ghost columns, the strip, the iteration | pack, put or send, handshake (barrier, neighbor, ssend), unpack, kernel, teardown |
| Transpose | `transpose/transpose_ipc.cu` | strips A and B, one send and one receive buffer, fallback and host buffers | five transports of a phased all-to-all, verification, teardown |
| LULESH token backends | `LULESH/cuda/src/comm/comm_ipc_common.h` and the three files built on it | ready and delivered tokens, peer mappings, requests, send and receive buffer | `CommRecv`, `CommSendGpu`, `CommSBNGpu` / `CommSyncPosVelGpu` / `CommMonoQGpu`, teardown |
| LULESH halo layout | `comm_backend.h`, `lulesh-comms.cu`, `lulesh-comms-gpu.cu`, `lulesh-comms-direct.cu` | the order and offset of up to 26 messages | posting, packing, sending and unpacking walks, index maps |
| LULESH barrier and two-sided backends | `comm_direct.h`, `comm_shmwin.h`, `comm_nvshmem.h`, `comm_gpumpi.h`, `comm_staged.h` | receive buffers | the same walks with barriers or plain MPI |
| LULESH driver | `lulesh.cu`, `lulesh.h` | mesh decomposition, buffers, cycle, time step, fields on the device, flags in pinned memory | the kernels and the three exchanges of a cycle, the time-step reduction, the checks, start and end |
| Upstream LULESH ports | `LULESH/omp_4.0`, `LULESH/openacc`, `LULESH/stdpar` | a copy of every field on the host and on the device | the same cycle with data clauses, asynchronous queues and host MPI |
| Baselines, tests, scripts | the other `.cu`, `.cc`, `.py`, `.sh` files | - | - |

**Interactions.** The interposer is called by stencil, transpose and LULESH for
windows over GPU memory; ranks share that memory and MPI's collectives and messages,
nothing else. In every program a rank is a host thread and a GPU: the host only
enqueues work and learns that it ran at the next stream or device synchronisation,
so host and GPU are two processes of the model. LULESH's driver calls one of seven
communication backends, chosen at compile time, through the same three walks.

**What is hard, and what correctness means.**

* *WinIPC.* A driver may report access to a peer whose stores never arrive, or arrive
  one way only, so the probe writes sentinels into live memory. Its verdict must be
  the truth in the caller's direction; ranks must agree on every collective; the memory
  must come back unharmed; no call may hang.
* *Stencil.* Neighbours drift. A column must have landed before it is unpacked and
  must not be replaced before that, with two slots (token handshakes) or one
  (barrier). `MPI_Ssend` handshakes must not form a ring. Both ends of a side must
  agree on the transport. A fallback buffer must stay untouched while MPI reads it.
* *LULESH tokens.* Three kinds of exchange share one receive buffer, laid out
  differently; the second goes one way only and gives its sender no answer. Ready
  tokens must keep early writers out, delivered tokens must mean that words landed, a
  tag must never serve two messages at once, and a rank frees its buffer with no
  barrier.
* *LULESH layout.* Each of six functions walks its own list of 26 neighbours with its
  own counters. One guard that differs sends words to the wrong nodes, on some ranks
  and in some exchanges only.
* *Transpose.* One buffer for all phases, and transports mixed pair by pair; every
  block must be accumulated exactly once per iteration.

* *LULESH versions.* Some thirty functions a cycle move some thirty fields between
  two memories, by data clauses, explicit updates, asynchronous queues, streams and
  messages. One clause or one wait too few and a kernel computes from the values of
  the last cycle, without a sign. A mesh that has gone bad must stop the run, but the
  flags are set on one side and read on the other.

`PROJECT.json` lists each hazard at its line with the properties that would catch it.

## 2. The modules

| Module | Role |
|---|---|
| `Jacobi` | what a ghost exchange promises: synchronous iteration of strips |
| `Stencil` | the ghost exchange of `stencil_ipc.cu` |
| `StencilInv`, `StencilProof` | its inductive invariant and the proofs |
| `PeerWindow` | what a window over GPU memory promises an application |
| `WinIPC` | the life of one window in the interposer |
| `WinIPCInv`, `WinIPCProof`, `PeerWindowProof` | its inductive invariant, the proofs, and the proof of its refinement |
| `HaloLayout` | where each word of a LULESH exchange goes |
| `HaloLayoutInv`, `HaloLayoutProof`, `HaloWordsProof` | its inductive invariants, and the proofs about the walks and about the words |
| `HaloExchange` | what a LULESH backend promises: every rank leaves an exchange with what its neighbours contributed to that exchange |
| `HaloTokens` | the token backends over the exchanges of the run |
| `HaloTokensInv`, `HaloTokensProof` | its inductive invariant and the proofs |
| `Transpose` | the five transports of `transpose_ipc.cu` |
| `TransposeInv`, `TransposeProof` | its inductive invariant and the proofs |
| `LagrangeCycle` | what a cycle of LULESH computes from what; `LagrangeCycleProof` proves about it |
| `Offload` | the instructions the programs of the versions are written in |
| `LuleshOmp`, `LuleshAcc`, `LuleshStdpar`, `LuleshCuda` | the programs: one operator per function of the source |
| `Ports` | the machine that runs them: hosts, devices, queues, messages |
| `MC...` | instances for TLC |

Refinements: `Stencil` implements `Jacobi`, `WinIPC` implements `PeerWindow`,
`HaloTokens` implements `HaloExchange`, `Ports` implements `LagrangeCycle`. `HaloTokens` uses a result of `HaloLayout`:
within one exchange the messages in a buffer are disjoint (`BuffersFit`) and each
goes where its receiver reads it (`PutsMatchPosts`, `WaitCoversRead`), so that a complete
exchange is exact (`ExchangeExact`), all four proved for every size of the cube; between
exchanges nothing is assumed, and a message is taken to destroy all those of others.

### Stencil

One action per host step of the loop body, one per operation of the default stream,
`Deliver` for MPI. The stream is in order, so its content is what lies between the
GPU's position `(gen, gpc)` and the host's `(iter, pc)`; no queue is kept. A column is
abstracted to the iteration it was packed in; a strip (`grid`) to its generation, which
`Kernel` advances only if the ghost columns are of the same generation. Messages of a
side are counted, since they are received in the order sent. `HsSkip` and `HsMeet` are
the four steps of the `ssend` handshake: a step on a side without a token is skipped, a
send and a receive meet. Which sides have a mapping is chosen in `Init`, the same from
both ends (`README.md:103` of the repository states that assumption).

### WinIPC

Each collective is entered and left (`Enter`, `Leaves`), so ranks may differ in how far
out of it they are; what happens between two collectives is one action. A rank's memory
has one cell per peer, the word that peer's sentinel goes to and where the application
stores later; cells start live or, from an earlier window, holding the sentinels. A
machine says which pairs the driver grants access, which handles open, whose stores
arrive, whether ranks span nodes, where fabric handles exist and on which ranks the probe
is switched on (`verify`), since each rank reads `WINIPC_VERIFY_PEERS` in its own
environment. The refinement to `PeerWindow` counts as the content of a rank's memory what the rank has set aside while
the probe uses it.

### HaloLayout

A receiver `me` goes row by row through its posting walk, its neighbours deposit their
messages (through MPI into the posting, by a put at `shmRecvOffset`, or straight into
the fields), and `me` goes through the unpacking walk. The words are abstracted to their
origin (rank, field, index). The list of every function is written down separately, in
the order of that function, because their agreement is the question.

### HaloTokens

Host, send stream and unpack streams of every rank, tokens and messages by channel. A
step of the host is the part of `CommRecv`, `CommSendGpu` or an unpack function between
two points at which it can block. `Row[r][q]` says which of the 26 neighbours `q` is of
`r`, which gives the class (face, edge, corner) and the order of the walks. A buffer is
the set of messages in it that are intact. Unpacks may run in any order: the nodal
exchanges use a stream for each message; for the gradients, which use one stream, this
allows more than the code does. Messages may be buffered by the MPI library, which
completes the send, or not.

### Transpose

Every rank runs the same sequence of steps, so a host is a position: iteration, phase and
step. `PhaseSteps` lists the steps of a phase for each transport, `Following` is the next
position, and a rank has arrived at a barrier when its position has (`AtLeast`). Kernels and copies are queued on the stream. A block of A
is abstracted to how often it was incremented, a block of B to how often it was
accumulated, and becomes `None` when a wrong or repeated value is added.

### The versions of LULESH

Each program module has one operator per function of the source, under its name, whose
value is a sequence of instructions: a kernel with the fields it reads and writes, a
data clause, an update of one of the two memories, a wait, a message, a check. `Ports`
executes the instructions of a rank's host one by one; what is put on a queue or a
stream is executed by the device at any later time the order of the queues allows
(`Ordered`: in CUDA the default stream waits for all others and they for it). The
three coordinates of a vector are one field, the regions of the material one pass, and
arithmetic is replaced by provenance: a datum is `<<rank, field, generation>>`, a copy
of a field is the set of data it was computed from. `Store` starts a new generation of
one of the fields that outlive a cycle and records in `used` what it was computed from.
`LagrangeCycle` states the same for the algorithm alone (`Recipe`), and `SameDataflow`
compares the two. A copy that was not updated, a message that came too late or a buffer
that was overwritten show as a foreign generation or as `Garbage`.

OpenMP's reference counts are kept, since a data clause copies only what is not present
yet (`Region`, `Enter`, `Exit`); with `offload` FALSE the clauses do nothing and all
kernels run on the host, as the builds without an accelerator do. The messages of a
phase are kept for each pair of ranks; receives are posted, matched in the order sent,
and land in a buffer that all phases share, so that a message destroys those of other
phases that have not been unpacked. A put of the one-sided backends needs no receive: it
lands at any time after the stream has run it, in that buffer or, for `direct`, in the
fields themselves, and all that orders it are the barriers (`Arrive`, `Meet`), the
synchronisations of the device and the wait for the puts (`Landed`). What `direct` sets
aside to send stands, like everything packed, in the host's copy. `eager` says whether MPI
takes a message before its receive is posted. A build may contain a fault: the cycle in which a volume or a
viscosity of a rank goes bad; a check sees it if what it reads depends on that datum.

## 3. The runs

| Run | Instance | Shows |
|---|---|---|
| `stencil_handshakes` | 3 ranks, 3 iterations, all three handshakes, all mixtures of transports, zero-byte sends complete only when matched | unpacks never come too early, send buffers are stable, all ranks finish |
| `stencil_slots` | 3 ranks, 4 iterations, token handshakes, sends complete at once | two slots are enough, drift is at most one iteration, tokens pair up, refinement of `Jacobi`, the inductive invariant |
| `stencil_barrier` | 2 ranks, barrier handshake | **violation**, finding 1 |
| `stencil_warmup` | 2 ranks, one warmup iteration | **violation**, finding 2 |
| `window_life` | 3 ranks, eight machines, both calls, any vote, aborts | exact verdict, matching collectives, refinement of `PeerWindow`, every call returns, the inductive invariant |
| `window_readme` | the README's example | **violation**, finding 3 |
| `window_nomem` | `cudaMalloc` fails on a rank | **violation**, finding 4 |
| `halo_layout` | 8 ranks with 2 and 4 elements a side and 27 ranks with one, each receiver, exchange and transport | the walks agree, every word arrives exactly once, the inductive invariant (which contains the types) |
| `halo_tokens` | a face, an edge and a corner pair; six exchanges (two cycles), four sets of mappings, both packings | unpacks are exact, one tag per exchange suffices, quiet teardown, termination, refinement of `HaloExchange`, the inductive invariant |
| `transpose` | 3 ranks, 2 iterations, 1 warmup, five transports, every set of mappings | blocks are exact, buffers are not reused early, quiet free, termination, the inductive invariant (which contains the types) |
| `ports` | up to four cycles; each version alone, OpenMP and OpenACC teams with host kernels, an OpenACC team on devices over an edge, CUDA teams over `gpumpi`, `shmwin`, `nvshmem` and `direct`; faults in the first or second cycle | right generations everywhere, bad meshes stop the run, last energies printed, messages all received, ranks in step, refinement of `LagrangeCycle` |
| `ports_staged` | CUDA, two ranks over `staged`, two cycles | **violation**, finding 5 |

**Why the bounds are enough to be interesting.** Three stencil ranks have both ends and
a middle, and both parities of the handshake; four iterations use each slot twice. In
`WinIPC` a third rank can be beyond an island boundary the other two are not, which a
one-way failure needs; the eight machines have the probe on for all ranks or for none. A cube of eight makes every rank a corner of the mesh, so that
every guard is false somewhere; the middle rank of 27 has all 26 neighbours. With four
elements a side planes are larger than a cache line and edges smaller; one element a
side makes all planes and edges meet. In `HaloTokens` the three ranks are face, edge and
corner neighbours of each other, so direct puts, puts from fields and messages all occur,
and a ring of waits is possible; the second cycle has the reduction and repeats each tag.
Three ranks are the least for which the partners of a transpose phase differ. In `ports`
three cycles are the first (no reduction), one that starts from the other's results, and
one more, so that a copy one or two generations old is told from the current one. CUDA may
take two cycles to notice a bad viscosity (`Delay`), so one of its builds has the fault in
the first of four. The teams hold a face, an edge and a corner
pair (ranks 0, 1, 4 and 13 of a cube of 27) and a pair that does not touch (0 and 2), which
only the reduction keeps in step; pairs are enough to make a receiver run late or a sender
run ahead, and the messages of the ranks left out are left out on both ends. Teams of three
run one cycle (OpenMP's ranks 0, 1 and 4; `direct`'s ranks 0, 1 and 2 in a row: a share
counted twice shows in a rank that does not touch its owner); pairs and single ranks run
three, but the pair of OpenACC on devices two. That pair shares an edge only: over a face the
gradients would be exchanged too, which fails (section 5), and what it is there for, the updates
of the host's copies on asynchronous queues around the other two exchanges, is the same. The mappings of
`halo_tokens` have each of the three pairs with and without a mapping. Deadlock is
checked in every passing run.

**Fairness.** Weak fairness of every host thread, every GPU stream and MPI's delivery of
a message whose send and receive are both posted: an operating system runs a thread, a
GPU works off its stream, and MPI guarantees progress of matched operations. Nothing is
assumed of when the library buffers a message. `Ports` states no fairness and no
liveness property: every step but stuttering at the end moves a rank forward in a program
of finite length, so the absence of a deadlock, which TLC checks, is all that termination
needs. No strong fairness is used. A passing
liveness property relies on nothing else.

## 4. What is proved

`StencilProof` proves, for every number of ranks and iterations:

* `TypeCorrect` - the types, for all handshakes;
* `TokenInvariant` - `IInv` is an invariant of a token run;
* `GhostsFresh` - every unpack reads exactly the column of its iteration;
* `DriftBounded` - neighbours are at most one iteration apart;
* `ImplementsJacobi` - every step advances one strip from ghosts of its generation, or
  leaves all strips as they are.

The last four assume a *token run* (`TokenRun`): handshake `neighbor` or `ssend` and no
warmup. Both conditions are needed: without them the properties fail (findings 1
and 2). They also rest on the named assumptions of `Stencil` about its constants.

A last section adds, for the same token runs,

* `MessagesArePaired` - at most two messages of a side are on their way, and none when a
  rank frees its windows;
* `SendBufferStable` - no send buffer is packed while MPI reads it;
* `NoGhostStale` - no unpack is launched before its column has landed.

The first needs one more invariant, `EndInv`: the last barrier is entered by ranks that are
through their last iteration, so when one has left it no rank has anything to receive.

`LagrangeCycleProof` proves `RanksInStep` - in any execution the recipes of the cycle allow,
with any number of ranks, teams and cycles, no rank is more than one time step ahead of
another. A time step needs the constraints of all ranks for the previous one (`Recipe`), and
these need the time step of their own rank; the invariant orders the generations along that
chain. By the refinement the result holds of each version.

That a slot holds the right column is not inductive: one has to know that the neighbour
is not two iterations ahead, for that, that it received a token, and for that, what the
tokens sent so far say about where both hosts are and what their GPUs have run.
`IInv` therefore connects, from the outside in, the positions of host and GPU
(`StreamInv`), the start (`AlignInv`, which says that no window is being cleared any
more), message counters and positions (`CountInv`, `PairInv`), and the data
(`SendBufInv`, `SlotInv`: the two slots hold the last two columns written, `GhostInv`,
`GridInv`). The proof has one lemma per action, with a step per conjunct. TLC checks
`IInv` in `stencil_slots`.

`WinIPCProof` proves, for every number of ranks, every machine, vote and call:

* `Typed` - the types;
* `WindowInvariant` - `WindowInv` is an invariant;
* `VerdictIsExact` - a rank's verdict on a peer is whether its own stores arrive there;
* `CollectivesAgree` - ranks in a collective are in the same one;
* `SelfQueries` - a rank that queries itself gets an answer.

All but the first assume `UniformSwitch`: on each machine the probe is on for all ranks or
off for all. Nothing in the code ensures it, and without it the ranks do not agree
(section 5). The invariant rests on a count. How many collectives a rank has entered is
fixed by where it is and by what the ranks have agreed on (`Schedule`: the path splits at
the vote on fabric handles, at the switch and at the vote on the probe, and at each split
the ranks must be known to take the same side), and no rank is more than one collective
ahead (`Barriers`). Three collectives separate the clearing of the probed cells, the writing of
the sentinels and their inspection; hence a cell holds the sentinel exactly if the peer has
come to it and its stores arrive (`Cells`), and what was seen is exact (`SeenExact`).
`PeerWindowProof` proves `ImplementsPeerWindow`, that every step of `WinIPC` is one of
`PeerWindow` or leaves it as it is, under the same assumption and for applications that
align after the call (`AppSync`); without that it is false (finding 3).

`HaloTokensProof` proves, for every number of ranks and exchanges, every neighbourhood
that is the same from both ends (`RowAssumption`), all mappings and both packings:

* `TokensInvariant` - `TokensInv` is an invariant; `TypesHold` - the types;
* `UnpacksAreExact` - every unpack reads the message of its own exchange;
* `TagsAreEnough` - a tag never serves two messages at once;
* `TeardownIsQuiet` - a rank that frees its buffer leaves nothing behind in its channels;
* `ImplementsExchange` - a rank leaves an exchange with what its neighbours contributed to
  that one (the step part of the refinement of `HaloExchange`).

A token has no content, so all that it says is where its channel stands. The invariant
gives each channel (sender, receiver, kind of exchange) the numbers of postings, messages
handed over, flushes, waits and receipts, all of them functions of where the two hosts are,
and says that the tokens under way are their differences (`Counts`). Together with the
reduction, which alone holds back a sender of a one-way exchange (`Pace`), this keeps a
sender at most one message ahead of its receiver (lemma `Window`). The data follow: the
message in a channel is the last one handed over (`Messages`), what has been handed over and
has landed stays until it is unpacked (`Buffers`), and a put aimed at a buffer belongs to
the exchange its receiver is in (lemma `SameExchange`). There is one lemma per action for
each part of the invariant.

`TransposeProof` proves, for every number of ranks and iterations, any warmup, all five
transports and every set of pairs that reach each other's window:

* `TransposeInvariant` - `TransposeInv` is an invariant; `TypeCorrect` - the types;
* `UnpackFindsItsBlock` - from its launch until it has run, an unpack finds the block of
  its phase in the one buffer all phases share;
* `StripsComplete` - a strip that is verified holds each block once for each iteration;
* `NothingOnItsWay` - a window is freed with nothing on its way to it.

Every number of the model is a function of where the hosts are: `Times` says how often a
host has come past a given step of a given phase, and the invariant says that a block of A
or B is worth the number of launches less the one a stream still holds (`Blocks`), that a
message carries the number of its iteration (`Channels`), and what the buffers hold while a
phase needs them (`SendBufs`, `Copies`, `Receives`). Two parts carry the rest. `Streams`
says in which positions of its host a kernel or copy can still be in the stream, which is
between its launch and the next synchronisation; `gpumpi` and `staged` have none after the
unpack, so there an unpack may be followed by the pack of the next phase, and the local
block by that of the first. `Barriers` says that whoever is past a barrier knows all ranks
have come to it. From them follow the two facts about several ranks: in `buffered`, no two
copies into a window can be under way at once (lemma `OneCopier`), and none while the
owner's unpack is (`NoCopyBeforeUnpack`), for which the second barrier of a phase is needed;
in the other modes `B` is written by its owner's stream and by at most one peer's kernel for
each block. The proof has lemmas for what a host step, a step of a stream and a step of MPI
do to each part of the invariant, and at the end `PastTheEnd`: behind the last barrier all
streams are empty and all counts are `Total`.

`HaloLayoutProof` proves, for every number of ranks per side, every number of elements per
rank, all four exchanges and all four paths of a message:

* `LayoutInvariant` - `LayoutInv` is an invariant; `LayoutTyped` - the types;
* `MessagesFit` - receives do not overlap, packed messages do not, and both stay within
  the buffer `SetupCommBuffers` allocates;
* `PutsAgree` - a neighbour's message has exactly one receive, of its length, where
  `shmRecvOffset` says, and no receive is left over;
* `WaitsAgree` - an unpack waits for the request of the message it reads.

The only assumption is `LayoutAssumption`: at least one rank per side and one element per
rank. `InitMeshDecomp` ensures the former; the latter is a number of the command line
(`lulesh.cu:4794`), which the program does not check and without which there is no mesh.
Sizes are unbounded integers: that the index arithmetic of a huge mesh fits an `Index_t` is
not shown. The first lemmas compare the tables: the
lists of the functions are equal row by row, those written as distances between ranks
(`DeltaTable`) included, and the position `CommSendGpu` names is the row's mirror image
(`SendArgs`). Then the geometry: a rank is its three coordinates (`PlaceOfRank`,
`LocTyped`), so that different rows lead to different ranks and none to the rank itself,
even where a row of ranks and a plane of ranks are equally far apart, in a cube of one
or two. A rank therefore expects a row exactly if the rank there sends the mirrored one. The
invariant makes the counters a function of the row (`CntAt`), so that two walks over equal
tables with equal guards agree at each row, and says which receives the rows passed have
left. Offsets grow with the counters by at least the length of a message (`Lengths`,
`OffsetMonotone`), which gives disjointness; the number of rows a walk takes of a class is at
most the number of neighbours of that class (`TakenWithinNbrs`), by which `SetupCommBuffers`
sizes the buffer (`WalkFits`).

`HaloWordsProof` goes on to the words themselves, under the same assumption and again for
every size, exchange and path:

* `ExchangeInvariant` - `ExchangeInv`, which is `LayoutInv` and `WordsInv`, is an invariant;
* `WordsArrive` - `ExchangeExact`: when the receiver is done, each node it shares with
  another rank has that rank's word for the same node of the mesh, once per field, each
  ghost place of the gradients holds the element across the face, and nothing else has
  been written.

`LayoutInv` alone does not say what is in the buffer. `WordsInv` does: every message that
has landed is there complete, at the place of its row, each word taken from the mirrored
row of the sender (`InBuffer`), and the words that have their place are the complete
messages of the rows passed (`Placed`; on the direct paths, of the peers that have sent).
A message lands at its row's place wherever the sender has the offset from, the receive
MPI matches or `shmRecvOffset` (`BaseIs`), and the places of two rows do not meet, so that
no message disturbs one that has landed (`SendWords`). An unpack reads at the offset its
counters have come to, which `LayoutInv` says is that of its row (`UnpackWords`). At the
end `got` is therefore the union of the messages of all expected rows, and what is left is
geometry. The index maps of the source, twelve formulas for edges alone, come down to one
statement (`Places`): word `t` of a row is at the point whose coordinate is at the near or
far end of each axis the row's direction leads along and runs along the others, the lower
axis first. The mirrored row has the opposite ends and the same running coordinates
(`MirrorPlace`), so sender and receiver mean the same node of the mesh (`SharedEnd`,
`GlobalIs`). Conversely a node two ranks share is at the ends that the direction between
them dictates, and this direction is one row (`RowOf`), whose cells reach the node
(`PlaceOnto`); this gives both inclusions (`NodeWords`, `WordsOfNodes`). For the gradients
the elements at a boundary take the place of the points (`BoundaryIs`, `AcrossFace`), and
the order of the ghost areas is that of the rows (`GhostWords`). That nothing is written
twice follows since different rows have different senders (`ContentTells`): `got`, a
finite set, has as many elements as there are words.

Only model-checked:

* `TypeOK`, `SameDataflow`, `FaultsStop`, `PrintedCurrent` and `AllReceived` of `Ports`, and
  its refinement of `LagrangeCycle`. They are statements about the given programs and not
  about every program: each version is a sequence put together by concatenation and by folds
  over lists of fields and regions, of which one would have to know what every instruction
  reads and writes, by induction over the sequences. `SameDataflow` is moreover false of
  some builds (section 5). What holds of the recipes alone,
  `InStep`, is proved of `LagrangeCycle`.
* All liveness: `Termination`, `EveryCallReturns` and the fairness part of the refinements.
  Fairness and `ENABLED` are out of the prover's reach.

## 5. Findings

1. `stencil_ipc.cu:549`: in barrier mode the one barrier of an iteration stands before
   the unpack, and there is one slot; a rank can put its next column over one not yet
   unpacked. The comment at 538-539 says both modes are correct.
2. `stencil_ipc.cu:270`: the clearing of the windows is asynchronous; with
   `STENCIL_WARMUP > 0` nothing orders it before a neighbour's first put.
3. `mpiwrap_ipc.cc:317`: no barrier follows the restore of the probed memory; the use
   shown in `mpi-intercept/README.md:49-57` can lose a store. The programs of this
   repository have a barrier in between.
4. `mpiwrap_ipc.cc:429`: a rank whose `cudaMalloc` fails returns alone and the others
   wait for it.
5. `comm_staged.h:26`: the staged backend posts the receives of a phase into the buffer
   from which the asynchronous copies of the previous phase may still be running; the
   GPU-aware backend waits for the device at that place (`comm_gpumpi.h:26-28`), and this
   wait is all that separates the two in the model.

Observed while reading, and not checked: the position exchange of LULESH lets copies of
several owners race for the same node on different streams (harmless if they are equal);
a ready token is a blocking `MPI_Send` that every rank issues before it receives any,
which relies on the library buffering zero-byte messages (the model assumes it).

In the `direct` backend the device synchronisation and the barrier in `CommRecv`
(`comm_direct.h:30-31`) could go: TLC finds no violation without either, since `CommSendGpu`
has both again. `shmwin` and `nvshmem` need them.

Three more instances violate a property. They are defined in the `MC` modules, and no run
has them; each shows with the `.cfg` of `window_life` or `ports_staged` once the constant
named is given that value and the property named is the only one checked.

* `Topologies <- OwnSwitch` (`CollectivesMatch`). `WINIPC_VERIFY_PEERS` is read by each rank
  for itself and decides, before the vote, whether the rank takes part in it
  (`mpiwrap_ipc.cc:241`). If one rank has it off, the others wait for it in the vote. The
  comment at 262-263 says that every reason to skip has to be unanimous;
  `mpi-intercept/README.md:84` documents the variable and does not say that it must be the
  same everywhere.
* `Builds <- OmpTeams` (`SameDataflow`). With MPI and devices, which `omp_4.0/Makefile:1`
  suggests as the default build, messages are packed from and unpacked into the host's
  copies of fields that stay on the device for the whole run (`omp_4.0/lulesh.cc:1400`).
* `Builds <- AccTeams` (`SameDataflow`). With MPI and devices, of which
  `openacc/src/lulesh-init.cc:175` gives one to each rank, the gradients of the neighbours
  reach the host's copy only (`openacc/src/lulesh.cc:2904-2919`). The other two exchanges
  are followed by an update of the device; a team whose ranks share no face is therefore
  sound, and one is in `ports`.

On a device several checks of OpenMP and OpenACC never fire, since the flag they test on the host is a private copy inside the kernel
(`vol_error`, `abort`) or the field they read was not copied back (`q` in OpenACC); OpenMP
still stops at its other checks, OpenACC does not, and `FaultsStop` therefore leaves it
out (`Reports`). In CUDA the host reads the flags without waiting, so a bad volume is
noticed up to one cycle late and a bad viscosity up to two (`Delay`), and in the last
cycles perhaps not at all; a rank then ends with `exit`, not `MPI_Abort`, which the model
takes to end the job.

## 6. What is not modelled

* The arithmetic of LULESH, the construction of its mesh and regions, its allocator, its
  options and its output. `work` of the equation of state and the load imbalance are in
  the model only as far as data flow goes.
* The OpenMP threads inside a kernel and the contents of `nodeElemCornerList`: a kernel
  is one step.
* How the buffers, windows and mappings of the backends are set up and freed, but for the
  token backends' teardown. `HaloTokens` and `Ports` are not composed: no program of `Ports`
  has tokens, and `HaloTokens` has no kernels.
* The communication files of the standard C++ version, which is built without MPI.
* Asymmetric reachability, a limitation the repository documents
  (`LULESH/cuda/README.md:73`). WinIPC's probe is checked with it; the applications
  assume that it does not occur.
* Several windows at once, host-memory windows and the size results of a query.
* `ACCUMULATE=0` and the verifier's negative control in the transpose.
* Baseline programs over NVSHMEM or plain MPI, tests, scripts, plots.

## 7. The plan

Done in this order: the stencil with its proof, since it has all the hazards in the
smallest program; the interposer under it; the layout and the token protocol of LULESH;
the transpose; the four versions of LULESH with the two-sided backends and those with barriers; the end of the
stencil's run, the time steps of LULESH's cycle, the window with its refinement and the
token protocol with its refinement proved; the transpose restated in positions and proved;
the walks of the layout proved for every size, and on top of them the index maps, so that
an exchange is proved exact.
To come:

1. **Tokens in the driver.** The token backends as one more backend of `LuleshCuda`, their
   channels added to `Ports`, to check the kernels of a cycle against them.
2. **Composition.** The life of a LULESH run over a window: `WinIPC`'s guarantees
   (`PeerWindow`) against the first put and the teardown of `HaloTokens`.
3. **More of the stencil.** An invariant for the barrier mode up to the step at which it
   fails, to show that the missing barrier is its only defect.

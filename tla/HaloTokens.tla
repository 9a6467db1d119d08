----------------------------- MODULE HaloTokens -----------------------------
(***************************************************************************)
(* The steady state of LULESH's CUDA-IPC backends (comm_ipc_common.h; IPC  *)
(* with local and with remote packing, and WinIPC): per-neighbour tokens   *)
(* instead of barriers, with real MPI messages to the neighbours CUDA      *)
(* cannot reach, over the three exchanges of a cycle of lulesh.cu.         *)
(*                                                                         *)
(* A rank is its host thread, the stream of its sends, worked off in       *)
(* order, and the streams of its unpacks, in any order.  A word is         *)
(* abstracted to the exchange it belongs to.  Within one exchange the      *)
(* messages of a buffer are disjoint (HaloLayout); between exchanges they  *)
(* are not, so a message is taken to destroy all those of others.          *)
(***************************************************************************)
EXTENDS Integers, Sequences, FiniteSets

CONSTANTS N,        \* number of ranks
          Row,      \* Row[r][q]: q's row among the 26 neighbours of r, 0 if none
          Total,    \* exchanges of a run
          Packings, \* among "local" and "remote" (IPC_REMOTE_PACK)
          Mappings  \* sets of pairs of ranks that map each other's buffer

Rank == 0 .. N - 1

ASSUME RowAssumption ==
  /\ N \in Nat \ {0} /\ Total \in Nat
  /\ Row \in [Rank -> [Rank -> 0 .. 26]]
  /\ \A r, q \in Rank : (Row[r][q] = 0) = (Row[q][r] = 0)
  /\ \A r \in Rank : Row[r][r] = 0
  /\ Mappings \subseteq SUBSET {p \in SUBSET Rank : Cardinality(p) = 2}

VARIABLES
  packing,  \* how a build packs
  ipc,      \* the pairs of ranks with d_peerRecv in both directions
  pc,       \* what the host does next
  num,      \* exchanges the host has begun
  todo,     \* neighbours left in the walk the host is on
  tokens,   \* s_commTokPeer: neighbours owed a delivered token
  posted,   \* neighbours whose message has a receive and has not come
  stream,   \* the work of the send stream
  unpacks,  \* neighbours whose unpack kernel is enqueued
  got,      \* neighbours whose words were unpacked in this exchange
  sendBuf,  \* d_commDataSend: intact messages <<neighbour, exchange>>
  recvBuf,  \* d_commDataRecv: intact messages <<neighbour, exchange>>
  ready,    \* ready tokens, by channel
  deliv,    \* delivered tokens, by channel
  msgs,     \* messages, by channel: the exchange each was packed for
  gen       \* the exchange the fields belong to, None once one went wrong

conf == <<packing, ipc>>
hostVars == <<pc, num, todo, tokens>>
gpuVars == <<stream, unpacks, got>>
bufVars == <<sendBuf, recvBuf, gen>>
mpiVars == <<posted, ready, deliv, msgs>>
vars == <<conf, hostVars, gpuVars, bufVars, mpiVars>>

None == -1
Held == 0    \* a message that is still only in its sender's buffer

-----------------------------------------------------------------------------
(* The neighbours of an exchange.                                          *)

Phase == <<"sbn", "sync", "monoq">>
Kind(e) == Phase[((e - 1) % 3) + 1]
Reduces(e) == Kind(e) = "sbn" /\ e > 3

\* Positions go from higher ranks to lower ones, gradients across faces.
Talks(k, from, to) ==
  /\ Row[from][to] # 0
  /\ k = "sync" => from > to
  /\ k = "monoq" => Row[from][to] <= 6
In(k, r) == {q \in Rank : Talks(k, q, r)}
Out(k, r) == {q \in Rank : Talks(k, r, q)}

\* The next neighbour of a walk.
First(r) == CHOOSE q \in todo[r] : \A p \in todo[r] : Row[r][q] <= Row[r][p]

Direct(r, q) == {r, q} \in ipc
\* A corner is put straight from the field, whatever the build packs.
PutsField(r, q) == packing = "remote" \/ Row[r][q] >= 19

Channel == {c \in Rank \X Rank \X {"sbn", "sync", "monoq"} : Talks(c[3], c[1], c[2])}
K(r) == Kind(num[r])

\* A message of exchange e from q into a buffer; what is left of the others.
Into(buf, q, e, intact) ==
  {m \in buf : m[2] = e /\ m[1] # q} \cup (IF intact THEN {<<q, e>>} ELSE {})

-----------------------------------------------------------------------------

Drained(r) == stream[r] = <<>> /\ unpacks[r] = {}

\* After the initial exchange, the one barrier, and g_commActive = true.
Init ==
  /\ packing \in Packings
  /\ ipc \in Mappings
  /\ pc = [r \in Rank |-> "unpack"]
  /\ num = [r \in Rank |-> 0]
  /\ gen = [r \in Rank |-> 0]
  /\ todo = [r \in Rank |-> {}]
  /\ tokens = [r \in Rank |-> {}]
  /\ posted = [r \in Rank |-> {}]
  /\ stream = [r \in Rank |-> <<>>]
  /\ unpacks = [r \in Rank |-> {}]
  /\ got = [r \in Rank |-> {}]
  /\ sendBuf = [r \in Rank |-> {}] /\ recvBuf = [r \in Rank |-> {}]
  /\ ready = [c \in Channel |-> 0] /\ deliv = [c \in Channel |-> 0]
  /\ msgs = [c \in Channel |-> <<>>]

\* The fields after an exchange: right if each neighbour's words went in.
Fields(r) ==
  IF gen[r] = num[r] /\ (num[r] = 0 \/ got[r] = In(K(r), r)) THEN num[r] + 1 ELSE None

\* The neighbours COMM_RB_POST gives a token, not a receive of its message.
CallersAtFaces(k, r) == {q \in In(k, r) : Direct(r, q) /\ Row[r][q] <= 6}
Callers(k, r) == {q \in In(k, r) : Direct(r, q)}

\* CommRecv, in commRecvBegin: wait for the GPU, then post the receives and
\* tell the direct neighbours that the buffer is free.  The MPI_Send of that
\* zero-byte token is taken not to wait for its receive; none of these calls
\* depends on another rank, so they are one step.
CommRecv(r) ==
  LET k == Kind(num[r] + 1)  callers == Callers(k, r) IN
  /\ pc[r] = "unpack" /\ todo[r] = {} /\ num[r] < Total
  /\ Drained(r)
  /\ num' = [num EXCEPT ![r] = @ + 1]
  /\ gen' = [gen EXCEPT ![r] = Fields(r)]
  /\ got' = [got EXCEPT ![r] = {}]
  /\ posted' = [posted EXCEPT ![r] = In(k, r) \ callers]
  /\ ready' = [c \in Channel |-> IF c[2] = r /\ c[1] \in callers /\ c[3] = k
                                 THEN ready[c] + 1 ELSE ready[c]]
  /\ todo' = [todo EXCEPT ![r] = Out(k, r)]
  /\ pc' = [pc EXCEPT ![r] = IF Reduces(num[r] + 1) THEN "reduce" ELSE "send"]
  /\ UNCHANGED <<conf, tokens, stream, unpacks, sendBuf, recvBuf, deliv, msgs>>

\* TimeIncrement between the receives and the sends of the forces: every rank
\* has come to its MPI_Allreduce.
TimeIncrement(r) ==
  /\ pc[r] = "reduce"
  /\ \A q \in Rank : num[q] >= num[r]
  /\ pc' = [pc EXCEPT ![r] = "send"]
  /\ UNCHANGED <<conf, num, todo, tokens, gpuVars, bufVars, mpiVars>>

Enqueue(r, op, q) == stream' = [stream EXCEPT ![r] = Append(@, <<op, q>>)]
Step(r, next) == pc' = [pc EXCEPT ![r] = next]
Leave(r, q) == todo' = [todo EXCEPT ![r] = @ \ {q}]

\* CommSendGpu, neighbour after neighbour: pack into the send buffer ...
PackLocal(r) ==
  LET q == First(r) IN
  /\ pc[r] = "send" /\ todo[r] # {}
  /\ ~(Direct(r, q) /\ PutsField(r, q))
  /\ Enqueue(r, "pack", q)
  /\ Step(r, "hand")
  /\ UNCHANGED <<conf, num, todo, tokens, unpacks, got, bufVars, mpiVars>>

\* commReadyWait, then the copy into the neighbour's buffer.
TakeReadyEarly(r, q) ==
  ready' = [ready EXCEPT ![<<r, q, K(r)>>] = IF @ > 0 THEN @ - 1 ELSE 0]
TakeReady(r, q) ==
  /\ ready[<<r, q, K(r)>>] > 0
  /\ ready' = [ready EXCEPT ![<<r, q, K(r)>>] = @ - 1]

HandDirect(r) ==
  LET q == First(r) IN
  /\ pc[r] = "hand" /\ Direct(r, q)
  /\ TakeReady(r, q)
  /\ Enqueue(r, "put", q)
  /\ tokens' = [tokens EXCEPT ![r] = @ \cup {q}]
  /\ Leave(r, q) /\ Step(r, "send")
  /\ UNCHANGED <<conf, num, unpacks, got, bufVars, posted, deliv, msgs>>

\* ... or, to a neighbour without a mapping, wait for the pack and MPI_Isend.
HandMessage(r) ==
  LET q == First(r) IN
  /\ pc[r] = "hand" /\ ~Direct(r, q)
  /\ stream[r] = <<>>
  /\ msgs' = [msgs EXCEPT ![<<r, q, K(r)>>] = Append(@, Held)]
  /\ Leave(r, q) /\ Step(r, "send")
  /\ UNCHANGED <<conf, num, tokens, gpuVars, bufVars, posted, ready, deliv>>

\* Remote packing and corners: wait first, then write straight to the neighbour.
PutField(r) ==
  LET q == First(r) IN
  /\ pc[r] = "send" /\ todo[r] # {}
  /\ Direct(r, q) /\ PutsField(r, q)
  /\ TakeReady(r, q)
  /\ Enqueue(r, "putfield", q)
  /\ tokens' = [tokens EXCEPT ![r] = @ \cup {q}]
  /\ Leave(r, q)
  /\ UNCHANGED <<conf, pc, num, unpacks, got, bufVars, posted, deliv, msgs>>

\* commTokenFlush: every copy has landed before its token leaves.
LandedEarly(r) == Len(stream[r]) <= 1
Landed(r) == stream[r] = <<>>
KeepTokens(r) == tokens' = tokens
ResetTokens(r) == tokens' = [tokens EXCEPT ![r] = {}]
CommTokenFlush(r) ==
  /\ pc[r] = "send" /\ todo[r] = {}
  /\ Landed(r)
  /\ deliv' = [c \in Channel |-> IF c[1] = r /\ c[2] \in tokens[r] /\ c[3] = K(r)
                                 THEN deliv[c] + 1 ELSE deliv[c]]
  /\ ResetTokens(r)
  /\ Step(r, "waitall")
  /\ UNCHANGED <<conf, num, todo, gpuVars, bufVars, posted, ready, msgs>>

\* MPI_Waitall(26, sendRequest): the send buffer is the rank's own again.
SentAny(r) == TRUE
Sent(r) == \A c \in Channel : c[1] = r => \A i \in DOMAIN msgs[c] : msgs[c][i] # Held
Waitall(r) ==
  /\ pc[r] = "waitall"
  /\ Sent(r)
  /\ todo' = [todo EXCEPT ![r] = In(K(r), r)]
  /\ Step(r, "unpack")
  /\ UNCHANGED <<conf, num, tokens, gpuVars, bufVars, mpiVars>>

\* CommSBNGpu and its like: MPI_Wait for the neighbour's token or message, then
\* enqueue the kernels that unpack it.
TakeDeliveredNoCorner(r, q) ==
  /\ Row[r][q] < 19 => deliv[<<q, r, K(r)>>] > 0
  /\ deliv' = [deliv EXCEPT ![<<q, r, K(r)>>] = IF @ > 0 THEN @ - 1 ELSE 0]
TakeDelivered(r, q) ==
  /\ deliv[<<q, r, K(r)>>] > 0
  /\ deliv' = [deliv EXCEPT ![<<q, r, K(r)>>] = @ - 1]

WaitAndUnpack(r) ==
  LET q == First(r) IN
  /\ pc[r] = "unpack" /\ todo[r] # {}
  /\ IF Direct(r, q) THEN TakeDelivered(r, q) ELSE q \notin posted[r] /\ deliv' = deliv
  /\ unpacks' = [unpacks EXCEPT ![r] = @ \cup {q}]
  /\ Leave(r, q)
  /\ UNCHANGED <<conf, pc, num, tokens, stream, got, bufVars, posted, ready, msgs>>

\* The cudaDeviceSynchronize after the loop; then commTeardown frees the buffer
\* without waiting for anyone.
Finish(r) ==
  /\ pc[r] = "unpack" /\ todo[r] = {} /\ num[r] = Total
  /\ Drained(r)
  /\ gen' = [gen EXCEPT ![r] = Fields(r)]
  /\ Step(r, "done")
  /\ UNCHANGED <<conf, num, todo, tokens, gpuVars, sendBuf, recvBuf, mpiVars>>

-----------------------------------------------------------------------------
(* The GPU.                                                                *)

RunStream(r) ==
  /\ stream[r] # <<>>
  /\ LET op == Head(stream[r])[1]  q == Head(stream[r])[2]  e == num[r] IN
     \/ /\ op = "pack"
        /\ sendBuf' = [sendBuf EXCEPT ![r] = Into(@, q, e, gen[r] = e)]
        /\ recvBuf' = recvBuf
     \/ /\ op = "put"
        /\ recvBuf' = [recvBuf EXCEPT ![q] = Into(@, r, e, <<q, e>> \in sendBuf[r])]
        /\ sendBuf' = sendBuf
     \/ /\ op = "putfield"
        /\ recvBuf' = [recvBuf EXCEPT ![q] = Into(@, r, e, gen[r] = e)]
        /\ sendBuf' = sendBuf
  /\ stream' = [stream EXCEPT ![r] = Tail(@)]
  /\ UNCHANGED <<conf, hostVars, unpacks, got, gen, mpiVars>>

RunUnpack(r, q) ==
  /\ q \in unpacks[r]
  /\ unpacks' = [unpacks EXCEPT ![r] = @ \ {q}]
  /\ got' = [got EXCEPT ![r] = IF <<q, num[r]>> \in recvBuf[r] THEN @ \cup {q} ELSE @]
  /\ UNCHANGED <<conf, hostVars, stream, bufVars, mpiVars>>

-----------------------------------------------------------------------------
(* MPI.  A message may be buffered by the library, which completes the     *)
(* send, or stay with its sender until its receive is posted.              *)

Packed(c) == IF <<c[2], num[c[1]]>> \in sendBuf[c[1]] THEN num[c[1]] ELSE None

Buffer(c) ==
  /\ \E i \in DOMAIN msgs[c] :
       /\ msgs[c][i] = Held
       /\ msgs' = [msgs EXCEPT ![c][i] = Packed(c)]
  /\ UNCHANGED <<conf, hostVars, gpuVars, bufVars, posted, ready, deliv>>

Deliver(c) ==
  LET q == c[1]  r == c[2]  e == num[r] IN
  /\ c[3] = K(r) /\ q \in posted[r]
  /\ msgs[c] # <<>>
  /\ LET m == IF Head(msgs[c]) = Held THEN Packed(c) ELSE Head(msgs[c])
     IN recvBuf' = [recvBuf EXCEPT ![r] = Into(@, q, e, m = e)]
  /\ msgs' = [msgs EXCEPT ![c] = Tail(@)]
  /\ posted' = [posted EXCEPT ![r] = @ \ {q}]
  /\ UNCHANGED <<conf, hostVars, gpuVars, sendBuf, gen, ready, deliv>>

-----------------------------------------------------------------------------

Host(r) ==
  \/ CommRecv(r) \/ TimeIncrement(r)
  \/ PackLocal(r) \/ HandDirect(r) \/ HandMessage(r) \/ PutField(r)
  \/ CommTokenFlush(r) \/ Waitall(r) \/ WaitAndUnpack(r) \/ Finish(r)

Terminated == (\A r \in Rank : pc[r] = "done") /\ UNCHANGED vars

Next ==
  \/ \E r \in Rank : Host(r) \/ RunStream(r) \/ \E q \in Rank : RunUnpack(r, q)
  \/ \E c \in Channel : Buffer(c) \/ Deliver(c)
  \/ Terminated

\* Hosts run, streams are worked off, and MPI moves a message whose send and
\* receive are both posted.  Whether it buffers one is its own choice.
Fairness ==
  /\ \A r \in Rank : /\ WF_vars(Host(r)) /\ WF_vars(RunStream(r))
                     /\ \A q \in Rank : WF_vars(RunUnpack(r, q))
  /\ \A c \in Channel : WF_vars(Deliver(c))

Spec == Init /\ [][Next]_vars /\ Fairness
-----------------------------------------------------------------------------
(* Properties.                                                             *)

\* Values of every variable; nobody waits in a walk for a rank that is not a
\* neighbour in this exchange.
TypeOK ==
  /\ packing \in Packings
  /\ pc \in [Rank -> {"unpack", "reduce", "send", "hand", "waitall", "done"}]
  /\ num \in [Rank -> 0 .. Total] /\ gen \in [Rank -> {None} \cup 0 .. Total + 1]
  /\ \A r \in Rank :
       /\ todo[r] \subseteq (IF pc[r] \in {"unpack", "done"} THEN In(K(r), r) ELSE Out(K(r), r))
       /\ tokens[r] \subseteq Out(K(r), r) /\ posted[r] \subseteq In(K(r), r)
       /\ unpacks[r] \subseteq In(K(r), r) /\ got[r] \subseteq In(K(r), r)
       /\ \A i \in DOMAIN stream[r] : stream[r][i][2] \in Out(K(r), r)
       /\ sendBuf[r] \cup recvBuf[r] \subseteq Rank \X (1 .. Total)
  /\ ready \in [Channel -> Nat] /\ deliv \in [Channel -> Nat]
  /\ \A c \in Channel : \A i \in DOMAIN msgs[c] : msgs[c][i] \in {None, Held} \cup 1 .. Total

\* From the moment its unpack is enqueued until it has run, a neighbour's
\* message of this exchange is in the receive buffer, whole, whatever else is
\* written: the token says no more than what has landed, and the neighbours
\* that are ahead keep out of a buffer that is in use.
UnpacksExact ==
  \A r \in Rank : \A q \in unpacks[r] : <<q, num[r]>> \in recvBuf[r]

\* A tag serves one message of a channel at a time, and no rank gets more than
\* a cycle ahead of a neighbour, so a token of one cycle is never taken for one
\* of the next ("zero-byte token messages mirror the original send/recv
\* matching", comm_ipc_common.h:13).
TagsSuffice ==
  /\ \A c \in Channel : ready[c] + deliv[c] + Len(msgs[c]) <= 1
  /\ \A r, q \in Rank : Row[r][q] # 0 => num[r] <= num[q] + 3

\* A rank that has finished frees its buffer: by then nobody's copy is still on
\* its way into it, and no message or token for it is left.
QuietAtTeardown ==
  \A r \in Rank : pc[r] = "done" =>
    /\ \A q \in Rank : \A i \in DOMAIN stream[q] :
         stream[q][i][1] \in {"put", "putfield"} => stream[q][i][2] # r
    /\ \A c \in Channel : /\ c[2] = r => msgs[c] = <<>> /\ deliv[c] = 0
                          /\ c[1] = r => ready[c] = 0

\* Every rank comes to the end: no ring of ranks waits for tokens, messages or
\* the reduction, whichever pairs have a mapping.
Termination == <>(\A r \in Rank : pc[r] = "done")

\* The backend implements the exchange.
Reference == INSTANCE HaloExchange WITH
  Hears <- [k \in {"sbn", "sync", "monoq"} |-> [r \in Rank |-> In(k, r)]]
ExchangeSpec == Reference!Spec
=============================================================================

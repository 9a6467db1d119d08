---------------------------- MODULE HaloTokensInv ----------------------------
(***************************************************************************)
(* The inductive invariant of the token backends, for any neighbourhood.   *)
(* Each channel is four numbers: how many of its exchanges the receiver    *)
(* has posted, the sender has handed over and has flushed, and the         *)
(* receiver has waited for.  Tokens are their differences (Counts), so     *)
(* they come in this order, and the first is at most one more than the     *)
(* last: that is why one tag is enough and a buffer that is in use is left *)
(* alone.                                                                  *)
(***************************************************************************)
EXTENDS HaloTokens

\* The exchanges of a kind among the first n.
Cnt(k, n) == (n + (CASE k = "sbn" -> 2 [] k = "sync" -> 1 [] k = "monoq" -> 0)) \div 3
One(b) == IF b THEN 1 ELSE 0

\* The rank is in an exchange of this kind.
Busy(k, r) == num[r] > 0 /\ K(r) = k

\* How far it is in it: handed over to q, flushed, waited for q.
Handed(r, q) ==
  pc[r] \in {"waitall", "unpack", "done"} \/ (pc[r] \in {"send", "hand"} /\ q \notin todo[r])
Flushed(r) == pc[r] \in {"waitall", "unpack", "done"}
Waited(r, q) == pc[r] \in {"unpack", "done"} /\ q \notin todo[r]

\* The numbers of a channel.
PostedNo(c)   == Cnt(c[3], num[c[2]])
HandedNo(c)   == Cnt(c[3], num[c[1]]) - One(Busy(c[3], c[1]) /\ ~Handed(c[1], c[2]))
FlushedNo(c)  == Cnt(c[3], num[c[1]]) - One(Busy(c[3], c[1]) /\ ~Flushed(c[1]))
WaitedNo(c)   == Cnt(c[3], num[c[2]]) - One(Busy(c[3], c[2]) /\ ~Waited(c[2], c[1]))
ReceivedNo(c) == Cnt(c[3], num[c[2]]) - One(Busy(c[3], c[2]) /\ c[1] \in posted[c[2]])

Pc == {"unpack", "reduce", "send", "hand", "waitall", "done"}
Op == {"pack", "put", "putfield"} \X Rank
Message == {None, Held} \cup 1 .. Total

Types ==
  /\ packing \in Packings /\ ipc \in Mappings
  /\ pc \in [Rank -> Pc]
  /\ num \in [Rank -> 0 .. Total] /\ gen \in [Rank -> Int]
  /\ todo \in [Rank -> SUBSET Rank] /\ tokens \in [Rank -> SUBSET Rank]
  /\ posted \in [Rank -> SUBSET Rank]
  /\ unpacks \in [Rank -> SUBSET Rank] /\ got \in [Rank -> SUBSET Rank]
  /\ stream \in [Rank -> Seq(Op)]
  /\ sendBuf \in [Rank -> SUBSET (Rank \X (1 .. Total))]
  /\ recvBuf \in [Rank -> SUBSET (Rank \X (1 .. Total))]
  /\ ready \in [Channel -> Nat] /\ deliv \in [Channel -> Nat]
  /\ msgs \in [Channel -> Seq(Message)]

\* What the host has done in the exchange it is in.
HostOf(r) ==
  /\ num[r] = 0 => pc[r] \in {"unpack", "done"} /\ todo[r] = {} /\ posted[r] = {}
  /\ pc[r] = "reduce" => Reduces(num[r]) /\ todo[r] = Out(K(r), r)
  /\ pc[r] \in {"send", "hand"} => todo[r] \subseteq Out(K(r), r)
  /\ pc[r] = "hand" => todo[r] # {}
  /\ pc[r] = "unpack" => todo[r] \subseteq In(K(r), r)
  /\ pc[r] \in {"waitall", "done"} => todo[r] = {}
  /\ pc[r] = "done" => num[r] = Total
  /\ tokens[r] = IF pc[r] \in {"send", "hand"}
                 THEN {q \in Out(K(r), r) \ todo[r] : Direct(r, q)} ELSE {}
  /\ \A q \in posted[r] : q \in In(K(r), r) /\ ~Direct(r, q) /\ ~Waited(r, q)

\* What its GPU is at.
GpuOf(r) ==
  /\ pc[r] \notin {"send", "hand"} => stream[r] = <<>>
  /\ pc[r] \notin {"unpack", "done"} => unpacks[r] = {} /\ got[r] = {}
  /\ pc[r] = "unpack" /\ num[r] > 0 => got[r] \cup unpacks[r] \cup todo[r] = In(K(r), r)
  /\ pc[r] = "done" \/ num[r] = 0 => unpacks[r] = {}
  /\ unpacks[r] \subseteq In(K(r), r) /\ got[r] \subseteq In(K(r), r)
  /\ unpacks[r] \cap todo[r] = {}
  /\ gen[r] = IF pc[r] = "done" THEN num[r] + 1 ELSE num[r]

\* What is in the send buffer, or will be before it is needed.
InSend(r, q) == <<q, num[r]>> \in sendBuf[r]
PackedBefore(r, q, i) == InSend(r, q) \/ \E j \in 1 .. i - 1 : stream[r][j] = <<"pack", q>>
OpOf(r, op, i) ==
  /\ op[2] \in Out(K(r), r)
  /\ op[1] = "put" => PackedBefore(r, op[2], i)
  /\ op[1] \in {"put", "putfield"} => Direct(r, op[2]) /\ op[2] \notin todo[r]
StreamOf(r) ==
  /\ pc[r] = "hand" => PackedBefore(r, First(r), Len(stream[r]) + 1)
  /\ \A i \in 1 .. Len(stream[r]) : OpOf(r, stream[r][i], i)

Hosts == \A r \in Rank : HostOf(r) /\ GpuOf(r) /\ StreamOf(r)

\* Tokens and messages are the differences of the numbers.
CountsOf(c) ==
  IF Direct(c[1], c[2])
  THEN /\ ready[c] = PostedNo(c) - HandedNo(c) /\ deliv[c] = FlushedNo(c) - WaitedNo(c)
       /\ msgs[c] = <<>>
  ELSE ready[c] = 0 /\ deliv[c] = 0 /\ Len(msgs[c]) = HandedNo(c) - ReceivedNo(c)
Counts == \A c \in Channel : CountsOf(c)

\* The reduction: who has left it knows that all have come to it.
Paced(r) == num[r] - One(pc[r] = "reduce")
Pace == \A r, q \in Rank : Paced(r) > 3 => Cnt("sbn", num[q]) >= Cnt("sbn", Paced(r))

\* The message of a channel is the last one handed over.
MsgOf(c) ==
  \A i \in 1 .. Len(msgs[c]) :
    IF msgs[c][i] = Held
    THEN /\ Busy(c[3], c[1]) /\ Handed(c[1], c[2]) /\ InSend(c[1], c[2])
         /\ pc[c[1]] \in {"send", "hand", "waitall"}
    ELSE msgs[c][i] > 0 /\ Kind(msgs[c][i]) = c[3] /\ Cnt(c[3], msgs[c][i]) = HandedNo(c)
Messages == \A c \in Channel : MsgOf(c)

\* What was handed over and has landed is in the buffer until it is unpacked.
Aimed(q, r) ==
  \E i \in 1 .. Len(stream[q]) : stream[q][i][1] \in {"put", "putfield"} /\ stream[q][i][2] = r
Landing(c) ==
  IF Direct(c[1], c[2])
  THEN HandedNo(c) = PostedNo(c) /\ ~(num[c[1]] = num[c[2]] /\ Aimed(c[1], c[2]))
  ELSE c[1] \notin posted[c[2]]
BufferOf(c) == Busy(c[3], c[2]) /\ Landing(c) => <<c[1], num[c[2]]>> \in recvBuf[c[2]]
Buffers == \A c \in Channel : BufferOf(c)

\* The conjunction is inductive, and the safety properties follow from it
\* (comm_ipc_common.h, comm_ipc_packed.h).
TokensInv == Types /\ Hosts /\ Counts /\ Pace /\ Messages /\ Buffers
=============================================================================

----------------------------- MODULE StencilInv -----------------------------
(***************************************************************************)
(* The inductive invariant of Stencil for the two token handshakes, with   *)
(* the clock started before the first iteration (STENCIL_WARMUP unset).    *)
(* It is checked by TLC in MCStencil and proved in StencilProof.           *)
(***************************************************************************)
EXTENDS Stencil

HsPc == {"hs0", "hs1", "hs2", "hs3"}
Late == {"wait", "unpack"} \cup HsPc

\* The loop bound holds at every position from which an iteration starts.
LoopBound ==
  \A r \in Rank : pc[r] \notin {"drain", "free", "done"} => iter[r] < Total

\* Where the GPU may be, given where the host is.
StreamAt(r) ==
  \/ pc[r] = "top" /\ iter[r] = 0 /\ gen[r] = 0 /\ gpc[r] \in {"memset", "pack"}
  \/ pc[r] = "align" /\ iter[r] = 0 /\ gen[r] = 0 /\ gpc[r] = "pack"
  \/ pc[r] \in {"post", "drain", "free", "done"} /\ gen[r] = iter[r] /\ gpc[r] = "pack"
  \/ pc[r] \in {"post", "sync", "drain"} /\ iter[r] = gen[r] + 1
       /\ gpc[r] \in {"unL", "unR", "stencil"}
  \/ pc[r] = "sync" /\ gen[r] = iter[r] /\ gpc[r] \in {"pack", "putL", "putR", "unL"}
  \/ pc[r] \in Late /\ gen[r] = iter[r] /\ gpc[r] = "unL"
       /\ (pc[r] \in HsPc => sync = "ssend")

StreamInv == \A r \in Rank : StreamAt(r)

\* No window is being cleared once a rank has left the barrier of the clock.
AlignInv ==
  \A r \in Rank :
    /\ pc[r] # "top" => arrived[r] >= 1
    /\ pc[r] = "top" => arrived[r] = 0
    /\ pc[r] \notin {"top", "align"} => \A q \in Rank : arrived[q] >= 1

\* Both ends of a side use the same transport, and only a neighbour is one.
SidesInv ==
  \A r \in Rank, d \in Side : ipcOk[r][d] => HasNbr(r, d) /\ ipcOk[Nbr(r, d)][Opp(d)]

\* The positions at which the message of the iteration has been sent, and has
\* been received, on a side.
HsPast(k) == IF k = 0 THEN {"hs1", "hs2", "hs3", "unpack"}
             ELSE IF k = 1 THEN {"hs2", "hs3", "unpack"}
             ELSE IF k = 2 THEN {"hs3", "unpack"} ELSE {"unpack"}
HsSendStep(r, d) == (IF r % 2 = 0 THEN 0 ELSE 2) + (IF d = "L" THEN 0 ELSE 1)
HsRecvStep(r, d) == (IF r % 2 = 0 THEN 2 ELSE 0) + (IF d = "L" THEN 0 ELSE 1)
SentPc(r, d) == IF Expects(r, d) THEN Late ELSE HsPast(HsSendStep(r, d))
RcvdPc(r, d) == IF Expects(r, d) THEN {"unpack"} \cup HsPc ELSE HsPast(HsRecvStep(r, d))
MayHaveRcvd(r, d) == RcvdPc(r, d) \cup (IF Expects(r, d) THEN {"sync", "wait"} ELSE {})

\* Message counters, against the position of the host.
CountInv ==
  \A r \in Rank, d \in Side : HasNbr(r, d) =>
    /\ sent[r][d] = iter[r] + (IF pc[r] \in SentPc(r, d) THEN 1 ELSE 0)
    /\ rcvd[r][d] \in {iter[r], iter[r] + 1}
    /\ pc[r] \in RcvdPc(r, d) => rcvd[r][d] = iter[r] + 1
    /\ pc[r] \notin MayHaveRcvd(r, d) => rcvd[r][d] = iter[r]

\* Message counters, of the two ends of a side.
PairInv ==
  \A r \in Rank, d \in Side : HasNbr(r, d) =>
    /\ rcvd[Nbr(r, d)][Opp(d)] <= sent[r][d]
    /\ ~ipcOk[r][d] => sent[r][d] <= rcvd[Nbr(r, d)][Opp(d)] + 1
    /\ ~ipcOk[r][d] /\ pc[r] # "wait" => sent[r][d] = rcvd[Nbr(r, d)][Opp(d)]

\* The send buffers hold the columns of the iteration the GPU has packed.
SendBufInv ==
  \A r \in Rank, d \in Side :
    HasNbr(r, d) /\ gpc[r] \notin {"memset", "pack"} => sendBuf[r][d] = gen[r]

\* The number of columns that have been written to side d of rank r.
PutsDone(r, d) ==
  gen[r] + (IF gpc[r] \in {"unL", "unR", "stencil"} \cup (IF d = "L" THEN {"putR"} ELSE {})
            THEN 1 ELSE 0)
Written(r, d) == IF ipcOk[r][d] THEN PutsDone(Nbr(r, d), Opp(d)) ELSE rcvd[r][d]

\* The two slots hold the last two columns written.
SlotInv ==
  \A r \in Rank, d \in Side : HasNbr(r, d) =>
    /\ Written(r, d) >= 1 =>
         recvSlot[r][d][(Written(r, d) - 1) % 2] = Written(r, d) - 1
    /\ Written(r, d) >= 2 =>
         recvSlot[r][d][Written(r, d) % 2] = Written(r, d) - 2

\* The ghost columns unpacked so far are of the iteration being executed.
GhostInv ==
  \A r \in Rank, d \in Side :
    HasNbr(r, d) /\ gpc[r] \in {"stencil"} \cup (IF d = "L" THEN {"unR"} ELSE {})
      => ghost[r][d] = gen[r]

\* The strip holds the generation the GPU has reached.
GridInv == \A r \in Rank : grid[r] = gen[r]

IInv ==
  /\ TypeOK /\ LoopBound /\ StreamInv /\ AlignInv /\ SidesInv /\ CountInv /\ PairInv
  /\ SendBufInv /\ SlotInv /\ GhostInv /\ GridInv

\* What an unpack reads, exactly.
GhostFresh == NoStaleGhost /\ NoOverwrittenGhost
=============================================================================

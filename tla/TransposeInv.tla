---------------------------- MODULE TransposeInv ----------------------------
(***************************************************************************)
(* The inductive invariant of the transpose, for any number of ranks and   *)
(* iterations and any mixture of transports.  What a block is worth, what  *)
(* a message carries and what a buffer holds are all fixed by how often    *)
(* the hosts have come past the step that launches them (Times), less what *)
(* is still in a stream; that one buffer serves all phases follows from    *)
(* where a stream can be busy (Streams) and from the barriers (Barriers).  *)
(***************************************************************************)
EXTENDS Transpose

One(b) == IF b THEN 1 ELSE 0

\* The phase in which the block of rank r for q is moved, by both of them.
Meeting(r, q) == IF q <= r THEN r - q ELSE r - q + P

\* How often a host at p has done step s of phase k.
Times(p, k, s) ==
  IF p.iter = -1 THEN 0
  ELSE IF p.iter = Total THEN Total
  ELSE p.iter + One(p.phase > k \/ (p.phase = k /\ p.step > s))

\* Where the steps of a phase stand.
PackStep == CASE mode = "direct" -> 4 [] mode = "single" -> 3 [] OTHER -> 1
PostStep == IF mode = "staged" THEN 4 ELSE 3
SendStep == CASE mode \in {"direct", "buffered"} -> 6 [] mode = "staged" -> 5 [] OTHER -> 4
WaitStep == SendStep + 1
UnpackStep == CASE mode = "buffered" -> 9 [] mode = "gpumpi" -> 6 [] OTHER -> 8

InPhase(r) == pos[r].iter \in 0 .. Total - 1 /\ pos[r].phase \in 1 .. LastPhase
InStream(r, op) == \E i \in 1 .. Len(stream[r]) : stream[r][i] = op

\* How the block of r for q travels: written into B by r, or as a message.
Straight(r, q) == q = r \/ mode = "single" \/ (mode = "direct" /\ IpcOk(r, q))
ByMessage(r, q) == q # r /\ mode # "single" /\ ~IpcOk(r, q)
Moved(r, q) == <<IF Straight(r, q) THEN "write" ELSE "pack", q>>
Launching(r, q) ==
  CASE q = r -> Times(pos[r], 0, 3)
    [] q # r /\ mode = "single" -> Times(pos[r], 1, 3)
    [] q # r /\ mode # "single" -> Times(pos[r], Meeting(r, q), PackStep)
Written(r, q) == Launching(r, q) - One(InStream(r, Moved(r, q)))
Unpacked(r, q) == Times(pos[r], Meeting(q, r), UnpackStep) - One(InStream(r, <<"unpack", q>>))

-----------------------------------------------------------------------------

Op == {"init", "write", "pack", "copy", "unpack"} \X Rank
Position(p) ==
  /\ p.iter \in -1 .. Total /\ p.phase \in 0 .. LastSection(p.iter)
  /\ p.step \in 1 .. Len(Steps(p)) \/ p = Done
Types ==
  /\ TypeOK /\ stream \in [Rank -> Seq(Op)]
  /\ msgs \in [Rank -> [Rank -> Seq(Block)]]
  /\ \A r \in Rank : Position(pos[r])
  /\ TwoSided => ipc = {}
  /\ mode = "single" => \A r, q \in Rank : r # q => IpcOk(r, q)

\* A kernel or copy is in the stream only up to the next synchronisation of
\* its host, so only in these positions.
MayRun(r, op) ==
  LET p == pos[r]  q == op[2] IN
  \/ op = <<"init", r>> /\ p = [iter |-> -1, phase |-> 0, step |-> 2]
  \/ /\ op[1] \in {"write", "pack"} /\ op = Moved(r, q) /\ InPhase(r)
     /\ \/ q = r /\ p.phase = 1 /\ p.step <= (IF mode \in {"direct", "single"} THEN 1 ELSE 2)
        \/ q # r /\ p.step = PackStep + 1 /\ (mode # "single" => p.phase = Meeting(r, q))
  \/ /\ op[1] = "copy" /\ mode = "buffered" /\ InPhase(r)
     /\ q # r /\ IpcOk(r, q) /\ p.phase = Meeting(r, q) /\ p.step = 5
  \/ /\ op[1] = "unpack" /\ q # r /\ ~Straight(q, r) /\ p.iter \in 0 .. Total - 1
     /\ IF mode \in {"direct", "buffered"}
        THEN p.phase = Meeting(q, r) /\ p.step = UnpackStep + 1
        ELSE p.phase = Meeting(q, r) + 1 /\ p.step <= 2

\* Each of them is in it once.
Streams ==
  \A r \in Rank : \A i \in 1 .. Len(stream[r]) :
    /\ MayRun(r, stream[r][i])
    /\ \A j \in 1 .. Len(stream[r]) : stream[r][j] = stream[r][i] => j = i

\* Who is past a barrier knows that all have come to it.
BarrierAt(p) == Steps(p)[p.step] = "barrier"
Barriers ==
  \A r, q \in Rank :
    \A p \in [iter : -1 .. Total, phase : 0 .. P, step : 1 .. 12] :
      Position(p) /\ p # Done /\ BarrierAt(p) /\ AtLeast(pos[r], p) /\ pos[r] # p
        => AtLeast(pos[q], p)

\* The blocks.
Initialised(r) ==
  pos[r].iter >= 0 \/ pos[r].step = 3 \/ (pos[r].step = 2 /\ stream[r] = <<>>)
Blocks ==
  \A r, q \in Rank : Initialised(r) =>
    /\ A[r][q] = Written(r, q)
    /\ B[r][q] = IF Straight(q, r) THEN Written(q, r) ELSE Unpacked(r, q)

\* From the pack, and in "staged" from the copy to the host, to the end of the
\* phase the send buffer holds the block.
SendBufs ==
  \A r \in Rank : InPhase(r) /\ mode # "single" =>
    LET q == send_to(r)  b == [from |-> r, to |-> q, value |-> pos[r].iter] IN
    /\ ~Straight(r, q) /\ pos[r].step > PackStep /\ ~InStream(r, <<"pack", q>>) => sendBuf[r] = b
    /\ mode = "staged" /\ pos[r].step > 3 => hostSend[r] = b

\* A copy that has run stays in the peer's window until the peer is past the
\* second barrier of the phase.
Copies ==
  \A r \in Rank : InPhase(r) /\ mode = "buffered" =>
    LET q == send_to(r) IN
    IpcOk(r, q) /\ pos[r].step > 4 /\ ~InStream(r, <<"copy", q>>)
      /\ ~AtLeast(pos[q], [pos[r] EXCEPT !.step = 11])
    => recvBuf[q] = [from |-> r, to |-> q, value |-> pos[r].iter]

\* Receives and what they have brought.
Posting(r) == PostStep < pos[r].step /\ pos[r].step <= WaitStep
Landing(r) ==
  CASE mode \in {"direct", "buffered"} -> fbRecv[r]
    [] mode = "gpumpi" -> recvBuf[r]
    [] mode = "staged" -> IF pos[r].step = 8 THEN recvBuf[r] ELSE hostRecv[r]
Receives ==
  \A r \in Rank :
    /\ posted[r] # None =>
         InPhase(r) /\ ByMessage(posted[r], r) /\ posted[r] = recv_from(r) /\ Posting(r)
    /\ InPhase(r) /\ ByMessage(recv_from(r), r) /\ posted[r] = None
         /\ PostStep < pos[r].step /\ pos[r].step <= UnpackStep =>
         Landing(r) = [from |-> recv_from(r), to |-> r, value |-> pos[r].iter]

\* A channel holds the messages sent and not received, in order; one still in
\* its sender's buffer is the last, and its sender waits for it.
Sent(q, r) == Times(pos[q], Meeting(q, r), SendStep)
Taken(q, r) == Times(pos[r], Meeting(q, r), PostStep) - One(posted[r] = q)
Waiting(q, r) == InPhase(q) /\ pos[q].phase = Meeting(q, r) /\ pos[q].step = WaitStep
Channels ==
  \A q, r \in Rank :
    IF ByMessage(q, r)
    THEN /\ Len(msgs[q][r]) = Sent(q, r) - Taken(q, r)
         /\ \A i \in 1 .. Len(msgs[q][r]) :
              \/ msgs[q][r][i] = Held /\ i = Len(msgs[q][r]) /\ Waiting(q, r)
              \/ msgs[q][r][i] = [from |-> q, to |-> r, value |-> Taken(q, r) + i - 1]
    ELSE msgs[q][r] = <<>>

\* The conjunction is inductive, and the safety properties follow from it
\* (transpose_ipc.cu:574-779).
TransposeInv ==
  /\ Types /\ Streams /\ Barriers /\ Blocks /\ SendBufs /\ Copies /\ Receives /\ Channels
  /\ UnpacksExact
=============================================================================

--------------------------- MODULE HaloLayoutInv ---------------------------
(***************************************************************************)
(* The inductive invariant of HaloLayout: the counters of a walk are a     *)
(* function of its row, and the receives posted are those of the rows the  *)
(* walk has passed, in their order; what has landed is in the buffer, and  *)
(* what has been unpacked is the messages of the rows passed.              *)
(***************************************************************************)
EXTENDS HaloLayout

\* The rows me expects a message in, and the counters before a row.
ExpectedRows == {i \in Rows : Expects(me, CommRecvRows[i])}
CntAt(i) == Before(CommRecvRows, i, LAMBDA d : Expects(me, d))

\* The receive of a row; its request is the next free one.
Posted(i) == [from |-> me + Delta(CommRecvRows[i]), offset |-> Offset(CntAt(i)),
              slot |-> SlotOf(CntAt(i)), count |-> xferFields * Count(CommRecvRows[i])]
PlaceOf(i) == SlotOf(CntAt(i)) + 1

\* The receives ps are those of the expected rows before n.
PostedBefore(ps, n) ==
  /\ ps \in Seq([from : Int, offset : Int, slot : Int, count : Int])
  /\ Len(ps) = SlotOf(CntAt(n))
  /\ \A i \in ExpectedRows : i < n => PlaceOf(i) \in DOMAIN ps /\ ps[PlaceOf(i)] = Posted(i)
  /\ \A j \in DOMAIN ps : \E i \in ExpectedRows : i < n /\ PlaceOf(i) = j

Passed == IF step = "post" THEN k ELSE Cardinality(Rows) + 1

LayoutInv ==
  /\ TypeOK
  /\ k \in Rows /\ (step \in {"send", "done"} => k = 1)
  /\ cnt = CntAt(k)
  /\ IF path = "direct" THEN posts = <<>> /\ step # "post" ELSE PostedBefore(posts, Passed)

-----------------------------------------------------------------------------
(* The words: what has landed in the buffer, and what has been unpacked.   *)

\* The row of the opposite direction.
Mirror(i) == IF i \in {1, 3, 5} THEN i + 1 ELSE IF i \in {2, 4, 6} THEN i - 1
             ELSE IF i \in {7, 8, 9, 13, 14, 15} THEN i + 3
             ELSE IF i \in {10, 11, 12, 16, 17, 18} THEN i - 3 ELSE 45 - i

PeerOf(i) == me + Delta(CommRecvRows[i])
Peers == {PeerOf(i) : i \in ExpectedRows}

\* Word w of the message of row i: in the buffer, and where it belongs.
Packed(i, w) == [field |-> FieldOf(i, w), from |-> PeerOf(i), node |-> Idx(Mirror(i), CellOf(i, w))]
Delivered(i, w) ==
  [row |-> IF DirectFields THEN Mirror(i) ELSE i, field |-> FieldOf(i, w), at |-> Target(i, CellOf(i, w)),
   from |-> PeerOf(i), node |-> Idx(Mirror(i), CellOf(i, w))]

\* The rows whose message is there, and those whose words have their place.
Landed == {i \in ExpectedRows : step # "post" /\ PeerOf(i) \notin todo}
Placed == {i \in ExpectedRows : IF DirectFields THEN PeerOf(i) \notin todo
                                ELSE step = "done" \/ (step = "unpack" /\ i < k)}

InBuffer(i) == \A w \in Words(i) : LET a == Offset(CntAt(i)) + w
                                   IN a \in DOMAIN buf /\ buf[a] = Packed(i, w)

WordsInv ==
  /\ step = "post" => todo = Peers
  /\ step \in {"unpack", "done"} => todo = {}
  /\ DirectFields => step \in {"send", "done"}
  /\ ~DirectFields => \A i \in Landed : InBuffer(i)
  /\ got = UNION {{Delivered(i, w) : w \in Words(i)} : i \in Placed}

\* The inductive invariant of an exchange: the walks and receives, and the words.
ExchangeInv == LayoutInv /\ WordsInv
=============================================================================

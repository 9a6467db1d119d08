--------------------------- MODULE HaloTokensProof ---------------------------
(***************************************************************************)
(* The safety of the token backends, for any number of ranks, exchanges    *)
(* and neighbours and any set of mapped pairs.                             *)
(***************************************************************************)
EXTENDS HaloTokensInv, TLAPS, WellFoundedInduction, SequenceTheorems

Kinds == {"sbn", "sync", "monoq"}

-----------------------------------------------------------------------------
(* The exchanges of a kind.                                                *)

LEMMA KindAt ==
  ASSUME NEW n \in Nat
  PROVE  \E m \in Nat : \/ n + 1 = 3 * m + 1 /\ Kind(n + 1) = "sbn"
                        \/ n + 1 = 3 * m + 2 /\ Kind(n + 1) = "sync"
                        \/ n + 1 = 3 * m + 3 /\ Kind(n + 1) = "monoq"
<1>1. PICK m \in Nat, i \in {0, 1, 2} : n = 3 * m + i
  <2>1. n % 3 \in {0, 1, 2} /\ n = 3 * (n \div 3) + (n % 3) /\ n \div 3 \in Nat OBVIOUS
  <2> QED BY <2>1
<1>2. CASE i = 0
  <2>1. n % 3 = 0 BY <1>1, <1>2
  <2>2. Kind(n + 1) = "sbn" BY <2>1 DEF Kind, Phase
  <2> QED BY <1>1, <1>2, <2>2
<1>3. CASE i = 1
  <2>1. n % 3 = 1 BY <1>1, <1>3
  <2>2. Kind(n + 1) = "sync" BY <2>1 DEF Kind, Phase
  <2> QED BY <1>1, <1>3, <2>2
<1>4. CASE i = 2
  <2>1. n % 3 = 2 BY <1>1, <1>4
  <2>2. Kind(n + 1) = "monoq" BY <2>1 DEF Kind, Phase
  <2> QED BY <1>1, <1>4, <2>2
<1> QED BY <1>2, <1>3, <1>4

LEMMA KindType == ASSUME NEW n \in Nat \ {0} PROVE Kind(n) \in Kinds
<1>1. n - 1 \in Nat /\ (n - 1) + 1 = n OBVIOUS
<1> QED BY <1>1, KindAt DEF Kinds

\* The bounds of a count, which is all that is used of it.
LEMMA CntSbn ==
  ASSUME NEW n \in Nat
  PROVE  /\ Cnt("sbn", n) \in Nat
         /\ n <= 3 * Cnt("sbn", n) /\ 3 * Cnt("sbn", n) <= n + 2
<1>1. Cnt("sbn", n) = (n + 2) \div 3 BY DEF Cnt
<1> QED BY <1>1

LEMMA CntSync ==
  ASSUME NEW n \in Nat
  PROVE  /\ Cnt("sync", n) \in Nat
         /\ n <= 3 * Cnt("sync", n) + 1 /\ 3 * Cnt("sync", n) <= n + 1
<1>1. Cnt("sync", n) = (n + 1) \div 3 BY DEF Cnt
<1> QED BY <1>1

LEMMA CntMonoq ==
  ASSUME NEW n \in Nat
  PROVE  /\ Cnt("monoq", n) \in Nat
         /\ n <= 3 * Cnt("monoq", n) + 2 /\ 3 * Cnt("monoq", n) <= n
<1>1. Cnt("monoq", n) = (n + 0) \div 3 BY DEF Cnt
<1>2. n + 0 = n OBVIOUS
<1> QED BY <1>1, <1>2

LEMMA CntType == ASSUME NEW k \in Kinds, NEW n \in Nat PROVE Cnt(k, n) \in Nat
BY CntSbn, CntSync, CntMonoq DEF Kinds

LEMMA CntZero == ASSUME NEW k \in Kinds PROVE Cnt(k, 0) = 0
<1>1. 0 \in Nat OBVIOUS
<1>2. CASE k = "sbn" BY <1>1, <1>2, CntSbn
<1>3. CASE k = "sync" BY <1>1, <1>3, CntSync
<1>4. CASE k = "monoq" BY <1>1, <1>4, CntMonoq
<1> QED BY <1>2, <1>3, <1>4 DEF Kinds

LEMMA CntNext ==
  ASSUME NEW k \in Kinds, NEW n \in Nat
  PROVE  /\ Kind(n + 1) = k => Cnt(k, n + 1) = Cnt(k, n) + 1
         /\ Kind(n + 1) # k => Cnt(k, n + 1) = Cnt(k, n)
<1>1. n + 1 \in Nat OBVIOUS
<1>2. PICK m \in Nat : \/ n + 1 = 3 * m + 1 /\ Kind(n + 1) = "sbn"
                       \/ n + 1 = 3 * m + 2 /\ Kind(n + 1) = "sync"
                       \/ n + 1 = 3 * m + 3 /\ Kind(n + 1) = "monoq"
  BY KindAt
<1>3. CASE k = "sbn"
  <2>1. n <= 3 * Cnt(k, n) /\ 3 * Cnt(k, n) <= n + 2 /\ Cnt(k, n) \in Nat BY <1>3, CntSbn
  <2>2. n + 1 <= 3 * Cnt(k, n + 1) /\ 3 * Cnt(k, n + 1) <= n + 3 /\ Cnt(k, n + 1) \in Nat
    BY <1>1, <1>3, CntSbn
  <2> QED BY <1>2, <1>3, <2>1, <2>2
<1>4. CASE k = "sync"
  <2>1. n <= 3 * Cnt(k, n) + 1 /\ 3 * Cnt(k, n) <= n + 1 /\ Cnt(k, n) \in Nat BY <1>4, CntSync
  <2>2. n <= 3 * Cnt(k, n + 1) /\ 3 * Cnt(k, n + 1) <= n + 2 /\ Cnt(k, n + 1) \in Nat
    BY <1>1, <1>4, CntSync
  <2> QED BY <1>2, <1>4, <2>1, <2>2
<1>5. CASE k = "monoq"
  <2>1. n <= 3 * Cnt(k, n) + 2 /\ 3 * Cnt(k, n) <= n /\ Cnt(k, n) \in Nat BY <1>5, CntMonoq
  <2>2. n <= 3 * Cnt(k, n + 1) + 1 /\ 3 * Cnt(k, n + 1) <= n + 1 /\ Cnt(k, n + 1) \in Nat
    BY <1>1, <1>5, CntMonoq
  <2> QED BY <1>2, <1>5, <2>1, <2>2
<1> QED BY <1>3, <1>4, <1>5 DEF Kinds

LEMMA CntMonotone ==
  ASSUME NEW k \in Kinds, NEW m \in Nat, NEW n \in Nat, m <= n
  PROVE  Cnt(k, m) <= Cnt(k, n)
<1>1. CASE k = "sbn" BY <1>1, CntSbn
<1>2. CASE k = "sync" BY <1>2, CntSync
<1>3. CASE k = "monoq" BY <1>3, CntMonoq
<1> QED BY <1>1, <1>2, <1>3 DEF Kinds

\* Who has come to as many exchanges of a kind has come to as many exchanges.
LEMMA CntLeast ==
  ASSUME NEW m \in Nat, NEW n \in Nat \ {0}, Cnt(Kind(n), m) >= Cnt(Kind(n), n)
  PROVE  m >= n
<1>1. n - 1 \in Nat /\ (n - 1) + 1 = n /\ n \in Nat OBVIOUS
<1>2. PICK j \in Nat : \/ n = 3 * j + 1 /\ Kind(n) = "sbn"
                       \/ n = 3 * j + 2 /\ Kind(n) = "sync"
                       \/ n = 3 * j + 3 /\ Kind(n) = "monoq"
  BY <1>1, KindAt
<1>3. CASE Kind(n) = "sbn" BY <1>1, <1>2, <1>3, CntSbn
<1>4. CASE Kind(n) = "sync" BY <1>1, <1>2, <1>4, CntSync
<1>5. CASE Kind(n) = "monoq" BY <1>1, <1>2, <1>5, CntMonoq
<1> QED BY <1>2, <1>3, <1>4, <1>5

LEMMA CntPositive ==
  ASSUME NEW n \in Nat \ {0}
  PROVE  Cnt(Kind(n), n) >= 1
<1>1. CASE Cnt(Kind(n), n) = 0
  <2>1. Cnt(Kind(n), 0) >= Cnt(Kind(n), n) BY <1>1, CntZero, KindType
  <2>2. 0 >= n BY <2>1, CntLeast
  <2> QED BY <2>2
<1> QED BY <1>1, CntType, KindType

\* A rank that has come to as many reductions is at most one exchange of any
\* kind behind, and if it is in one of the kind, not behind.
LEMMA CntPaced ==
  ASSUME NEW k \in Kinds, NEW m \in Nat, NEW n \in Nat, Cnt("sbn", m) >= Cnt("sbn", n)
  PROVE  /\ Cnt(k, n) <= Cnt(k, m) + 1
         /\ m > 0 /\ Kind(m) = k => Cnt(k, n) <= Cnt(k, m)
<1>1. n <= 3 * Cnt("sbn", n) /\ 3 * Cnt("sbn", n) <= n + 2 /\ Cnt("sbn", n) \in Nat BY CntSbn
<1>2. m <= 3 * Cnt("sbn", m) /\ 3 * Cnt("sbn", m) <= m + 2 /\ Cnt("sbn", m) \in Nat BY CntSbn
<1>3. n <= m + 2 BY <1>1, <1>2
<1>4. CASE k = "sbn" BY <1>4, <1>1, <1>2
<1>5. CASE k = "sync"
  <2>1. n <= 3 * Cnt(k, n) + 1 /\ 3 * Cnt(k, n) <= n + 1 /\ Cnt(k, n) \in Nat BY <1>5, CntSync
  <2>2. m <= 3 * Cnt(k, m) + 1 /\ 3 * Cnt(k, m) <= m + 1 /\ Cnt(k, m) \in Nat BY <1>5, CntSync
  <2>3. Cnt(k, n) <= Cnt(k, m) + 1 BY <1>3, <2>1, <2>2
  <2>4. ASSUME m > 0, Kind(m) = k PROVE Cnt(k, n) <= Cnt(k, m)
    <3>1. PICK j \in Nat : m = 3 * j + 2
      <4>1. m - 1 \in Nat /\ (m - 1) + 1 = m BY <2>4
      <4> QED BY <4>1, <2>4, <1>5, KindAt
    <3> QED BY <1>1, <1>2, <2>1, <2>2, <3>1
  <2> QED BY <2>3, <2>4
<1>6. CASE k = "monoq"
  <2>1. n <= 3 * Cnt(k, n) + 2 /\ 3 * Cnt(k, n) <= n /\ Cnt(k, n) \in Nat BY <1>6, CntMonoq
  <2>2. m <= 3 * Cnt(k, m) + 2 /\ 3 * Cnt(k, m) <= m /\ Cnt(k, m) \in Nat BY <1>6, CntMonoq
  <2>3. Cnt(k, n) <= Cnt(k, m) + 1 BY <1>3, <2>1, <2>2
  <2>4. ASSUME m > 0, Kind(m) = k PROVE Cnt(k, n) <= Cnt(k, m)
    <3>1. PICK j \in Nat : m = 3 * j + 3
      <4>1. m - 1 \in Nat /\ (m - 1) + 1 = m BY <2>4
      <4> QED BY <4>1, <2>4, <1>6, KindAt
    <3> QED BY <1>1, <1>2, <2>1, <2>2, <3>1
  <2> QED BY <2>3, <2>4
<1> QED BY <1>4, <1>5, <1>6 DEF Kinds

LEMMA CntFirst ==
  ASSUME NEW k \in Kinds, NEW n \in Nat, n <= 3
  PROVE  Cnt(k, n) <= 1
<1>1. CASE k = "sbn" BY <1>1, CntSbn
<1>2. CASE k = "sync" BY <1>2, CntSync
<1>3. CASE k = "monoq" BY <1>3, CntMonoq
<1> QED BY <1>1, <1>2, <1>3 DEF Kinds

-----------------------------------------------------------------------------
(* Ranks, channels and walks.                                              *)

LEMMA Rows ==
  /\ N \in Nat \ {0} /\ Total \in Nat
  /\ \A r, q \in Rank : Row[r][q] \in 0 .. 26 /\ (Row[r][q] = 0) = (Row[q][r] = 0)
  /\ \A r \in Rank : Row[r][r] = 0
BY RowAssumption

LEMMA Channels ==
  /\ \A c \in Channel : /\ c[1] \in Rank /\ c[2] \in Rank /\ c[3] \in Kinds /\ c[1] # c[2]
                        /\ c = <<c[1], c[2], c[3]>>
                        /\ c[1] \in In(c[3], c[2]) /\ c[2] \in Out(c[3], c[1])
  /\ \A k \in Kinds, r \in Rank : \A q \in In(k, r) : q \in Rank /\ <<q, r, k>> \in Channel
  /\ \A k \in Kinds, r \in Rank : \A q \in Out(k, r) : q \in Rank /\ <<r, q, k>> \in Channel
<1>1. ASSUME NEW c \in Channel
      PROVE  /\ c[1] \in Rank /\ c[2] \in Rank /\ c[3] \in Kinds /\ c = <<c[1], c[2], c[3]>>
             /\ Talks(c[3], c[1], c[2])
  BY DEF Channel, Kinds
<1>2. ASSUME NEW c \in Channel PROVE c[1] # c[2]
  <2>1. Row[c[1]][c[2]] # 0 BY <1>1 DEF Talks
  <2> QED BY <1>1, <2>1, Rows
<1>3. ASSUME NEW k \in Kinds, NEW r \in Rank, NEW q \in Rank, Talks(k, q, r)
      PROVE  <<q, r, k>> \in Channel
  BY <1>3 DEF Channel, Kinds
<1> QED BY <1>1, <1>2, <1>3 DEF In, Out

LEMMA DirectBoth == ASSUME NEW r, NEW q PROVE Direct(r, q) = Direct(q, r)
<1>1. {r, q} = {q, r} OBVIOUS
<1> QED BY <1>1 DEF Direct

\* A walk that is not over has a next neighbour.
LEMMA FirstIn ==
  ASSUME NEW r \in Rank, todo[r] \subseteq Rank, todo[r] # {}
  PROVE  First(r) \in todo[r]
<1> DEFINE S == {Row[r][q] : q \in todo[r]}
<1>1. S \subseteq Nat /\ S # {} BY Rows
<1>2. \E m \in S : \A n \in S : ~(n < m)
  <2> HIDE DEF S
  <2>1. PICK m \in S : \A n \in S : <<n, m>> \notin OpToRel(<, Nat)
    BY <1>1, WFMin, NatLessThanWellFounded, Zenon
  <2> QED BY <1>1, <2>1, Zenon DEF OpToRel
<1>3. PICK q \in todo[r] : \A p \in todo[r] : ~(Row[r][p] < Row[r][q]) BY <1>2
<1>4. \A p \in todo[r] : Row[r][p] \in Nat BY Rows
<1>5. \A p \in todo[r] : Row[r][q] <= Row[r][p] BY <1>3, <1>4
<1> QED BY <1>5 DEF First

LEMMA Neighbours == \A k, r : In(k, r) \subseteq Rank /\ Out(k, r) \subseteq Rank
BY DEF In, Out

-----------------------------------------------------------------------------
(* Types.                                                                  *)

LEMMA InitTypes == Init => Types
<1> SUFFICES ASSUME Init PROVE Types OBVIOUS
<1>1. 0 \in 0 .. Total /\ 0 \in Int /\ 0 \in Nat BY Rows
<1>2. "unpack" \in Pc BY DEF Pc
<1>3. <<>> \in Seq(Op) /\ <<>> \in Seq(Message) OBVIOUS
<1>4. pc \in [Rank -> Pc] /\ num \in [Rank -> 0 .. Total] /\ gen \in [Rank -> Int]
  BY <1>1, <1>2 DEF Init
<1>5. stream \in [Rank -> Seq(Op)] /\ msgs \in [Channel -> Seq(Message)] BY <1>3 DEF Init
<1>6. ready \in [Channel -> Nat] /\ deliv \in [Channel -> Nat] BY <1>1 DEF Init
<1> QED BY <1>4, <1>5, <1>6 DEF Init, Types

LEMMA IntoType ==
  ASSUME NEW buf \in SUBSET (Rank \X (1 .. Total)), NEW q \in Rank, NEW e \in 1 .. Total, NEW b
  PROVE  Into(buf, q, e, b) \in SUBSET (Rank \X (1 .. Total))
BY DEF Into

LEMMA PackedType ==
  ASSUME Types, NEW c \in Channel
  PROVE  Packed(c) \in Message
<1>1. num[c[1]] \in 0 .. Total BY Channels DEF Types
<1> QED BY <1>1, Rows DEF Packed, Message, Held

\* Who has work on the GPU or a receive is in an exchange.
LEMMA Engaged ==
  ASSUME Types, Hosts, NEW r \in Rank,
         stream[r] # <<>> \/ posted[r] # {} \/ unpacks[r] # {}
           \/ pc[r] \in {"send", "hand", "reduce", "waitall"}
  PROVE  num[r] \in 1 .. Total /\ num[r] > 0 /\ K(r) \in Kinds
<1>1. HostOf(r) /\ GpuOf(r) BY DEF Hosts
<1>2. num[r] # 0 BY <1>1 DEF HostOf, GpuOf
<1>3. num[r] \in 0 .. Total /\ Total \in Nat BY Rows DEF Types
<1>4. num[r] \in Nat \ {0} BY <1>2, <1>3
<1> QED BY <1>3, <1>4, KindType DEF K

LEMMA AppendType ==
  ASSUME NEW S, NEW s \in Seq(S), NEW x \in S
  PROVE  Append(s, x) \in Seq(S)
OBVIOUS

LEMMA HostTyped ==
  ASSUME Types, Hosts, NEW r \in Rank, Host(r)
  PROVE  Types'
<1> USE Rows, Neighbours DEF Types, conf, hostVars, gpuVars, bufVars, mpiVars
<1>p. "unpack" \in Pc /\ "reduce" \in Pc /\ "send" \in Pc /\ "hand" \in Pc /\ "waitall" \in Pc
      /\ "done" \in Pc
  BY DEF Pc
<1>o. \A q \in Rank : <<"pack", q>> \in Op /\ <<"put", q>> \in Op /\ <<"putfield", q>> \in Op
  BY DEF Op
<1>f. gen[r] \in Int /\ num[r] \in Int /\ Fields(r) \in Int BY DEF Fields, None
<1>t. todo[r] # {} => First(r) \in todo[r] /\ First(r) \in Rank BY FirstIn
<1>1. CASE CommRecv(r)
  <2>1. num' \in [Rank -> 0 .. Total]
    <3>1. num[r] + 1 \in 0 .. Total BY <1>1 DEF CommRecv
    <3> QED BY <1>1, <3>1 DEF CommRecv
  <2>2. gen' \in [Rank -> Int] BY <1>1, <1>f DEF CommRecv
  <2>3. got' \in [Rank -> SUBSET Rank] BY <1>1 DEF CommRecv
  <2>4. posted' \in [Rank -> SUBSET Rank]
    <3>1. In(Kind(num[r] + 1), r) \ Callers(Kind(num[r] + 1), r) \in SUBSET Rank OBVIOUS
    <3>2. posted' = [posted EXCEPT ![r] = In(Kind(num[r] + 1), r) \ Callers(Kind(num[r] + 1), r)]
      BY <1>1 DEF CommRecv
    <3> QED BY <3>1, <3>2
  <2>5. ready' \in [Channel -> Nat] BY <1>1 DEF CommRecv
  <2>6. todo' \in [Rank -> SUBSET Rank]
    <3>1. todo' = [todo EXCEPT ![r] = Out(Kind(num[r] + 1), r)] BY <1>1 DEF CommRecv
    <3> QED BY <3>1
  <2>7. pc' \in [Rank -> Pc] BY <1>1, <1>p DEF CommRecv
  <2> QED BY <1>1, <2>1, <2>2, <2>3, <2>4, <2>5, <2>6, <2>7 DEF CommRecv
<1>2. CASE TimeIncrement(r) BY <1>2, <1>p DEF TimeIncrement
<1>3. CASE PackLocal(r)
  <2>1. stream' = [stream EXCEPT ![r] = Append(stream[r], <<"pack", First(r)>>)]
    BY <1>3 DEF PackLocal, Enqueue
  <2>2. Append(stream[r], <<"pack", First(r)>>) \in Seq(Op)
    <3>1. <<"pack", First(r)>> \in Op /\ stream[r] \in Seq(Op) BY <1>3, <1>o, <1>t DEF PackLocal
    <3> QED BY <3>1, AppendType, Zenon
  <2>3. stream' \in [Rank -> Seq(Op)] BY <2>1, <2>2
  <2>4. pc' \in [Rank -> Pc] BY <1>3, <1>p DEF PackLocal, Step
  <2> QED BY <1>3, <2>3, <2>4 DEF PackLocal
<1>4. CASE HandDirect(r)
  <2>0. First(r) \in Rank
    <3>1. todo[r] # {} BY <1>4 DEF Hosts, HostOf, HandDirect
    <3> QED BY <3>1, <1>t
  <2>1. stream' = [stream EXCEPT ![r] = Append(stream[r], <<"put", First(r)>>)]
    BY <1>4 DEF HandDirect, Enqueue
  <2>2. Append(stream[r], <<"put", First(r)>>) \in Seq(Op)
    <3>1. <<"put", First(r)>> \in Op /\ stream[r] \in Seq(Op) BY <1>o, <2>0
    <3> QED BY <3>1, AppendType, Zenon
  <2>3. stream' \in [Rank -> Seq(Op)] BY <2>1, <2>2
  <2>4. pc' \in [Rank -> Pc] BY <1>4, <1>p DEF HandDirect, Step
  <2>5. ready' \in [Channel -> Nat]
    <3> DEFINE d == <<r, First(r), K(r)>>
    <3>1. ready[d] > 0 /\ ready' = [ready EXCEPT ![d] = ready[d] - 1]
      BY <1>4 DEF HandDirect, TakeReady
    <3> HIDE DEF d
    <3>2. d \in Channel => ready[d] - 1 \in Nat BY <3>1
    <3> QED BY <3>1, <3>2
  <2>6. tokens' \in [Rank -> SUBSET Rank] BY <1>4, <2>0 DEF HandDirect
  <2>7. todo' \in [Rank -> SUBSET Rank] BY <1>4 DEF HandDirect, Leave
  <2> QED BY <1>4, <2>3, <2>4, <2>5, <2>6, <2>7 DEF HandDirect
<1>5. CASE HandMessage(r)
  <2>1. pc' \in [Rank -> Pc] BY <1>5, <1>p DEF HandMessage, Step
  <2>2. todo' \in [Rank -> SUBSET Rank] BY <1>5 DEF HandMessage, Leave
  <2>3. msgs' \in [Channel -> Seq(Message)]
    <3> DEFINE d == <<r, First(r), K(r)>>
    <3>1. msgs' = [msgs EXCEPT ![d] = Append(msgs[d], Held)] BY <1>5 DEF HandMessage
    <3> HIDE DEF d
    <3>2. d \in Channel => Append(msgs[d], Held) \in Seq(Message) BY DEF Message
    <3> QED BY <3>1, <3>2
  <2> QED BY <1>5, <2>1, <2>2, <2>3 DEF HandMessage
<1>6. CASE PutField(r)
  <2>0. First(r) \in Rank BY <1>6, <1>t DEF PutField
  <2>1. stream' = [stream EXCEPT ![r] = Append(stream[r], <<"putfield", First(r)>>)]
    BY <1>6 DEF PutField, Enqueue
  <2>2. Append(stream[r], <<"putfield", First(r)>>) \in Seq(Op)
    <3>1. <<"putfield", First(r)>> \in Op /\ stream[r] \in Seq(Op) BY <1>o, <2>0
    <3> QED BY <3>1, AppendType, Zenon
  <2>3. stream' \in [Rank -> Seq(Op)] BY <2>1, <2>2
  <2>5. ready' \in [Channel -> Nat]
    <3> DEFINE d == <<r, First(r), K(r)>>
    <3>1. ready[d] > 0 /\ ready' = [ready EXCEPT ![d] = ready[d] - 1]
      BY <1>6 DEF PutField, TakeReady
    <3> HIDE DEF d
    <3>2. d \in Channel => ready[d] - 1 \in Nat BY <3>1
    <3> QED BY <3>1, <3>2
  <2>6. tokens' \in [Rank -> SUBSET Rank] BY <1>6, <2>0 DEF PutField
  <2>7. todo' \in [Rank -> SUBSET Rank] BY <1>6 DEF PutField, Leave
  <2> QED BY <1>6, <2>3, <2>5, <2>6, <2>7 DEF PutField
<1>7. CASE CommTokenFlush(r)
  <2>1. pc' \in [Rank -> Pc] BY <1>7, <1>p DEF CommTokenFlush, Step
  <2>2. tokens' \in [Rank -> SUBSET Rank] BY <1>7 DEF CommTokenFlush, ResetTokens
  <2>3. deliv' \in [Channel -> Nat] BY <1>7 DEF CommTokenFlush
  <2> QED BY <1>7, <2>1, <2>2, <2>3 DEF CommTokenFlush
<1>8. CASE Waitall(r)
  <2>1. pc' \in [Rank -> Pc] BY <1>8, <1>p DEF Waitall, Step
  <2>2. todo' = [todo EXCEPT ![r] = In(K(r), r)] BY <1>8 DEF Waitall
  <2>3. todo' \in [Rank -> SUBSET Rank] BY <2>2
  <2> QED BY <1>8, <2>1, <2>3 DEF Waitall
<1>9. CASE WaitAndUnpack(r)
  <2>0. First(r) \in Rank BY <1>9, <1>t DEF WaitAndUnpack
  <2>1. deliv' \in [Channel -> Nat]
    <3> DEFINE d == <<First(r), r, K(r)>>
    <3>1. (deliv[d] > 0 /\ deliv' = [deliv EXCEPT ![d] = deliv[d] - 1]) \/ deliv' = deliv
      BY <1>9 DEF WaitAndUnpack, TakeDelivered
    <3> HIDE DEF d
    <3>2. d \in Channel /\ deliv[d] > 0 => deliv[d] - 1 \in Nat OBVIOUS
    <3> QED BY <3>1, <3>2
  <2>2. unpacks' \in [Rank -> SUBSET Rank] BY <1>9, <2>0 DEF WaitAndUnpack
  <2>3. todo' \in [Rank -> SUBSET Rank] BY <1>9 DEF WaitAndUnpack, Leave
  <2> QED BY <1>9, <2>1, <2>2, <2>3 DEF WaitAndUnpack
<1>10. CASE Finish(r)
  <2>1. pc' \in [Rank -> Pc] BY <1>10, <1>p DEF Finish, Step
  <2>2. gen' \in [Rank -> Int] BY <1>10, <1>f DEF Finish
  <2> QED BY <1>10, <2>1, <2>2 DEF Finish
<1> QED BY <1>1, <1>2, <1>3, <1>4, <1>5, <1>6, <1>7, <1>8, <1>9, <1>10 DEF Host

LEMMA GpuTyped ==
  ASSUME Types, Hosts, NEW r \in Rank, RunStream(r) \/ \E q \in Rank : RunUnpack(r, q)
  PROVE  Types'
<1> USE DEF Types, conf, hostVars, gpuVars, bufVars, mpiVars
<1>1. CASE RunStream(r)
  <2>1. num[r] \in 1 .. Total BY <1>1, Engaged DEF RunStream
  <2>2. Head(stream[r]) \in Op /\ Tail(stream[r]) \in Seq(Op) BY <1>1 DEF RunStream
  <2>3. Head(stream[r])[2] \in Rank BY <2>2 DEF Op
  <2>4. sendBuf' \in [Rank -> SUBSET (Rank \X (1 .. Total))]
    <3> DEFINE b == Into(sendBuf[r], Head(stream[r])[2], num[r], gen[r] = num[r])
    <3>1. b \in SUBSET (Rank \X (1 .. Total)) BY <2>1, <2>3, IntoType
    <3>2. sendBuf' = sendBuf \/ sendBuf' = [sendBuf EXCEPT ![r] = b] BY <1>1 DEF RunStream
    <3> HIDE DEF b
    <3> QED BY <3>1, <3>2
  <2>5. recvBuf' \in [Rank -> SUBSET (Rank \X (1 .. Total))]
    <3> DEFINE q == Head(stream[r])[2]
               b == Into(recvBuf[q], r, num[r], <<q, num[r]>> \in sendBuf[r])
               d == Into(recvBuf[q], r, num[r], gen[r] = num[r])
    <3>1. b \in SUBSET (Rank \X (1 .. Total)) /\ d \in SUBSET (Rank \X (1 .. Total))
      BY <2>1, <2>3, IntoType
    <3>2. \/ recvBuf' = recvBuf \/ recvBuf' = [recvBuf EXCEPT ![q] = b]
          \/ recvBuf' = [recvBuf EXCEPT ![q] = d]
      BY <1>1 DEF RunStream
    <3> HIDE DEF b, d
    <3> QED BY <3>1, <3>2
  <2>6. stream' \in [Rank -> Seq(Op)]
    <3>1. stream' = [stream EXCEPT ![r] = Tail(stream[r])] BY <1>1 DEF RunStream
    <3> QED BY <3>1, <2>2
  <2> QED BY <1>1, <2>4, <2>5, <2>6 DEF RunStream
<1>2. ASSUME NEW q \in Rank, RunUnpack(r, q) PROVE Types'
  <2>1. got' \in [Rank -> SUBSET Rank] /\ unpacks' \in [Rank -> SUBSET Rank]
    BY <1>2 DEF RunUnpack
  <2> QED BY <1>2, <2>1 DEF RunUnpack
<1> QED BY <1>1, <1>2

LEMMA MpiTyped ==
  ASSUME Types, Hosts, NEW c \in Channel, Buffer(c) \/ Deliver(c)
  PROVE  Types'
<1> USE DEF Types, conf, hostVars, gpuVars, bufVars, mpiVars
<1>1. Packed(c) \in Message BY PackedType
<1>2. CASE Buffer(c)
  <2>1. PICK i \in DOMAIN msgs[c] : msgs' = [msgs EXCEPT ![c] = [msgs[c] EXCEPT ![i] = Packed(c)]]
    BY <1>2 DEF Buffer
  <2>2. [msgs[c] EXCEPT ![i] = Packed(c)] \in Seq(Message) BY <1>1
  <2>3. msgs' \in [Channel -> Seq(Message)] BY <2>1, <2>2
  <2> QED BY <1>2, <2>3 DEF Buffer
<1>3. CASE Deliver(c)
  <2>1. c[1] \in Rank /\ c[2] \in Rank /\ num[c[2]] \in 1 .. Total
    BY <1>3, Channels, Engaged DEF Deliver
  <2>2. recvBuf' \in [Rank -> SUBSET (Rank \X (1 .. Total))]
    <3>1. PICK b : recvBuf' = [recvBuf EXCEPT ![c[2]] = Into(recvBuf[c[2]], c[1], num[c[2]], b)]
      BY <1>3 DEF Deliver
    <3>2. Into(recvBuf[c[2]], c[1], num[c[2]], b) \in SUBSET (Rank \X (1 .. Total))
      BY <2>1, IntoType
    <3> QED BY <3>1, <3>2
  <2>3. msgs' \in [Channel -> Seq(Message)]
    <3>1. Tail(msgs[c]) \in Seq(Message) BY <1>3 DEF Deliver
    <3>2. msgs' = [msgs EXCEPT ![c] = Tail(msgs[c])] BY <1>3 DEF Deliver
    <3> QED BY <3>1, <3>2
  <2>4. posted' \in [Rank -> SUBSET Rank] BY <1>3, <2>1 DEF Deliver
  <2> QED BY <1>3, <2>2, <2>3, <2>4 DEF Deliver
<1> QED BY <1>2, <1>3

-----------------------------------------------------------------------------
(* The numbers of a channel.                                               *)

LEMMA Begun == ASSUME Types, NEW r \in Rank PROVE num[r] \in Nat
BY Rows DEF Types

LEMMA CntOf ==
  ASSUME Types, NEW r \in Rank, NEW k \in Kinds
  PROVE  Cnt(k, num[r]) \in Nat /\ (Busy(k, r) => Cnt(k, num[r]) >= 1)
<1>1. num[r] \in Nat BY Begun
<1>2. ASSUME Busy(k, r) PROVE Cnt(k, num[r]) >= 1
  <2>1. num[r] \in Nat \ {0} /\ Kind(num[r]) = k BY <1>1, <1>2 DEF Busy, K
  <2> QED BY <2>1, CntPositive
<1> QED BY <1>1, <1>2, CntType

LEMMA Numbers ==
  ASSUME Types, NEW c \in Channel
  PROVE  /\ PostedNo(c) \in Nat /\ HandedNo(c) \in Nat /\ FlushedNo(c) \in Nat
         /\ WaitedNo(c) \in Nat /\ ReceivedNo(c) \in Nat
         /\ FlushedNo(c) <= HandedNo(c) /\ HandedNo(c) <= Cnt(c[3], num[c[1]])
         /\ WaitedNo(c) <= PostedNo(c) /\ PostedNo(c) <= WaitedNo(c) + 1
<1> DEFINE m == Cnt(c[3], num[c[1]])  n == Cnt(c[3], num[c[2]])
<1>1. c[1] \in Rank /\ c[2] \in Rank /\ c[3] \in Kinds BY Channels
<1>2. m \in Nat /\ (Busy(c[3], c[1]) => m >= 1) /\ n \in Nat /\ (Busy(c[3], c[2]) => n >= 1)
  BY <1>1, CntOf
<1>3. Flushed(c[1]) => Handed(c[1], c[2]) BY DEF Flushed, Handed
<1>4. PostedNo(c) = n BY DEF PostedNo
<1>5. HandedNo(c) = IF Busy(c[3], c[1]) /\ ~Handed(c[1], c[2]) THEN m - 1 ELSE m
  BY <1>2 DEF HandedNo, One
<1>6. FlushedNo(c) = IF Busy(c[3], c[1]) /\ ~Flushed(c[1]) THEN m - 1 ELSE m
  BY <1>2 DEF FlushedNo, One
<1>7. WaitedNo(c) = IF Busy(c[3], c[2]) /\ ~Waited(c[2], c[1]) THEN n - 1 ELSE n
  BY <1>2 DEF WaitedNo, One
<1>8. ReceivedNo(c) = IF Busy(c[3], c[2]) /\ c[1] \in posted[c[2]] THEN n - 1 ELSE n
  BY <1>2 DEF ReceivedNo, One
<1>9. HandedNo(c) \in Nat /\ FlushedNo(c) \in Nat /\ FlushedNo(c) <= HandedNo(c) /\ HandedNo(c) <= m
  <2> HIDE DEF m
  <2> QED BY <1>2, <1>3, <1>5, <1>6
<1>10. /\ PostedNo(c) \in Nat /\ WaitedNo(c) \in Nat /\ ReceivedNo(c) \in Nat
       /\ WaitedNo(c) <= PostedNo(c) /\ PostedNo(c) <= WaitedNo(c) + 1
  <2> HIDE DEF n
  <2> QED BY <1>2, <1>4, <1>7, <1>8
<1> QED BY <1>9, <1>10

\* A sender is at most one message of a channel ahead of the receiver, counting
\* the one it is about to hand over unless it waits for the reduction.
LEMMA Window ==
  ASSUME Types, Hosts, Pace, NEW c \in Channel
  PROVE  /\ HandedNo(c) <= ReceivedNo(c) + 1
         /\ pc[c[1]] # "reduce" => Cnt(c[3], num[c[1]]) <= ReceivedNo(c) + 1
<1> DEFINE k == c[3]  s == c[1]  r == c[2]
<1>1. s \in Rank /\ r \in Rank /\ k \in Kinds BY Channels
<1>2. num[s] \in Nat /\ num[r] \in Nat BY <1>1, Begun
<1>3. Paced(s) \in Nat /\ HandedNo(c) <= Cnt(k, Paced(s)) /\ Cnt(k, Paced(s)) \in Nat
  <2>1. CASE pc[s] = "reduce"
    <3>1. num[s] > 0 BY <1>1, <2>1, Engaged
    <3>2. num[s] - 1 \in Nat /\ (num[s] - 1) + 1 = num[s] /\ Paced(s) = num[s] - 1
      BY <1>2, <2>1, <3>1 DEF Paced, One
    <3>3. Cnt(k, num[s]) = IF Busy(k, s) THEN Cnt(k, num[s] - 1) + 1 ELSE Cnt(k, num[s] - 1)
      <4>1. Busy(k, s) <=> Kind((num[s] - 1) + 1) = k BY <3>1, <3>2 DEF Busy, K
      <4> QED BY <1>1, <3>2, <4>1, CntNext
    <3>4. ~Handed(s, r) BY <2>1 DEF Handed
    <3>5. Cnt(k, num[s] - 1) \in Nat /\ Cnt(k, num[s]) \in Nat BY <1>1, <1>2, <3>2, CntType
    <3> QED BY <3>2, <3>3, <3>4, <3>5 DEF HandedNo, One
  <2>2. CASE pc[s] # "reduce"
    <3>1. Paced(s) = num[s] BY <1>2, <2>2 DEF Paced, One
    <3> QED BY <1>1, <1>2, <3>1, Numbers, CntType
  <2> QED BY <2>1, <2>2
<1>4. Cnt(k, num[r]) \in Nat /\ (Busy(k, r) => Cnt(k, num[r]) >= 1) BY <1>1, CntOf
<1>5. HandedNo(c) \in Nat BY Numbers
<1>6. Cnt(k, Paced(s)) <= ReceivedNo(c) + 1
  <2>1. CASE Paced(s) > 3
    <3>1. Cnt("sbn", num[r]) >= Cnt("sbn", Paced(s)) BY <1>1, <2>1 DEF Pace
    <3>2. Cnt(k, Paced(s)) <= Cnt(k, num[r]) + 1 BY <1>1, <1>2, <1>3, <3>1, CntPaced
    <3>3. Busy(k, r) => Cnt(k, Paced(s)) <= Cnt(k, num[r])
      BY <1>1, <1>2, <1>3, <3>1, CntPaced DEF Busy, K
    <3> QED BY <1>3, <1>4, <3>2, <3>3 DEF ReceivedNo, One
  <2>2. CASE Paced(s) <= 3
    <3>1. Cnt(k, Paced(s)) <= 1 BY <1>1, <1>3, <2>2, CntFirst
    <3> QED BY <1>3, <1>4, <3>1 DEF ReceivedNo, One
  <2> QED BY <1>3, <2>1, <2>2
<1>7. ReceivedNo(c) \in Nat BY Numbers
<1>8. pc[s] # "reduce" => Paced(s) = num[s] BY <1>2 DEF Paced, One
<1> QED BY <1>3, <1>5, <1>6, <1>7, <1>8

\* The receiver of a copy that has not been flushed is in the same exchange, and
\* still waits for it.
LEMMA SameExchange ==
  ASSUME Types, Counts, NEW r \in Rank, NEW q \in Out(K(r), r), num[r] > 0,
         Direct(r, q), Handed(r, q), ~Flushed(r)
  PROVE  num[q] = num[r] /\ ~Waited(q, r) /\ Busy(K(r), q) /\ q \in Rank
<1> DEFINE k == K(r)  c == <<r, q, k>>
<1>1. num[r] \in Nat \ {0} /\ Kind(num[r]) = k /\ k \in Kinds BY Begun, KindType DEF K
<1>2. q \in Rank /\ c \in Channel BY <1>1, Channels
<1>3. c[1] = r /\ c[2] = q /\ c[3] = k OBVIOUS
<1>4. Busy(k, r) BY <1>1 DEF Busy
<1> HIDE DEF c, k
<1>5. HandedNo(c) = Cnt(k, num[r]) /\ FlushedNo(c) = Cnt(k, num[r]) - 1
  <2>1. Cnt(k, num[r]) \in Nat BY <1>1, CntOf
  <2> QED BY <1>3, <1>4, <2>1 DEF HandedNo, FlushedNo, One
<1>6. HandedNo(c) <= PostedNo(c) /\ WaitedNo(c) <= FlushedNo(c)
  <2>1. ready[c] = PostedNo(c) - HandedNo(c) /\ deliv[c] = FlushedNo(c) - WaitedNo(c)
    BY <1>2, <1>3 DEF Counts, CountsOf
  <2>2. ready[c] \in Nat /\ deliv[c] \in Nat BY <1>2 DEF Types
  <2> QED BY <1>2, <2>1, <2>2, Numbers
<1>7. PostedNo(c) = Cnt(k, num[r]) /\ WaitedNo(c) = PostedNo(c) - 1 /\ PostedNo(c) = Cnt(k, num[q])
  <2>1. PostedNo(c) = Cnt(k, num[q]) BY <1>3 DEF PostedNo
  <2>2. Cnt(k, num[r]) \in Nat BY <1>1, CntOf
  <2> QED BY <1>2, <1>5, <1>6, <2>1, <2>2, Numbers
<1>8. Busy(k, q) /\ ~Waited(q, r)
  <2>1. Cnt(k, num[q]) \in Nat BY <1>1, <1>2, CntOf
  <2> QED BY <1>3, <1>7, <2>1 DEF WaitedNo, One
<1>9. num[q] = num[r]
  <2>1. num[q] \in Nat \ {0} /\ Kind(num[q]) = k BY <1>2, <1>8, Begun DEF Busy, K
  <2>2. Cnt(k, num[q]) = Cnt(k, num[r]) /\ Cnt(k, num[q]) \in Nat BY <1>1, <1>2, <1>7, CntOf
  <2>3. num[q] >= num[r] /\ num[r] >= num[q] BY <1>1, <2>1, <2>2, CntLeast
  <2> QED BY <1>1, <2>1, <2>3
<1> QED BY <1>2, <1>8, <1>9 DEF k

\* What does not move keeps its numbers.
LEMMA SenderKept ==
  ASSUME NEW c \in Channel, num'[c[1]] = num[c[1]], Flushed(c[1])' <=> Flushed(c[1]),
         Handed(c[1], c[2])' <=> Handed(c[1], c[2])
  PROVE  HandedNo(c)' = HandedNo(c) /\ FlushedNo(c)' = FlushedNo(c)
BY DEF HandedNo, FlushedNo, Busy, K

LEMMA ReceiverKept ==
  ASSUME NEW c \in Channel, num'[c[2]] = num[c[2]], Waited(c[2], c[1])' <=> Waited(c[2], c[1]),
         (c[1] \in posted'[c[2]]) <=> (c[1] \in posted[c[2]])
  PROVE  /\ PostedNo(c)' = PostedNo(c) /\ WaitedNo(c)' = WaitedNo(c)
         /\ ReceivedNo(c)' = ReceivedNo(c)
BY DEF PostedNo, WaitedNo, ReceivedNo, Busy, K

-----------------------------------------------------------------------------
(* Frames: what a step of one rank leaves alone.                           *)

LEMMA HostFrame ==
  ASSUME Types, NEW r \in Rank, Host(r)
  PROVE  /\ ipc' = ipc /\ packing' = packing /\ sendBuf' = sendBuf /\ recvBuf' = recvBuf
         /\ \A q \in Rank \ {r} :
              /\ num'[q] = num[q] /\ pc'[q] = pc[q] /\ todo'[q] = todo[q]
              /\ tokens'[q] = tokens[q] /\ posted'[q] = posted[q] /\ stream'[q] = stream[q]
              /\ unpacks'[q] = unpacks[q] /\ got'[q] = got[q] /\ gen'[q] = gen[q]
<1> USE DEF Types, conf, hostVars, gpuVars, bufVars, mpiVars, Step, Leave, Enqueue, ResetTokens
<1>1. CASE CommRecv(r) BY <1>1 DEF CommRecv
<1>2. CASE TimeIncrement(r) BY <1>2 DEF TimeIncrement
<1>3. CASE PackLocal(r) BY <1>3 DEF PackLocal
<1>4. CASE HandDirect(r) BY <1>4 DEF HandDirect
<1>5. CASE HandMessage(r) BY <1>5 DEF HandMessage
<1>6. CASE PutField(r) BY <1>6 DEF PutField
<1>7. CASE CommTokenFlush(r) BY <1>7 DEF CommTokenFlush
<1>8. CASE Waitall(r) BY <1>8 DEF Waitall
<1>9. CASE WaitAndUnpack(r) BY <1>9 DEF WaitAndUnpack
<1>10. CASE Finish(r) BY <1>10 DEF Finish
<1> QED BY <1>1, <1>2, <1>3, <1>4, <1>5, <1>6, <1>7, <1>8, <1>9, <1>10 DEF Host

\* The numbers on the sides of ranks that do not move.
LEMMA NumbersFrame ==
  ASSUME Types, NEW r \in Rank, Host(r), NEW c \in Channel
  PROVE  /\ c[1] # r => HandedNo(c)' = HandedNo(c) /\ FlushedNo(c)' = FlushedNo(c)
         /\ c[2] # r => /\ PostedNo(c)' = PostedNo(c) /\ WaitedNo(c)' = WaitedNo(c)
                        /\ ReceivedNo(c)' = ReceivedNo(c)
<1>1. c[1] \in Rank /\ c[2] \in Rank BY Channels
<1>2. ASSUME c[1] # r PROVE HandedNo(c)' = HandedNo(c) /\ FlushedNo(c)' = FlushedNo(c)
  <2>1. num'[c[1]] = num[c[1]] /\ pc'[c[1]] = pc[c[1]] /\ todo'[c[1]] = todo[c[1]]
    BY <1>1, <1>2, HostFrame
  <2>2. (Flushed(c[1])' <=> Flushed(c[1])) /\ (Handed(c[1], c[2])' <=> Handed(c[1], c[2]))
    BY <2>1 DEF Flushed, Handed
  <2> QED BY <2>1, <2>2, SenderKept
<1>3. ASSUME c[2] # r
      PROVE  /\ PostedNo(c)' = PostedNo(c) /\ WaitedNo(c)' = WaitedNo(c)
             /\ ReceivedNo(c)' = ReceivedNo(c)
  <2>1. /\ num'[c[2]] = num[c[2]] /\ pc'[c[2]] = pc[c[2]] /\ todo'[c[2]] = todo[c[2]]
        /\ posted'[c[2]] = posted[c[2]]
    BY <1>1, <1>3, HostFrame
  <2>2. Waited(c[2], c[1])' <=> Waited(c[2], c[1]) BY <2>1 DEF Waited
  <2> QED BY <2>1, <2>2, ReceiverKept
<1> QED BY <1>2, <1>3

LEMMA CountsKept ==
  ASSUME NEW c \in Channel, CountsOf(c), ipc' = ipc, ready'[c] = ready[c], deliv'[c] = deliv[c],
         msgs'[c] = msgs[c], PostedNo(c)' = PostedNo(c), HandedNo(c)' = HandedNo(c),
         FlushedNo(c)' = FlushedNo(c), WaitedNo(c)' = WaitedNo(c), ReceivedNo(c)' = ReceivedNo(c)
  PROVE  CountsOf(c)'
BY DEF CountsOf, Direct

-----------------------------------------------------------------------------
(* The tokens are the differences of the numbers.                          *)

\* Who begins an exchange has not handed anything over in it.
LEMMA CommRecvHanded ==
  ASSUME Types, NEW r \in Rank, CommRecv(r), NEW c \in Channel
  PROVE  HandedNo(c)' = HandedNo(c) /\ FlushedNo(c)' = FlushedNo(c)
<1> DEFINE k == Kind(num[r] + 1)
<1>1. Host(r) BY DEF Host
<1>2. /\ pc[r] = "unpack" /\ num'[r] = num[r] + 1 /\ pc'[r] \in {"reduce", "send"}
      /\ todo'[r] = Out(k, r)
  BY DEF CommRecv, Types
<1>3. num[r] \in Nat BY Begun
<1>4. c[3] \in Kinds /\ c[2] \in Out(c[3], c[1]) BY Channels
<1>5. CASE c[1] # r BY <1>1, <1>5, NumbersFrame
<1>6. CASE c[1] = r
  <2>1. Cnt(c[3], num'[r]) = IF c[3] = k THEN Cnt(c[3], num[r]) + 1 ELSE Cnt(c[3], num[r])
    BY <1>2, <1>3, <1>4, CntNext
  <2>2. Cnt(c[3], num[r]) \in Nat BY <1>4, CntOf
  <2>3. HandedNo(c) = Cnt(c[3], num[r]) /\ FlushedNo(c) = Cnt(c[3], num[r])
    BY <1>2, <1>6, <2>2 DEF HandedNo, FlushedNo, Handed, Flushed, One
  <2>4. Busy(c[3], r)' <=> c[3] = k BY <1>2, <1>3 DEF Busy, K
  <2>5. c[3] = k => ~Handed(r, c[2])' /\ ~Flushed(r)' BY <1>2, <1>4, <1>6 DEF Handed, Flushed
  <2>6. HandedNo(c)' = Cnt(c[3], num'[r]) - One(Busy(c[3], r)' /\ ~Handed(r, c[2])')
    BY <1>6 DEF HandedNo
  <2>7. FlushedNo(c)' = Cnt(c[3], num'[r]) - One(Busy(c[3], r)' /\ ~Flushed(r)')
    BY <1>6 DEF FlushedNo
  <2> QED BY <2>1, <2>2, <2>3, <2>4, <2>5, <2>6, <2>7 DEF One
<1> QED BY <1>5, <1>6

LEMMA CommRecvCounts ==
  ASSUME Types, Hosts, Counts, NEW r \in Rank, CommRecv(r)
  PROVE  Counts'
<1> DEFINE k == Kind(num[r] + 1)
<1>1. Host(r) /\ ipc' = ipc /\ deliv' = deliv /\ msgs' = msgs BY DEF CommRecv, Host, conf
<1>2. /\ pc[r] = "unpack" /\ todo[r] = {} /\ num'[r] = num[r] + 1
      /\ pc'[r] \in {"reduce", "send"} /\ todo'[r] = Out(k, r)
      /\ posted'[r] = In(k, r) \ Callers(k, r)
  BY DEF CommRecv, Types
<1>3. num[r] \in Nat /\ k \in Kinds
  <2>1. num[r] \in Nat BY Begun
  <2> QED BY <2>1, KindType
<1>4. posted[r] = {} BY <1>2 DEF Hosts, HostOf, Waited
<1> SUFFICES ASSUME NEW c \in Channel PROVE CountsOf(c)' BY DEF Counts
<1>5. c[1] \in Rank /\ c[2] \in Rank /\ c[3] \in Kinds /\ c[1] # c[2]
      /\ c[1] \in In(c[3], c[2]) /\ c[2] \in Out(c[3], c[1])
  BY Channels
<1>6. CountsOf(c) BY DEF Counts
<1>7. CASE c[1] = r
  <2>1. ready'[c] = ready[c] BY <1>5, <1>7 DEF CommRecv
  <2>2. c[2] # r BY <1>5, <1>7
  <2> QED BY <1>1, <1>6, <2>1, <2>2, CommRecvHanded, NumbersFrame, CountsKept
<1>8. CASE c[2] = r
  <2>1. Cnt(c[3], num'[r]) = IF c[3] = k THEN Cnt(c[3], num[r]) + 1 ELSE Cnt(c[3], num[r])
    BY <1>2, <1>3, <1>5, CntNext
  <2>2. Cnt(c[3], num[r]) \in Nat BY <1>5, CntOf
  <2>3. /\ PostedNo(c) = Cnt(c[3], num[r]) /\ WaitedNo(c) = Cnt(c[3], num[r])
        /\ ReceivedNo(c) = Cnt(c[3], num[r])
    BY <1>2, <1>4, <1>8, <2>2 DEF PostedNo, WaitedNo, ReceivedNo, Waited, One
  <2>4. Busy(c[3], r)' <=> c[3] = k BY <1>2, <1>3 DEF Busy, K
  <2>5. ~Waited(r, c[1])' BY <1>2 DEF Waited
  <2>6. c[3] = k => (c[1] \in posted'[r] <=> ~Direct(r, c[1])) BY <1>2, <1>5, <1>8 DEF Callers
  <2>7. /\ PostedNo(c)' = Cnt(c[3], num'[r])
        /\ WaitedNo(c)' = Cnt(c[3], num'[r]) - One(Busy(c[3], r)' /\ ~Waited(r, c[1])')
        /\ ReceivedNo(c)' = Cnt(c[3], num'[r]) - One(Busy(c[3], r)' /\ c[1] \in posted'[r])
    BY <1>8 DEF PostedNo, WaitedNo, ReceivedNo
  <2>8. WaitedNo(c)' = WaitedNo(c) BY <2>1, <2>2, <2>3, <2>4, <2>5, <2>7 DEF One
  <2>10. HandedNo(c)' = HandedNo(c) /\ FlushedNo(c)' = FlushedNo(c) BY CommRecvHanded
  <2>11. ready'[c] = IF c[1] \in Callers(k, r) /\ c[3] = k THEN ready[c] + 1 ELSE ready[c]
    BY <1>8 DEF CommRecv
  <2>12. CASE Direct(r, c[1])
    <3>1. Direct(c[1], c[2]) BY <1>8, <2>12, DirectBoth
    <3>2. c[3] = k => c[1] \in Callers(k, r) BY <1>5, <1>8, <2>12 DEF Callers
    <3>3. ready'[c] = PostedNo(c)' - HandedNo(c)'
      <4>1. ready[c] = PostedNo(c) - HandedNo(c) BY <1>6, <3>1 DEF CountsOf
      <4>2. HandedNo(c) \in Nat BY Numbers
      <4> QED BY <2>1, <2>2, <2>3, <2>7, <2>10, <2>11, <3>2, <4>1, <4>2
    <3> QED BY <1>1, <1>6, <2>8, <2>10, <3>1, <3>3 DEF CountsOf, Direct
  <2>13. CASE ~Direct(r, c[1])
    <3>1. ~Direct(c[1], c[2]) BY <1>8, <2>13, DirectBoth
    <3>2. ReceivedNo(c)' = ReceivedNo(c) BY <2>1, <2>2, <2>3, <2>4, <2>6, <2>7, <2>13 DEF One
    <3>3. ready'[c] = ready[c] BY <2>11, <2>13 DEF Callers
    <3> QED BY <1>1, <1>6, <2>10, <3>1, <3>2, <3>3 DEF CountsOf, Direct
  <2> QED BY <2>12, <2>13
<1>9. CASE c[1] # r /\ c[2] # r
  <2>1. ready'[c] = ready[c] BY <1>9 DEF CommRecv
  <2> QED BY <1>1, <1>6, <1>9, <2>1, NumbersFrame, CountsKept
<1> QED BY <1>7, <1>8, <1>9

\* The numbers after a message was handed over.
LEMMA HandNumbers ==
  ASSUME Types, NEW r \in Rank, Host(r), NEW q \in Out(K(r), r), num' = num, num[r] > 0,
         pc[r] \in {"send", "hand"}, pc'[r] = "send", q \in todo[r], todo'[r] = todo[r] \ {q},
         posted' = posted, NEW c \in Channel
  PROVE  /\ HandedNo(c)' = IF c = <<r, q, K(r)>> THEN HandedNo(c) + 1 ELSE HandedNo(c)
         /\ FlushedNo(c)' = FlushedNo(c) /\ PostedNo(c)' = PostedNo(c)
         /\ WaitedNo(c)' = WaitedNo(c) /\ ReceivedNo(c)' = ReceivedNo(c)
<1>1. c[1] \in Rank /\ c[2] \in Rank /\ c[3] \in Kinds /\ c[1] # c[2] /\ c = <<c[1], c[2], c[3]>>
  BY Channels
<1>2. PostedNo(c)' = PostedNo(c) /\ WaitedNo(c)' = WaitedNo(c) /\ ReceivedNo(c)' = ReceivedNo(c)
  <2>1. CASE c[2] # r BY <2>1, NumbersFrame
  <2>2. CASE c[2] = r
    <3>1. ~Waited(r, c[1]) /\ ~Waited(r, c[1])' BY DEF Waited
    <3> QED BY <2>2, <3>1, ReceiverKept
  <2> QED BY <2>1, <2>2
<1>3. CASE c[1] # r BY <1>1, <1>2, <1>3, NumbersFrame
<1>4. CASE c[1] = r /\ c # <<r, q, K(r)>>
  <2>1. c[3] # K(r) \/ c[2] # q BY <1>1, <1>4
  <2>2. CASE c[3] # K(r)
    <3>1. ~Busy(c[3], r) /\ ~Busy(c[3], r)' BY <2>2 DEF Busy, K
    <3>2. Cnt(c[3], num'[r]) = Cnt(c[3], num[r]) OBVIOUS
    <3> QED BY <1>2, <1>4, <3>1, <3>2 DEF HandedNo, FlushedNo
  <2>3. CASE c[2] # q
    <3>1. (Handed(r, c[2])' <=> Handed(r, c[2])) /\ (Flushed(r)' <=> Flushed(r))
      BY <2>3 DEF Handed, Flushed
    <3> QED BY <1>2, <1>4, <3>1, SenderKept
  <2> QED BY <2>1, <2>2, <2>3
<1>5. CASE c = <<r, q, K(r)>>
  <2>1. c[1] = r /\ c[2] = q /\ c[3] = K(r) BY <1>5
  <2>2. Busy(K(r), r) /\ Busy(c[3], r)' BY <2>1 DEF Busy, K
  <2>3. ~Handed(r, q) /\ Handed(r, q)' /\ ~Flushed(r) /\ ~Flushed(r)' BY DEF Handed, Flushed
  <2>4. Cnt(c[3], num[r]) \in Nat /\ Cnt(c[3], num'[r]) = Cnt(c[3], num[r]) BY <1>1, CntOf
  <2>5. HandedNo(c) = Cnt(c[3], num[r]) - 1 BY <2>1, <2>2, <2>3 DEF HandedNo, One
  <2>6. HandedNo(c)' = Cnt(c[3], num[r])
    <3>1. HandedNo(c)' = Cnt(c[3], num[r]) - 0 BY <2>1, <2>3, <2>4 DEF HandedNo, One
    <3> QED BY <2>4, <3>1
  <2>7. FlushedNo(c)' = FlushedNo(c) BY <2>1, <2>2, <2>3, <2>4 DEF FlushedNo, One
  <2> QED BY <1>2, <1>5, <2>4, <2>5, <2>6, <2>7
<1> QED BY <1>3, <1>4, <1>5

\* A copy that takes a ready token: HandDirect and PutField.
LEMMA TakeReadyCounts ==
  ASSUME Types, Counts, NEW r \in Rank, Host(r), NEW q \in Out(K(r), r), num' = num, num[r] > 0,
         pc[r] \in {"send", "hand"}, pc'[r] = "send", q \in todo[r], todo'[r] = todo[r] \ {q},
         posted' = posted, deliv' = deliv, msgs' = msgs, Direct(r, q), TakeReady(r, q)
  PROVE  Counts'
<1> DEFINE d == <<r, q, K(r)>>
<1>1. d \in Channel
  <2>1. K(r) \in Kinds BY Begun, KindType DEF K
  <2> QED BY <2>1, Channels
<1>2. ready[d] \in Nat /\ ready' = [ready EXCEPT ![d] = ready[d] - 1]
  BY <1>1 DEF TakeReady, Types
<1>3. Direct(d[1], d[2]) OBVIOUS
<1>4. ipc' = ipc BY HostFrame
<1> SUFFICES ASSUME NEW c \in Channel PROVE CountsOf(c)' BY DEF Counts
<1>5. /\ HandedNo(c)' = IF c = d THEN HandedNo(c) + 1 ELSE HandedNo(c)
      /\ FlushedNo(c)' = FlushedNo(c) /\ PostedNo(c)' = PostedNo(c)
      /\ WaitedNo(c)' = WaitedNo(c) /\ ReceivedNo(c)' = ReceivedNo(c)
  BY HandNumbers
<1> HIDE DEF d
<1>6. CASE c = d
  <2>1. CountsOf(c) /\ Direct(c[1], c[2]) /\ Direct(c[1], c[2])' BY <1>3, <1>4, <1>6 DEF Counts, Direct
  <2>2. ready'[c] = ready[c] - 1 BY <1>1, <1>2, <1>6 DEF Types
  <2>3. HandedNo(c) \in Nat /\ PostedNo(c) \in Nat BY Numbers
  <2> QED BY <1>5, <1>6, <2>1, <2>2, <2>3 DEF CountsOf
<1>7. CASE c # d
  <2>1. ready'[c] = ready[c] BY <1>2, <1>7 DEF Types
  <2> QED BY <1>4, <1>5, <1>7, <2>1, CountsKept DEF Counts
<1> QED BY <1>6, <1>7

LEMMA HandMessageCounts ==
  ASSUME Types, Counts, NEW r \in Rank, Host(r), NEW q \in Out(K(r), r), num' = num, num[r] > 0,
         pc[r] \in {"send", "hand"}, pc'[r] = "send", q \in todo[r], todo'[r] = todo[r] \ {q},
         posted' = posted, deliv' = deliv, ready' = ready, ~Direct(r, q),
         msgs' = [msgs EXCEPT ![<<r, q, K(r)>>] = Append(@, Held)]
  PROVE  Counts'
<1> DEFINE d == <<r, q, K(r)>>
<1>1. d \in Channel
  <2>1. K(r) \in Kinds BY Begun, KindType DEF K
  <2> QED BY <2>1, Channels
<1>3. ~Direct(d[1], d[2]) OBVIOUS
<1>4. ipc' = ipc BY HostFrame
<1> SUFFICES ASSUME NEW c \in Channel PROVE CountsOf(c)' BY DEF Counts
<1>5. /\ HandedNo(c)' = IF c = d THEN HandedNo(c) + 1 ELSE HandedNo(c)
      /\ FlushedNo(c)' = FlushedNo(c) /\ PostedNo(c)' = PostedNo(c)
      /\ WaitedNo(c)' = WaitedNo(c) /\ ReceivedNo(c)' = ReceivedNo(c)
  BY HandNumbers
<1>6. msgs' = [msgs EXCEPT ![d] = Append(msgs[d], Held)] OBVIOUS
<1> HIDE DEF d
<1>7. CASE c = d
  <2>1. CountsOf(c) /\ ~Direct(c[1], c[2]) /\ ~Direct(c[1], c[2])' BY <1>3, <1>4, <1>7 DEF Counts, Direct
  <2>2. msgs'[c] = Append(msgs[c], Held) /\ msgs[c] \in Seq(Message) BY <1>1, <1>6, <1>7 DEF Types
  <2>3. Len(msgs'[c]) = Len(msgs[c]) + 1 /\ Len(msgs[c]) \in Nat BY <2>2
  <2>4. HandedNo(c) \in Nat /\ ReceivedNo(c) \in Nat BY Numbers
  <2> QED BY <1>5, <1>7, <2>1, <2>3, <2>4 DEF CountsOf
<1>8. CASE c # d
  <2>1. msgs'[c] = msgs[c] BY <1>6, <1>8 DEF Types
  <2> QED BY <1>4, <1>5, <1>8, <2>1, CountsKept DEF Counts
<1> QED BY <1>7, <1>8

LEMMA CommTokenFlushCounts ==
  ASSUME Types, Hosts, Counts, NEW r \in Rank, CommTokenFlush(r)
  PROVE  Counts'
<1>1. /\ Host(r) /\ ipc' = ipc /\ ready' = ready /\ msgs' = msgs /\ num' = num /\ todo' = todo
      /\ posted' = posted /\ pc[r] = "send" /\ todo[r] = {} /\ pc'[r] = "waitall"
  BY DEF CommTokenFlush, Host, conf, Step, Types
<1>2. num[r] > 0 BY <1>1, Engaged
<1>3. tokens[r] = {q \in Out(K(r), r) : Direct(r, q)} BY <1>1 DEF Hosts, HostOf
<1> SUFFICES ASSUME NEW c \in Channel PROVE CountsOf(c)' BY DEF Counts
<1>4. c[1] \in Rank /\ c[2] \in Rank /\ c[3] \in Kinds /\ c[1] # c[2] /\ c[2] \in Out(c[3], c[1])
  BY Channels
<1>5. deliv'[c] = IF c[1] = r /\ c[2] \in tokens[r] /\ c[3] = K(r) THEN deliv[c] + 1 ELSE deliv[c]
  BY DEF CommTokenFlush
<1>6. PostedNo(c)' = PostedNo(c) /\ WaitedNo(c)' = WaitedNo(c) /\ ReceivedNo(c)' = ReceivedNo(c)
  <2>1. CASE c[2] # r BY <1>1, <2>1, NumbersFrame
  <2>2. CASE c[2] = r
    <3>1. ~Waited(r, c[1]) /\ ~Waited(r, c[1])' BY <1>1 DEF Waited
    <3> QED BY <1>1, <2>2, <3>1, ReceiverKept
  <2> QED BY <2>1, <2>2
<1>7. CASE c[1] # r BY <1>1, <1>5, <1>6, <1>7, NumbersFrame, CountsKept DEF Counts
<1>8. CASE c[1] = r
  <2>1. Handed(r, c[2]) /\ Handed(r, c[2])' /\ ~Flushed(r) /\ Flushed(r)' BY <1>1 DEF Handed, Flushed
  <2>2. Cnt(c[3], num[r]) \in Nat /\ Cnt(c[3], num'[r]) = Cnt(c[3], num[r]) BY <1>1, <1>4, CntOf
  <2>3. HandedNo(c)' = HandedNo(c) BY <1>8, <2>1, <2>2 DEF HandedNo, One
  <2>4. FlushedNo(c)' = Cnt(c[3], num[r])
    <3>1. FlushedNo(c)' = Cnt(c[3], num[r]) - 0 BY <1>8, <2>1, <2>2 DEF FlushedNo, One
    <3> QED BY <2>2, <3>1
  <2>5. CASE c[3] = K(r)
    <3>1. FlushedNo(c) = Cnt(c[3], num[r]) - 1 BY <1>2, <1>8, <2>1, <2>5 DEF FlushedNo, Busy, One
    <3>2. CASE Direct(c[1], c[2])
      <4>1. deliv'[c] = deliv[c] + 1 BY <1>3, <1>4, <1>5, <1>8, <2>5, <3>2
      <4>2. WaitedNo(c) \in Nat BY Numbers
      <4>3. deliv'[c] = FlushedNo(c)' - WaitedNo(c)'
        BY <1>6, <2>2, <2>4, <3>1, <3>2, <4>1, <4>2 DEF Counts, CountsOf
      <4> QED BY <1>1, <1>6, <2>3, <3>2, <4>3 DEF Counts, CountsOf, Direct
    <3>3. CASE ~Direct(c[1], c[2])
      <4>1. deliv'[c] = deliv[c] BY <1>3, <1>5, <1>8, <3>3
      <4> QED BY <1>1, <1>6, <2>3, <3>3, <4>1 DEF Counts, CountsOf, Direct
    <3> QED BY <3>2, <3>3
  <2>6. CASE c[3] # K(r)
    <3>1. FlushedNo(c) = Cnt(c[3], num[r]) - 0 BY <1>8, <2>6 DEF FlushedNo, Busy, One
    <3>2. FlushedNo(c)' = FlushedNo(c) BY <2>2, <2>4, <3>1
    <3>3. deliv'[c] = deliv[c] BY <1>5, <2>6
    <3> QED BY <1>1, <1>6, <2>3, <3>2, <3>3, CountsKept DEF Counts
  <2> QED BY <2>5, <2>6
<1> QED BY <1>7, <1>8

\* Steps that change none of the numbers.
LEMMA QuietCounts ==
  ASSUME Counts, ipc' = ipc, ready' = ready, deliv' = deliv, msgs' = msgs, num' = num,
         posted' = posted,
         \A c \in Channel : /\ (Handed(c[1], c[2])' <=> Handed(c[1], c[2]))
                           /\ (Flushed(c[1])' <=> Flushed(c[1]))
                           /\ (Waited(c[2], c[1])' <=> Waited(c[2], c[1]))
  PROVE  Counts'
<1> SUFFICES ASSUME NEW c \in Channel PROVE CountsOf(c)' BY DEF Counts
<1>1. HandedNo(c)' = HandedNo(c) /\ FlushedNo(c)' = FlushedNo(c) BY SenderKept
<1>2. PostedNo(c)' = PostedNo(c) /\ WaitedNo(c)' = WaitedNo(c) /\ ReceivedNo(c)' = ReceivedNo(c)
  BY ReceiverKept
<1> QED BY <1>1, <1>2, CountsKept DEF Counts

LEMMA WaitallCounts ==
  ASSUME Types, Hosts, Counts, NEW r \in Rank, Waitall(r)
  PROVE  Counts'
<1>1. /\ Host(r) /\ ipc' = ipc /\ ready' = ready /\ msgs' = msgs /\ num' = num /\ deliv' = deliv
      /\ posted' = posted /\ pc[r] = "waitall" /\ pc'[r] = "unpack" /\ todo'[r] = In(K(r), r)
  BY DEF Waitall, Host, conf, mpiVars, Step, Types
<1> SUFFICES ASSUME NEW c \in Channel PROVE CountsOf(c)' BY DEF Counts
<1>2. c[1] \in Rank /\ c[2] \in Rank /\ c[3] \in Kinds /\ c[1] \in In(c[3], c[2]) /\ c[1] # c[2]
  BY Channels
<1>3. HandedNo(c)' = HandedNo(c) /\ FlushedNo(c)' = FlushedNo(c)
  <2>1. CASE c[1] # r BY <1>1, <2>1, NumbersFrame
  <2>2. CASE c[1] = r
    <3>1. Handed(r, c[2]) /\ Handed(r, c[2])' /\ Flushed(r) /\ Flushed(r)'
      BY <1>1 DEF Handed, Flushed
    <3> QED BY <1>1, <2>2, <3>1, SenderKept
  <2> QED BY <2>1, <2>2
<1>4. PostedNo(c)' = PostedNo(c) /\ WaitedNo(c)' = WaitedNo(c) /\ ReceivedNo(c)' = ReceivedNo(c)
  <2>1. CASE c[2] # r BY <1>1, <2>1, NumbersFrame
  <2>2. CASE c[2] = r /\ c[3] = K(r)
    <3>1. ~Waited(r, c[1]) /\ ~Waited(r, c[1])' BY <1>1, <1>2, <2>2 DEF Waited
    <3> QED BY <1>1, <2>2, <3>1, ReceiverKept
  <2>3. CASE c[2] = r /\ c[3] # K(r)
    <3>1. ~Busy(c[3], r) /\ ~Busy(c[3], r)' BY <1>1, <2>3 DEF Busy, K
    <3> QED BY <1>1, <2>3, <3>1 DEF PostedNo, WaitedNo, ReceivedNo
  <2> QED BY <2>1, <2>2, <2>3
<1> QED BY <1>1, <1>3, <1>4, CountsKept DEF Counts

LEMMA WaitAndUnpackCounts ==
  ASSUME Types, Hosts, Counts, NEW r \in Rank, WaitAndUnpack(r)
  PROVE  Counts'
<1>0. todo[r] # {} BY DEF WaitAndUnpack
<1>q. PICK q \in todo[r] : q = First(r) BY <1>0, FirstIn DEF Types
<1>1. /\ Host(r) /\ ipc' = ipc /\ ready' = ready /\ msgs' = msgs /\ num' = num
      /\ posted' = posted /\ pc[r] = "unpack" /\ todo[r] # {} /\ pc'[r] = "unpack"
      /\ todo'[r] = todo[r] \ {q}
  BY <1>q DEF WaitAndUnpack, Host, conf, Leave, Types
<1>2. q \in In(K(r), r) /\ num[r] > 0
  <2>2. num[r] # 0 /\ todo[r] \subseteq In(K(r), r) BY <1>1 DEF Hosts, HostOf
  <2> QED BY <2>2, Begun
<1>3. K(r) \in Kinds /\ <<q, r, K(r)>> \in Channel
  <2>1. K(r) \in Kinds BY <1>2, Begun, KindType DEF K
  <2> QED BY <1>2, <2>1, Channels
<1>4. IF Direct(r, q) THEN TakeDelivered(r, q) ELSE deliv' = deliv BY <1>q DEF WaitAndUnpack
<1> SUFFICES ASSUME NEW c \in Channel PROVE CountsOf(c)' BY DEF Counts
<1>5. c[1] \in Rank /\ c[2] \in Rank /\ c[3] \in Kinds /\ c[1] # c[2] /\ c = <<c[1], c[2], c[3]>>
  BY Channels
<1>6. HandedNo(c)' = HandedNo(c) /\ FlushedNo(c)' = FlushedNo(c)
  <2>1. CASE c[1] # r BY <1>1, <2>1, NumbersFrame
  <2>2. CASE c[1] = r
    <3>1. Handed(r, c[2]) /\ Handed(r, c[2])' /\ Flushed(r) /\ Flushed(r)'
      BY <1>1 DEF Handed, Flushed
    <3> QED BY <1>1, <2>2, <3>1, SenderKept
  <2> QED BY <2>1, <2>2
<1>7. PostedNo(c)' = PostedNo(c) /\ ReceivedNo(c)' = ReceivedNo(c)
  BY <1>1 DEF PostedNo, ReceivedNo, Busy, K
<1>8. CASE c # <<q, r, K(r)>>
  <2>1. WaitedNo(c)' = WaitedNo(c)
    <3>1. CASE c[2] # r BY <1>1, <3>1, NumbersFrame
    <3>2. CASE c[2] = r /\ c[3] # K(r)
      <4>1. ~Busy(c[3], r) /\ ~Busy(c[3], r)' BY <1>1, <3>2 DEF Busy, K
      <4> QED BY <1>1, <3>2, <4>1 DEF WaitedNo
    <3>3. CASE c[2] = r /\ c[1] # q
      <4>1. Waited(r, c[1])' <=> Waited(r, c[1]) BY <1>1, <3>3 DEF Waited
      <4> QED BY <1>1, <3>3, <4>1, ReceiverKept
    <3> QED BY <1>5, <1>8, <3>1, <3>2, <3>3
  <2>2. deliv'[c] = deliv[c] BY <1>4, <1>8 DEF TakeDelivered, Types
  <2> QED BY <1>1, <1>6, <1>7, <2>1, <2>2, CountsKept DEF Counts
<1>9. CASE c = <<q, r, K(r)>>
  <2>1. c[1] = q /\ c[2] = r /\ c[3] = K(r) BY <1>9
  <2>2. CASE Direct(r, q)
    <3>1. Direct(c[1], c[2]) BY <2>1, <2>2, DirectBoth
    <3>2. deliv[c] > 0 /\ deliv[c] \in Nat /\ deliv'[c] = deliv[c] - 1
      BY <1>3, <1>4, <1>9, <2>2 DEF TakeDelivered, Types
    <3>3. ~Waited(r, q) /\ Waited(r, q)' /\ Busy(c[3], r) /\ Busy(c[3], r)'
      BY <1>1, <1>2, <2>1 DEF Waited, Busy, K
    <3>4. Cnt(c[3], num[r]) \in Nat /\ Cnt(c[3], num'[r]) = Cnt(c[3], num[r]) BY <1>1, <1>5, CntOf
    <3>5. WaitedNo(c) = Cnt(c[3], num[r]) - 1 /\ WaitedNo(c)' = Cnt(c[3], num[r]) - 0
      BY <2>1, <3>3, <3>4 DEF WaitedNo, One
    <3>6. FlushedNo(c) \in Nat BY Numbers
    <3>7. deliv'[c] = FlushedNo(c)' - WaitedNo(c)'
      BY <1>6, <3>1, <3>2, <3>4, <3>5, <3>6 DEF Counts, CountsOf
    <3> QED BY <1>1, <1>6, <1>7, <3>1, <3>7 DEF Counts, CountsOf, Direct
  <2>3. CASE ~Direct(r, q)
    <3>1. ~Direct(c[1], c[2]) BY <2>1, <2>3, DirectBoth
    <3> QED BY <1>1, <1>4, <1>6, <1>7, <2>3, <3>1 DEF Counts, CountsOf, Direct
  <2> QED BY <2>2, <2>3
<1> QED BY <1>8, <1>9

LEMMA HostCounts ==
  ASSUME Types, Hosts, Counts, NEW r \in Rank, Host(r)
  PROVE  Counts'
<1> USE DEF conf, mpiVars
<1>t. /\ todo[r] # {} => First(r) \in todo[r]
      /\ pc[r] \in {"send", "hand"} => todo[r] \subseteq Out(K(r), r) /\ num[r] > 0
      /\ pc[r] = "hand" => todo[r] # {}
  BY FirstIn, Engaged DEF Types, Hosts, HostOf
<1>1. CASE CommRecv(r) BY <1>1, CommRecvCounts
<1>2. CASE TimeIncrement(r)
  <2>1. /\ ipc' = ipc /\ ready' = ready /\ deliv' = deliv /\ msgs' = msgs /\ num' = num
        /\ posted' = posted /\ todo' = todo /\ pc' = [pc EXCEPT ![r] = "send"] /\ pc[r] = "reduce"
    BY <1>2 DEF TimeIncrement
  <2>2. todo[r] = Out(K(r), r) BY <2>1 DEF Hosts, HostOf
  <2> SUFFICES ASSUME NEW c \in Channel PROVE CountsOf(c)' BY DEF Counts
  <2>3. c[1] \in Rank /\ c[2] \in Rank /\ c[2] \in Out(c[3], c[1]) /\ c[1] # c[2] BY Channels
  <2>4. HandedNo(c)' = HandedNo(c) /\ FlushedNo(c)' = FlushedNo(c)
    <3>1. CASE c[1] # r BY <1>2, <3>1, NumbersFrame
    <3>2. CASE c[1] = r /\ c[3] = K(r)
      <4>1. ~Handed(r, c[2]) /\ ~Handed(r, c[2])' /\ ~Flushed(r) /\ ~Flushed(r)'
        BY <2>1, <2>2, <2>3, <3>2 DEF Handed, Flushed, Types
      <4> QED BY <2>1, <3>2, <4>1, SenderKept
    <3>3. CASE c[1] = r /\ c[3] # K(r)
      <4>1. ~Busy(c[3], r) /\ ~Busy(c[3], r)' BY <2>1, <3>3 DEF Busy, K
      <4> QED BY <2>1, <3>3, <4>1 DEF HandedNo, FlushedNo
    <3> QED BY <3>1, <3>2, <3>3
  <2>5. PostedNo(c)' = PostedNo(c) /\ WaitedNo(c)' = WaitedNo(c) /\ ReceivedNo(c)' = ReceivedNo(c)
    <3>1. CASE c[2] # r BY <1>2, <3>1, NumbersFrame
    <3>2. CASE c[2] = r
      <4>1. ~Waited(r, c[1]) /\ ~Waited(r, c[1])' BY <2>1 DEF Waited, Types
      <4> QED BY <2>1, <3>2, <4>1, ReceiverKept
    <3> QED BY <3>1, <3>2
  <2> QED BY <2>1, <2>4, <2>5, CountsKept DEF Counts
<1>3. CASE PackLocal(r)
  <2>1. /\ ipc' = ipc /\ ready' = ready /\ deliv' = deliv /\ msgs' = msgs /\ num' = num
        /\ posted' = posted /\ todo' = todo /\ pc' = [pc EXCEPT ![r] = "hand"] /\ pc[r] = "send"
    BY <1>3 DEF PackLocal, Step
  <2>2. \A q, p \in Rank : /\ (Handed(q, p)' <=> Handed(q, p))
                          /\ (Flushed(q)' <=> Flushed(q)) /\ (Waited(q, p)' <=> Waited(q, p))
    BY <2>1 DEF Types, Handed, Flushed, Waited
  <2> QED BY <2>1, <2>2, QuietCounts, Channels
<1>4. CASE HandDirect(r)
  <2>1. pc'[r] = "send" /\ todo'[r] = todo[r] \ {First(r)} /\ pc[r] = "hand"
    BY <1>4 DEF HandDirect, Step, Leave, Types
  <2> QED BY <1>4, <1>t, <2>1, TakeReadyCounts DEF HandDirect
<1>5. CASE HandMessage(r)
  <2>1. pc'[r] = "send" /\ todo'[r] = todo[r] \ {First(r)} /\ pc[r] = "hand"
    BY <1>5 DEF HandMessage, Step, Leave, Types
  <2> QED BY <1>5, <1>t, <2>1, HandMessageCounts DEF HandMessage
<1>6. CASE PutField(r)
  <2>1. pc'[r] = "send" /\ todo'[r] = todo[r] \ {First(r)} /\ pc[r] = "send"
    BY <1>6 DEF PutField, Leave, Types
  <2> QED BY <1>6, <1>t, <2>1, TakeReadyCounts DEF PutField
<1>7. CASE CommTokenFlush(r) BY <1>7, CommTokenFlushCounts
<1>8. CASE Waitall(r) BY <1>8, WaitallCounts
<1>9. CASE WaitAndUnpack(r) BY <1>9, WaitAndUnpackCounts
<1>10. CASE Finish(r)
  <2>1. /\ ipc' = ipc /\ ready' = ready /\ deliv' = deliv /\ msgs' = msgs /\ num' = num
        /\ posted' = posted /\ todo' = todo /\ pc' = [pc EXCEPT ![r] = "done"] /\ pc[r] = "unpack"
    BY <1>10 DEF Finish, Step
  <2>2. \A q, p \in Rank : /\ (Handed(q, p)' <=> Handed(q, p))
                          /\ (Flushed(q)' <=> Flushed(q)) /\ (Waited(q, p)' <=> Waited(q, p))
    BY <2>1 DEF Types, Handed, Flushed, Waited
  <2> QED BY <2>1, <2>2, QuietCounts, Channels
<1> QED BY <1>1, <1>2, <1>3, <1>4, <1>5, <1>6, <1>7, <1>8, <1>9, <1>10 DEF Host

LEMMA GpuCounts ==
  ASSUME Counts, NEW r \in Rank, RunStream(r) \/ \E q \in Rank : RunUnpack(r, q)
  PROVE  Counts'
<1>1. /\ ipc' = ipc /\ ready' = ready /\ deliv' = deliv /\ msgs' = msgs /\ num' = num
      /\ posted' = posted /\ todo' = todo /\ pc' = pc
  BY DEF RunStream, RunUnpack, conf, hostVars, mpiVars
<1>2. \A q, p \in Rank : /\ (Handed(q, p)' <=> Handed(q, p))
                        /\ (Flushed(q)' <=> Flushed(q)) /\ (Waited(q, p)' <=> Waited(q, p))
  BY <1>1 DEF Handed, Flushed, Waited
<1> QED BY <1>1, <1>2, QuietCounts, Channels

LEMMA BufferCounts ==
  ASSUME Types, Counts, NEW d \in Channel, Buffer(d)
  PROVE  Counts'
<1>1. /\ ipc' = ipc /\ ready' = ready /\ deliv' = deliv /\ num' = num
      /\ posted' = posted /\ todo' = todo /\ pc' = pc
  BY DEF Buffer, conf, hostVars
<1>2. PICK i \in DOMAIN msgs[d] : msgs' = [msgs EXCEPT ![d] = [msgs[d] EXCEPT ![i] = Packed(d)]]
  BY DEF Buffer
<1>3. \A c \in Channel : Len(msgs'[c]) = Len(msgs[c]) BY <1>2 DEF Types
<1>4. \A c \in Channel : msgs[c] = <<>> => msgs'[c] = <<>>
  <2>1. msgs[d] # <<>> BY <1>2 DEF Types
  <2> QED BY <1>2, <2>1 DEF Types
<1> SUFFICES ASSUME NEW c \in Channel PROVE CountsOf(c)' BY DEF Counts
<1>6. HandedNo(c)' = HandedNo(c) /\ FlushedNo(c)' = FlushedNo(c)
  <2>1. (Handed(c[1], c[2])' <=> Handed(c[1], c[2])) /\ (Flushed(c[1])' <=> Flushed(c[1]))
    BY <1>1 DEF Handed, Flushed
  <2> QED BY <1>1, <2>1, SenderKept
<1>7. PostedNo(c)' = PostedNo(c) /\ WaitedNo(c)' = WaitedNo(c) /\ ReceivedNo(c)' = ReceivedNo(c)
  <2>1. Waited(c[2], c[1])' <=> Waited(c[2], c[1]) BY <1>1 DEF Waited
  <2> QED BY <1>1, <2>1, ReceiverKept
<1> QED BY <1>1, <1>3, <1>4, <1>6, <1>7 DEF Counts, CountsOf, Direct

LEMMA DeliverCounts ==
  ASSUME Types, Hosts, Counts, NEW d \in Channel, Deliver(d)
  PROVE  Counts'
<1> DEFINE q == d[1]  r == d[2]
<1>1. /\ ipc' = ipc /\ ready' = ready /\ deliv' = deliv /\ num' = num /\ todo' = todo /\ pc' = pc
      /\ posted' = [posted EXCEPT ![r] = posted[r] \ {q}]
      /\ msgs' = [msgs EXCEPT ![d] = Tail(msgs[d])]
      /\ d[3] = K(r) /\ q \in posted[r] /\ msgs[d] # <<>>
  BY DEF Deliver, conf, hostVars
<1>2. q \in Rank /\ r \in Rank /\ d = <<q, r, d[3]>> BY Channels
<1>3. ~Direct(q, r) /\ num[r] > 0
  <2>1. ~Direct(r, q) BY <1>1, <1>2 DEF Hosts, HostOf
  <2>2. num[r] > 0 BY <1>1, <1>2, Engaged
  <2> QED BY <2>1, <2>2, DirectBoth
<1> SUFFICES ASSUME NEW c \in Channel PROVE CountsOf(c)' BY DEF Counts
<1>4. c[1] \in Rank /\ c[2] \in Rank /\ c[3] \in Kinds /\ c = <<c[1], c[2], c[3]>> BY Channels
<1>5. HandedNo(c)' = HandedNo(c) /\ FlushedNo(c)' = FlushedNo(c)
  <2>1. (Handed(c[1], c[2])' <=> Handed(c[1], c[2])) /\ (Flushed(c[1])' <=> Flushed(c[1]))
    BY <1>1 DEF Handed, Flushed
  <2> QED BY <1>1, <2>1, SenderKept
<1>6. PostedNo(c)' = PostedNo(c) /\ WaitedNo(c)' = WaitedNo(c)
  BY <1>1 DEF PostedNo, WaitedNo, Waited, Busy, K
<1>7. CASE c = d
  <2>1. Len(msgs'[c]) = Len(msgs[c]) - 1 /\ Len(msgs[c]) \in Nat BY <1>1, <1>7 DEF Types
  <2>2. Cnt(c[3], num[r]) \in Nat /\ Cnt(c[3], num'[r]) = Cnt(c[3], num[r])
    BY <1>1, <1>2, <1>4, CntOf
  <2>3. Busy(c[3], r) /\ Busy(c[3], r)' BY <1>1, <1>3, <1>7 DEF Busy, K
  <2>4. q \in posted[r] /\ q \notin posted'[r] BY <1>1, <1>2 DEF Types
  <2>5. ReceivedNo(c) = Cnt(c[3], num[r]) - 1 BY <1>7, <2>3, <2>4 DEF ReceivedNo, One
  <2>6. ReceivedNo(c)' = Cnt(c[3], num[r]) - 0 BY <1>7, <2>2, <2>4 DEF ReceivedNo, One
  <2>7. HandedNo(c) \in Nat BY Numbers
  <2>8. ~Direct(c[1], c[2]) /\ ~Direct(c[1], c[2])' BY <1>1, <1>3, <1>7 DEF Direct
  <2> QED BY <1>1, <1>5, <2>1, <2>2, <2>5, <2>6, <2>7, <2>8 DEF Counts, CountsOf
<1>8. CASE c # d
  <2>1. msgs'[c] = msgs[c] BY <1>1, <1>8 DEF Types
  <2>2. ReceivedNo(c)' = ReceivedNo(c)
    <3>1. CASE c[2] = r /\ c[3] # K(r)
      <4>1. ~Busy(c[3], r) /\ ~Busy(c[3], r)' BY <1>1, <3>1 DEF Busy, K
      <4> QED BY <1>1, <3>1, <4>1 DEF ReceivedNo
    <3>2. CASE c[2] # r \/ c[3] = K(r)
      <4>1. c[2] # r \/ c[1] # q BY <1>1, <1>2, <1>4, <1>8, <3>2
      <4>2. c[1] \in posted'[c[2]] <=> c[1] \in posted[c[2]] BY <1>1, <1>2, <1>4, <4>1 DEF Types
      <4> QED BY <1>1, <4>2 DEF ReceivedNo, Busy, K
    <3> QED BY <3>1, <3>2
  <2> QED BY <1>1, <1>5, <1>6, <2>1, <2>2, CountsKept DEF Counts
<1> QED BY <1>7, <1>8

-----------------------------------------------------------------------------
(* The reduction.                                                          *)

LEMMA PaceKept ==
  ASSUME Types, Pace, num' = num,
         \A r \in Rank : (pc'[r] = "reduce") <=> (pc[r] = "reduce")
  PROVE  Pace'
<1>1. \A r \in Rank : Paced(r)' = Paced(r) BY DEF Paced, One
<1> QED BY <1>1 DEF Pace

LEMMA CommRecvPace ==
  ASSUME Types, Types', Pace, NEW r \in Rank, CommRecv(r)
  PROVE  Pace'
<1>1. num' = [num EXCEPT ![r] = num[r] + 1] /\ pc[r] = "unpack"
      /\ pc' = [pc EXCEPT ![r] = IF Reduces(num[r] + 1) THEN "reduce" ELSE "send"]
  BY DEF CommRecv
<1>2. "sbn" \in Kinds /\ num[r] \in Nat BY Begun DEF Kinds
<1>3. ASSUME NEW q \in Rank PROVE num[q] \in Nat /\ num'[q] \in Nat /\ num'[q] >= num[q]
  <2>1. num[q] \in Nat BY Begun
  <2>2. num'[q] = num[q] + 1 \/ num'[q] = num[q] BY <1>1 DEF Types
  <2> QED BY <2>1, <2>2
<1>4. \A q \in Rank : /\ Cnt("sbn", num[q]) \in Nat /\ Cnt("sbn", num'[q]) \in Nat
                     /\ Cnt("sbn", num'[q]) >= Cnt("sbn", num[q])
  BY <1>2, <1>3, CntMonotone, CntType
<1> SUFFICES ASSUME NEW p \in Rank, NEW q \in Rank, Paced(p)' > 3
             PROVE  Cnt("sbn", num'[q]) >= Cnt("sbn", Paced(p)')
  BY DEF Pace
<1>5. CASE p # r
  <2>1. num'[p] = num[p] /\ pc'[p] = pc[p] BY <1>1, <1>5 DEF Types
  <2>2. Paced(p)' = Paced(p) BY <2>1 DEF Paced
  <2>3. Cnt("sbn", num[q]) >= Cnt("sbn", Paced(p)) BY <2>2 DEF Pace
  <2>4. Paced(p) \in Nat
    <3>1. Paced(p) \in Int BY <1>3 DEF Paced, One
    <3> QED BY <2>2, <3>1
  <2>5. Cnt("sbn", Paced(p)) \in Nat BY <1>2, <2>4, CntType
  <2> QED BY <1>4, <2>2, <2>3, <2>5
<1>6. CASE p = r
  <2>1. num'[r] = num[r] + 1 /\ Paced(r) = num[r] - 0
    BY <1>1 DEF Types, Paced, One
  <2>2. CASE Reduces(num[r] + 1)
    <3>1. pc'[r] = "reduce" BY <1>1, <2>2 DEF Types
    <3>2. Paced(r)' = num'[r] - 1 BY <3>1 DEF Paced, One
    <3>3. Paced(r)' = num[r] /\ Paced(r) = num[r] BY <1>2, <2>1, <3>2
    <3>4. Cnt("sbn", num[q]) >= Cnt("sbn", num[r]) BY <1>6, <3>3 DEF Pace
    <3> QED BY <1>4, <1>6, <3>3, <3>4
  <2>3. CASE ~Reduces(num[r] + 1)
    <3>1. pc'[r] = "send" BY <1>1, <2>3 DEF Types
    <3>2. Paced(r)' = num'[r] - 0 BY <3>1 DEF Paced, One
    <3>3. Paced(r)' = num[r] + 1 /\ Paced(r) = num[r] BY <1>2, <2>1, <3>2
    <3>4. Kind(num[r] + 1) # "sbn" BY <1>2, <1>6, <2>3, <3>3 DEF Reduces
    <3>5. num[r] # 3 BY <1>2, <3>4, KindAt
    <3>6. Cnt("sbn", num[q]) >= Cnt("sbn", num[r]) BY <1>2, <1>6, <3>3, <3>5 DEF Pace
    <3>7. Cnt("sbn", num[r] + 1) = Cnt("sbn", num[r]) BY <1>2, <3>4, CntNext
    <3> QED BY <1>4, <1>6, <3>3, <3>6, <3>7
  <2> QED BY <2>2, <2>3
<1> QED BY <1>5, <1>6

LEMMA TimeIncrementPace ==
  ASSUME Types, Pace, NEW r \in Rank, TimeIncrement(r)
  PROVE  Pace'
<1>1. num' = num /\ pc[r] = "reduce" /\ pc' = [pc EXCEPT ![r] = "send"]
      /\ \A q \in Rank : num[q] >= num[r]
  BY DEF TimeIncrement
<1> SUFFICES ASSUME NEW p \in Rank, NEW q \in Rank, Paced(p)' > 3
             PROVE  Cnt("sbn", num'[q]) >= Cnt("sbn", Paced(p)')
  BY DEF Pace
<1>2. CASE p # r
  <2>1. Paced(p)' = Paced(p) BY <1>1, <1>2 DEF Types, Paced, One
  <2> QED BY <1>1, <2>1 DEF Pace
<1>3. CASE p = r
  <2>1. num[r] \in Nat /\ num[q] \in Nat BY Begun
  <2>2. Paced(r)' = num[r] - 0 BY <1>1 DEF Types, Paced, One
  <2>3. "sbn" \in Kinds BY DEF Kinds
  <2> QED BY <1>1, <1>3, <2>1, <2>2, <2>3, CntMonotone
<1> QED BY <1>2, <1>3

LEMMA HostPace ==
  ASSUME Types, Types', Pace, NEW r \in Rank, Host(r)
  PROVE  Pace'
<1> USE DEF Step, hostVars, conf
<1>1. CASE CommRecv(r) BY <1>1, CommRecvPace
<1>2. CASE TimeIncrement(r) BY <1>2, TimeIncrementPace
<1>3. ASSUME num' = num, NEW l \in {"send", "hand", "waitall", "unpack", "done"},
             pc[r] # "reduce", pc' = pc \/ pc' = [pc EXCEPT ![r] = l]
      PROVE  Pace'
  <2>1. \A q \in Rank : (pc'[q] = "reduce") <=> (pc[q] = "reduce") BY <1>3 DEF Types
  <2> QED BY <1>3, <2>1, PaceKept
<1>4. CASE PackLocal(r) BY <1>3, <1>4 DEF PackLocal
<1>5. CASE HandDirect(r) BY <1>3, <1>5 DEF HandDirect
<1>6. CASE HandMessage(r) BY <1>3, <1>6 DEF HandMessage
<1>7. CASE PutField(r) BY <1>3, <1>7 DEF PutField
<1>8. CASE CommTokenFlush(r) BY <1>3, <1>8 DEF CommTokenFlush
<1>9. CASE Waitall(r) BY <1>3, <1>9 DEF Waitall
<1>10. CASE WaitAndUnpack(r) BY <1>3, <1>10 DEF WaitAndUnpack
<1>11. CASE Finish(r) BY <1>3, <1>11 DEF Finish
<1> QED BY <1>1, <1>2, <1>4, <1>5, <1>6, <1>7, <1>8, <1>9, <1>10, <1>11 DEF Host

-----------------------------------------------------------------------------
(* What a rank has done.                                                   *)

RankOf(r) == HostOf(r) /\ GpuOf(r) /\ StreamOf(r)

LEMMA RankFrame ==
  ASSUME NEW q \in Rank, RankOf(q), ipc' = ipc, num'[q] = num[q], pc'[q] = pc[q],
         todo'[q] = todo[q], tokens'[q] = tokens[q], posted'[q] = posted[q],
         stream'[q] = stream[q], unpacks'[q] = unpacks[q], got'[q] = got[q], gen'[q] = gen[q],
         sendBuf'[q] = sendBuf[q]
  PROVE  RankOf(q)'
<1>1. HostOf(q)' BY DEF RankOf, HostOf, K, Direct, Waited
<1>2. GpuOf(q)' BY DEF RankOf, GpuOf, K
<1>3. First(q)' = First(q) BY DEF First
<1>4. StreamOf(q)' BY <1>3 DEF RankOf, StreamOf, OpOf, PackedBefore, InSend, K, Direct
<1> QED BY <1>1, <1>2, <1>4 DEF RankOf

\* The streams are idle.
LEMMA IdleStream ==
  ASSUME NEW r \in Rank, stream'[r] = <<>>, pc'[r] # "hand"
  PROVE  StreamOf(r)'
BY DEF StreamOf

LEMMA CommRecvHost ==
  ASSUME Types, Hosts, NEW r \in Rank, CommRecv(r)
  PROVE  RankOf(r)'
<1> DEFINE k == Kind(num[r] + 1)
<1>1. /\ pc[r] = "unpack" /\ todo[r] = {} /\ stream[r] = <<>> /\ unpacks[r] = {}
      /\ num'[r] = num[r] + 1 /\ gen'[r] = Fields(r) /\ got'[r] = {}
      /\ posted'[r] = In(k, r) \ Callers(k, r) /\ todo'[r] = Out(k, r)
      /\ pc'[r] = (IF Reduces(num[r] + 1) THEN "reduce" ELSE "send")
      /\ tokens' = tokens /\ stream' = stream /\ unpacks' = unpacks /\ ipc' = ipc
  BY DEF CommRecv, Drained, Types, conf
<1>2. HostOf(r) /\ GpuOf(r) BY DEF Hosts
<1>3. num[r] \in Nat BY Begun
<1>4. K(r)' = k BY <1>1 DEF K
<1>5. tokens'[r] = {} BY <1>1, <1>2 DEF HostOf
<1>6. gen'[r] = num'[r]
  <2>1. gen[r] = num[r] /\ (num[r] > 0 => got[r] = In(K(r), r)) BY <1>1, <1>2 DEF GpuOf
  <2> QED BY <1>1, <1>3, <2>1 DEF Fields
<1>7. HostOf(r)'
  <2>1. num'[r] # 0 BY <1>1, <1>3
  <2>2. pc'[r] = "reduce" => Reduces(num'[r]) BY <1>1
  <2>3. pc'[r] \in {"reduce", "send"} BY <1>1
  <2>4. \A q \in posted'[r] : q \in In(k, r) /\ ~Direct(r, q) BY <1>1 DEF Callers
  <2>5. tokens'[r] = IF pc'[r] \in {"send", "hand"}
                     THEN {q \in Out(k, r) \ todo'[r] : Direct(r, q)} ELSE {}
    BY <1>1, <1>5
  <2> QED BY <1>1, <1>4, <2>1, <2>2, <2>3, <2>4, <2>5 DEF HostOf, Waited, Direct
<1>8. GpuOf(r)' BY <1>1, <1>3, <1>6 DEF GpuOf
<1>9. StreamOf(r)' BY <1>1, IdleStream
<1> QED BY <1>7, <1>8, <1>9 DEF RankOf

LEMMA TimeIncrementHost ==
  ASSUME Types, Hosts, NEW r \in Rank, TimeIncrement(r)
  PROVE  RankOf(r)'
<1>1. /\ pc[r] = "reduce" /\ pc'[r] = "send" /\ num' = num /\ todo' = todo /\ tokens' = tokens
      /\ posted' = posted /\ stream' = stream /\ unpacks' = unpacks /\ got' = got /\ gen' = gen
      /\ ipc' = ipc
  BY DEF TimeIncrement, Types, conf, gpuVars, bufVars, mpiVars
<1>2. HostOf(r) /\ GpuOf(r) BY DEF Hosts
<1>3. HostOf(r)'
  <2>1. todo[r] = Out(K(r), r) /\ tokens[r] = {} /\ num[r] # 0 BY <1>1, <1>2 DEF HostOf
  <2>2. \A q \in posted[r] : q \in In(K(r), r) /\ ~Direct(r, q) BY <1>2 DEF HostOf
  <2> QED BY <1>1, <2>1, <2>2 DEF HostOf, Waited, Direct, K
<1>4. GpuOf(r)' BY <1>1, <1>2 DEF GpuOf, K
<1>5. StreamOf(r)' BY <1>1, <1>2, IdleStream DEF GpuOf
<1> QED BY <1>3, <1>4, <1>5 DEF RankOf

\* Work is added at the end of a stream.
LEMMA Enqueued ==
  ASSUME Types, NEW r \in Rank, NEW x, stream'[r] = Append(stream[r], x)
  PROVE  /\ Len(stream[r]) \in Nat /\ Len(stream'[r]) = Len(stream[r]) + 1
         /\ \A i \in 1 .. Len(stream[r]) : stream'[r][i] = stream[r][i]
         /\ stream'[r][Len(stream[r]) + 1] = x
<1>1. stream[r] \in Seq(Op) BY DEF Types
<1> QED BY <1>1

LEMMA OpKept ==
  ASSUME Types, NEW r \in Rank, NEW x, NEW i \in 1 .. Len(stream[r]) + 1, OpOf(r, x, i),
         NEW y, stream'[r] = Append(stream[r], y), num' = num, ipc' = ipc, sendBuf' = sendBuf,
         todo'[r] \subseteq todo[r]
  PROVE  OpOf(r, x, i)'
<1>1. \A j \in 1 .. i - 1 : stream'[r][j] = stream[r][j] BY Enqueued
<1>2. x[1] = "put" => PackedBefore(r, x[2], i)' BY <1>1 DEF OpOf, PackedBefore, InSend
<1> QED BY <1>2 DEF OpOf, K, Direct

LEMMA StreamGrows ==
  ASSUME Types, NEW r \in Rank, StreamOf(r), NEW x, stream'[r] = Append(stream[r], x),
         num' = num, ipc' = ipc, sendBuf' = sendBuf, todo'[r] \subseteq todo[r],
         NEW n, n = Len(stream[r]) + 1, OpOf(r, x, n)',
         pc'[r] = "hand" => \E q : q = First(r)' /\ x = <<"pack", q>>
  PROVE  StreamOf(r)'
<1>1. /\ Len(stream[r]) \in Nat /\ Len(stream'[r]) = Len(stream[r]) + 1
      /\ \A i \in 1 .. Len(stream[r]) : stream'[r][i] = stream[r][i]
      /\ stream'[r][Len(stream[r]) + 1] = x
  BY Enqueued
<1>2. ASSUME NEW i \in 1 .. Len(stream[r]) PROVE OpOf(r, stream[r][i], i)'
  <2>1. stream'[r][i] = stream[r][i] BY <1>1
  <2>2. PICK y : y = stream[r][i] OBVIOUS
  <2>3. OpOf(r, y, i) BY <2>2 DEF StreamOf
  <2>4. i \in 1 .. Len(stream[r]) + 1 BY <1>1
  <2>5. OpOf(r, y, i)' BY <2>3, <2>4, OpKept
  <2> QED BY <2>1, <2>2, <2>5
<1>3. OpOf(r, stream[r][n], n)' BY <1>1
<1>4. ASSUME pc'[r] = "hand" PROVE PackedBefore(r, First(r), Len(stream[r]) + 1)'
  <2>1. PICK q : q = First(r)' /\ x = <<"pack", q>> BY <1>4
  <2>2. n \in 1 .. (Len(stream'[r]) + 1) - 1 /\ stream'[r][n] = <<"pack", q>> BY <1>1, <2>1
  <2>3. PackedBefore(r, q, Len(stream[r]) + 1)' BY <2>2 DEF PackedBefore
  <2> QED BY <2>1, <2>3
<1>5. \A i \in 1 .. Len(stream'[r]) : i \in 1 .. Len(stream[r]) \/ i = n BY <1>1
<1> QED BY <1>2, <1>3, <1>4, <1>5 DEF StreamOf

LEMMA PackLocalHost ==
  ASSUME Types, Hosts, NEW r \in Rank, PackLocal(r)
  PROVE  RankOf(r)'
<1>1. /\ pc[r] = "send" /\ pc'[r] = "hand" /\ num' = num /\ todo' = todo /\ tokens' = tokens
      /\ posted' = posted /\ unpacks' = unpacks /\ got' = got /\ gen' = gen
      /\ ipc' = ipc /\ sendBuf' = sendBuf /\ todo[r] # {}
  BY DEF PackLocal, Types, conf, bufVars, mpiVars, Step
<1>q. PICK q \in todo[r] : q = First(r) BY <1>1, FirstIn DEF Types
<1>f. First(r)' = q BY <1>1, <1>q DEF First
<1>2. stream'[r] = Append(stream[r], <<"pack", q>>) BY <1>q DEF PackLocal, Enqueue, Types
<1>3. HostOf(r) /\ GpuOf(r) /\ StreamOf(r) BY DEF Hosts
<1>4. HostOf(r)' BY <1>1, <1>3 DEF HostOf, Waited, Direct, K
<1>5. GpuOf(r)' BY <1>1, <1>3 DEF GpuOf, K
<1>6. \A n : OpOf(r, <<"pack", q>>, n)' BY <1>1, <1>3 DEF OpOf, HostOf, K
<1>7. StreamOf(r)' BY <1>1, <1>2, <1>3, <1>6, <1>f, StreamGrows
<1> QED BY <1>4, <1>5, <1>7 DEF RankOf

\* A copy straight into the neighbour's buffer: HandDirect and PutField.
LEMMA CopyHost ==
  ASSUME Types, Hosts, NEW r \in Rank, NEW q \in todo[r], NEW x, Direct(r, q),
         (x = <<"put", q>> /\ PackedBefore(r, q, Len(stream[r]) + 1)) \/ x = <<"putfield", q>>,
         pc[r] \in {"send", "hand"}, pc'[r] = "send", num' = num, ipc' = ipc,
         posted' = posted, unpacks' = unpacks, got' = got, gen' = gen, sendBuf' = sendBuf,
         todo'[r] = todo[r] \ {q}, tokens'[r] = tokens[r] \cup {q},
         stream'[r] = Append(stream[r], x)
  PROVE  RankOf(r)'
<1>1. HostOf(r) /\ GpuOf(r) /\ StreamOf(r) BY DEF Hosts
<1>2. todo[r] \subseteq Out(K(r), r) /\ num[r] # 0 BY <1>1 DEF HostOf
<1>3. HostOf(r)'
  <2>1. tokens[r] = {p \in Out(K(r), r) \ todo[r] : Direct(r, p)} BY <1>1 DEF HostOf
  <2>2. tokens'[r] = {p \in Out(K(r), r) \ todo'[r] : Direct(r, p)} BY <1>2, <2>1
  <2>3. \A p \in posted[r] : p \in In(K(r), r) /\ ~Direct(r, p) BY <1>1 DEF HostOf
  <2> QED BY <1>2, <2>2, <2>3 DEF HostOf, Waited, Direct, K
<1>4. GpuOf(r)' BY <1>1, <1>2 DEF GpuOf, K
<1>5. PICK n : n = Len(stream[r]) + 1 OBVIOUS
<1>6. OpOf(r, x, n)'
  <2>1. \A j \in 1 .. n - 1 : stream'[r][j] = stream[r][j] BY <1>5, Enqueued
  <2>2. x[1] = "put" => PackedBefore(r, q, n)' BY <1>5, <2>1 DEF PackedBefore, InSend
  <2>3. x[2] = q OBVIOUS
  <2> QED BY <1>2, <2>2, <2>3 DEF OpOf, K, Direct
<1>7. StreamOf(r)' BY <1>1, <1>5, <1>6, StreamGrows
<1> QED BY <1>3, <1>4, <1>7 DEF RankOf

LEMMA HandMessageHost ==
  ASSUME Types, Hosts, NEW r \in Rank, HandMessage(r)
  PROVE  RankOf(r)'
<1>1. /\ pc[r] = "hand" /\ pc'[r] = "send" /\ num' = num /\ tokens' = tokens /\ stream[r] = <<>>
      /\ posted' = posted /\ unpacks' = unpacks /\ got' = got /\ gen' = gen /\ stream' = stream
      /\ ipc' = ipc /\ sendBuf' = sendBuf /\ todo'[r] = todo[r] \ {First(r)} /\ ~Direct(r, First(r))
  BY DEF HandMessage, Types, conf, bufVars, gpuVars, Step, Leave
<1>2. HostOf(r) /\ GpuOf(r) BY DEF Hosts
<1>3. HostOf(r)'
  <2>1. tokens[r] = {p \in Out(K(r), r) \ todo[r] : Direct(r, p)} BY <1>1, <1>2 DEF HostOf
  <2>2. tokens'[r] = {p \in Out(K(r), r) \ todo'[r] : Direct(r, p)} BY <1>1, <2>1
  <2>3. \A p \in posted[r] : p \in In(K(r), r) /\ ~Direct(r, p) BY <1>2 DEF HostOf
  <2>4. todo[r] \subseteq Out(K(r), r) /\ num[r] # 0 BY <1>1, <1>2 DEF HostOf
  <2> QED BY <1>1, <2>2, <2>3, <2>4 DEF HostOf, Waited, Direct, K
<1>4. GpuOf(r)' BY <1>1, <1>2 DEF GpuOf, K
<1>5. StreamOf(r)' BY <1>1, IdleStream
<1> QED BY <1>3, <1>4, <1>5 DEF RankOf

LEMMA CommTokenFlushHost ==
  ASSUME Types, Hosts, NEW r \in Rank, CommTokenFlush(r)
  PROVE  RankOf(r)'
<1>1. /\ pc[r] = "send" /\ pc'[r] = "waitall" /\ num' = num /\ tokens'[r] = {} /\ stream[r] = <<>>
      /\ posted' = posted /\ unpacks' = unpacks /\ got' = got /\ gen' = gen /\ stream' = stream
      /\ ipc' = ipc /\ todo' = todo /\ todo[r] = {}
  BY DEF CommTokenFlush, Types, conf, bufVars, gpuVars, Step, Landed, ResetTokens
<1>2. HostOf(r) /\ GpuOf(r) BY DEF Hosts
<1>3. HostOf(r)'
  <2>1. num[r] # 0 /\ \A p \in posted[r] : p \in In(K(r), r) /\ ~Direct(r, p)
    BY <1>1, <1>2 DEF HostOf
  <2> QED BY <1>1, <2>1 DEF HostOf, Waited, Direct, K
<1>4. GpuOf(r)' BY <1>1, <1>2 DEF GpuOf, K
<1>5. StreamOf(r)' BY <1>1, IdleStream
<1> QED BY <1>3, <1>4, <1>5 DEF RankOf

LEMMA WaitallHost ==
  ASSUME Types, Hosts, NEW r \in Rank, Waitall(r)
  PROVE  RankOf(r)'
<1>1. /\ pc[r] = "waitall" /\ pc'[r] = "unpack" /\ num' = num /\ tokens' = tokens
      /\ posted' = posted /\ unpacks' = unpacks /\ got' = got /\ gen' = gen /\ stream' = stream
      /\ ipc' = ipc /\ todo'[r] = In(K(r), r)
  BY DEF Waitall, Types, conf, bufVars, gpuVars, mpiVars, Step
<1>2. HostOf(r) /\ GpuOf(r) BY DEF Hosts
<1>3. HostOf(r)'
  <2>1. num[r] # 0 /\ tokens[r] = {} /\ \A p \in posted[r] : p \in In(K(r), r) /\ ~Direct(r, p)
    BY <1>1, <1>2 DEF HostOf
  <2> QED BY <1>1, <2>1 DEF HostOf, Waited, Direct, K
<1>4. GpuOf(r)'
  <2>1. stream[r] = <<>> /\ unpacks[r] = {} /\ got[r] = {} /\ gen[r] = num[r]
    BY <1>1, <1>2 DEF GpuOf
  <2>2. num[r] # 0 BY <1>1, <1>2 DEF HostOf
  <2> QED BY <1>1, <2>1, <2>2 DEF GpuOf, K
<1>5. StreamOf(r)' BY <1>1, <1>2, IdleStream DEF GpuOf
<1> QED BY <1>3, <1>4, <1>5 DEF RankOf

LEMMA WaitAndUnpackHost ==
  ASSUME Types, Hosts, NEW r \in Rank, WaitAndUnpack(r)
  PROVE  RankOf(r)'
<1>0. todo[r] # {} BY DEF WaitAndUnpack
<1>q. PICK q \in todo[r] : q = First(r) BY <1>0, FirstIn DEF Types
<1>1. /\ pc[r] = "unpack" /\ pc' = pc /\ num' = num /\ tokens' = tokens
      /\ posted' = posted /\ unpacks'[r] = unpacks[r] \cup {q} /\ got' = got /\ gen' = gen
      /\ stream' = stream /\ ipc' = ipc /\ todo'[r] = todo[r] \ {q}
      /\ (~Direct(r, q) => q \notin posted[r])
  BY <1>q DEF WaitAndUnpack, Types, conf, bufVars, Leave
<1>2. HostOf(r) /\ GpuOf(r) BY DEF Hosts
<1>3. todo[r] \subseteq In(K(r), r) /\ num[r] # 0 /\ tokens[r] = {} BY <1>0, <1>1, <1>2 DEF HostOf
<1>4. HostOf(r)'
  <2>1. \A p \in posted[r] : /\ p \in In(K(r), r) /\ ~Direct(r, p)
                             /\ p \in todo[r] /\ p # q
    BY <1>1, <1>2 DEF HostOf, Waited
  <2> QED BY <1>1, <1>3, <2>1 DEF HostOf, Waited, Direct, K
<1>5. GpuOf(r)' BY <1>1, <1>2, <1>3 DEF GpuOf, K
<1>6. StreamOf(r)' BY <1>1, <1>2, IdleStream DEF GpuOf
<1> QED BY <1>4, <1>5, <1>6 DEF RankOf

LEMMA FinishHost ==
  ASSUME Types, Hosts, NEW r \in Rank, Finish(r)
  PROVE  RankOf(r)'
<1>1. /\ pc[r] = "unpack" /\ pc'[r] = "done" /\ num' = num /\ tokens' = tokens /\ todo' = todo
      /\ posted' = posted /\ unpacks' = unpacks /\ got' = got /\ gen'[r] = Fields(r)
      /\ stream' = stream /\ ipc' = ipc /\ todo[r] = {} /\ num[r] = Total
      /\ stream[r] = <<>> /\ unpacks[r] = {}
  BY DEF Finish, Types, conf, bufVars, gpuVars, mpiVars, Step, Drained
<1>2. HostOf(r) /\ GpuOf(r) BY DEF Hosts
<1>3. HostOf(r)' BY <1>1, <1>2 DEF HostOf, Waited, Direct, K
<1>4. gen'[r] = num[r] + 1
  <2>1. gen[r] = num[r] /\ (num[r] > 0 => got[r] = In(K(r), r)) BY <1>1, <1>2 DEF GpuOf
  <2>2. num[r] \in Nat BY Begun
  <2> QED BY <1>1, <2>1, <2>2 DEF Fields
<1>5. GpuOf(r)' BY <1>1, <1>2, <1>4 DEF GpuOf, K
<1>6. StreamOf(r)' BY <1>1, IdleStream
<1> QED BY <1>3, <1>5, <1>6 DEF RankOf

LEMMA HostHosts ==
  ASSUME Types, Hosts, NEW r \in Rank, Host(r)
  PROVE  Hosts'
<1> USE DEF conf, bufVars, mpiVars, Step, Leave, Enqueue
<1>1. \A q \in Rank \ {r} : RankOf(q)'
  <2> SUFFICES ASSUME NEW q \in Rank \ {r} PROVE RankOf(q)' OBVIOUS
  <2>1. RankOf(q) BY DEF Hosts, RankOf
  <2> QED BY <2>1, HostFrame, RankFrame
<1>t. pc[r] = "hand" => todo[r] # {} /\ PackedBefore(r, First(r), Len(stream[r]) + 1)
  BY DEF Hosts, HostOf, StreamOf
<1>2. RankOf(r)'
  <2>1. CASE CommRecv(r) BY <2>1, CommRecvHost
  <2>2. CASE TimeIncrement(r) BY <2>2, TimeIncrementHost
  <2>3. CASE PackLocal(r) BY <2>3, PackLocalHost
  <2>4. CASE HandDirect(r)
    <3>1. PICK q \in todo[r] : q = First(r) BY <1>t, <2>4, FirstIn DEF HandDirect, Types
    <3>2. PackedBefore(r, q, Len(stream[r]) + 1) BY <1>t, <2>4, <3>1 DEF HandDirect
    <3>3. /\ pc'[r] = "send" /\ todo'[r] = todo[r] \ {q} /\ tokens'[r] = tokens[r] \cup {q}
          /\ stream'[r] = Append(stream[r], <<"put", q>>)
      BY <2>4, <3>1 DEF HandDirect, Types
    <3> QED BY <2>4, <3>1, <3>2, <3>3, CopyHost DEF HandDirect
  <2>5. CASE HandMessage(r) BY <2>5, HandMessageHost
  <2>6. CASE PutField(r)
    <3>1. PICK q \in todo[r] : q = First(r) BY <2>6, FirstIn DEF PutField, Types
    <3>2. /\ pc'[r] = "send" /\ todo'[r] = todo[r] \ {q} /\ tokens'[r] = tokens[r] \cup {q}
          /\ stream'[r] = Append(stream[r], <<"putfield", q>>)
      BY <2>6, <3>1 DEF PutField, Types
    <3> QED BY <2>6, <3>1, <3>2, CopyHost DEF PutField
  <2>7. CASE CommTokenFlush(r) BY <2>7, CommTokenFlushHost
  <2>8. CASE Waitall(r) BY <2>8, WaitallHost
  <2>9. CASE WaitAndUnpack(r) BY <2>9, WaitAndUnpackHost
  <2>10. CASE Finish(r) BY <2>10, FinishHost
  <2> QED BY <2>1, <2>2, <2>3, <2>4, <2>5, <2>6, <2>7, <2>8, <2>9, <2>10 DEF Host
<1> QED BY <1>1, <1>2 DEF Hosts, RankOf

\* What the first operation of a stream leaves in the send buffer.
LEMMA Shift ==
  ASSUME Types, Hosts, NEW r \in Rank, RunStream(r), NEW p, NEW i \in 1 .. Len(stream[r]),
         PackedBefore(r, p, i + 1)
  PROVE  PackedBefore(r, p, i)'
<1>1. /\ stream[r] # <<>> /\ stream'[r] = Tail(stream[r]) /\ num' = num /\ stream[r] \in Seq(Op)
      /\ Head(stream[r]) = stream[r][1]
  BY DEF RunStream, hostVars, Types
<1>2. gen[r] = num[r]
  <2>1. pc[r] \in {"send", "hand"} BY <1>1 DEF Hosts, GpuOf
  <2> QED BY <2>1 DEF Hosts, GpuOf
<1>3. \/ sendBuf' = sendBuf /\ stream[r][1][1] # "pack"
      \/ sendBuf'[r] = Into(sendBuf[r], stream[r][1][2], num[r], TRUE)
  BY <1>1, <1>2 DEF RunStream, Types
<1>4. InSend(r, p) => InSend(r, p)' BY <1>1, <1>3 DEF InSend, Into
<1>5. CASE \E j \in 1 .. i : stream[r][j] = <<"pack", p>>
  <2>1. PICK j \in 1 .. i : stream[r][j] = <<"pack", p>> BY <1>5
  <2>2. CASE j = 1
    <3>1. InSend(r, p)' BY <1>1, <1>3, <2>1, <2>2 DEF InSend, Into
    <3> QED BY <3>1 DEF PackedBefore
  <2>3. CASE j > 1
    <3>1. j - 1 \in 1 .. i - 1 /\ Tail(stream[r])[j - 1] = stream[r][j] BY <1>1, <2>3
    <3> QED BY <1>1, <2>1, <3>1 DEF PackedBefore
  <2> QED BY <2>2, <2>3
<1>6. (i + 1) - 1 = i OBVIOUS
<1> QED BY <1>4, <1>5, <1>6 DEF PackedBefore

LEMMA RunStreamHosts ==
  ASSUME Types, Hosts, NEW r \in Rank, RunStream(r)
  PROVE  Hosts'
<1>1. /\ ipc' = ipc /\ pc' = pc /\ num' = num /\ todo' = todo /\ tokens' = tokens /\ posted' = posted
      /\ unpacks' = unpacks /\ got' = got /\ gen' = gen
      /\ stream' = [stream EXCEPT ![r] = Tail(stream[r])] /\ stream[r] # <<>>
      /\ \A q \in Rank \ {r} : sendBuf'[q] = sendBuf[q]
  BY DEF RunStream, conf, hostVars, mpiVars, Types
<1>2. \A q \in Rank : RankOf(q) BY DEF Hosts, RankOf
<1>3. \A q \in Rank \ {r} : RankOf(q)' BY <1>1, <1>2, RankFrame DEF Types
<1>4. RankOf(r)'
  <2>1. HostOf(r)' BY <1>1, <1>2 DEF RankOf, HostOf, K, Direct, Waited
  <2>2. GpuOf(r)' BY <1>1, <1>2 DEF RankOf, GpuOf, K
  <2>3. /\ stream[r] \in Seq(Op) /\ stream'[r] = Tail(stream[r]) /\ Len(stream[r]) \in Nat
        /\ Len(stream[r]) >= 1 /\ Len(stream'[r]) = Len(stream[r]) - 1
    BY <1>1 DEF Types
  <2>4. ASSUME NEW i \in 1 .. Len(stream'[r]) PROVE OpOf(r, stream[r][i], i)'
    <3>1. PICK x : x = stream'[r][i] OBVIOUS
    <3>2. x = stream[r][i + 1] /\ i + 1 \in 1 .. Len(stream[r]) /\ i \in 1 .. Len(stream[r])
      BY <2>3, <3>1
    <3>3. OpOf(r, x, i + 1) BY <1>2, <3>2 DEF RankOf, StreamOf
    <3>4. x[1] = "put" => PackedBefore(r, x[2], i)' BY <3>2, <3>3, Shift DEF OpOf
    <3>5. OpOf(r, x, i)' BY <1>1, <3>3, <3>4 DEF OpOf, K, Direct
    <3> QED BY <3>1, <3>5
  <2>5. ASSUME pc[r] = "hand" PROVE PackedBefore(r, First(r), Len(stream[r]) + 1)'
    <3>1. PICK p, n : p = First(r) /\ n = Len(stream[r]) OBVIOUS
    <3>2. PackedBefore(r, p, n + 1) BY <1>2, <2>5, <3>1 DEF RankOf, StreamOf
    <3>3. n \in 1 .. Len(stream[r]) /\ Len(stream'[r]) + 1 = n BY <2>3, <3>1
    <3>4. PackedBefore(r, p, n)' BY <3>2, <3>3, Shift
    <3>5. First(r)' = p BY <1>1, <3>1 DEF First
    <3> QED BY <3>3, <3>4, <3>5
  <2>6. StreamOf(r)' BY <1>1, <2>4, <2>5 DEF StreamOf
  <2> QED BY <2>1, <2>2, <2>6 DEF RankOf
<1> QED BY <1>3, <1>4 DEF Hosts, RankOf

LEMMA RunUnpackHosts ==
  ASSUME Types, Hosts, UnpacksExact, NEW r \in Rank, NEW q \in Rank, RunUnpack(r, q)
  PROVE  Hosts'
<1>1. /\ ipc' = ipc /\ pc' = pc /\ num' = num /\ todo' = todo /\ tokens' = tokens /\ posted' = posted
      /\ stream' = stream /\ gen' = gen /\ sendBuf' = sendBuf /\ q \in unpacks[r]
      /\ unpacks' = [unpacks EXCEPT ![r] = unpacks[r] \ {q}]
      /\ got' = [got EXCEPT ![r] = IF <<q, num[r]>> \in recvBuf[r] THEN got[r] \cup {q} ELSE got[r]]
  BY DEF RunUnpack, conf, hostVars, mpiVars, bufVars
<1>2. got' = [got EXCEPT ![r] = got[r] \cup {q}] BY <1>1 DEF UnpacksExact
<1>3. \A p \in Rank : RankOf(p) BY DEF Hosts, RankOf
<1>4. \A p \in Rank \ {r} : RankOf(p)' BY <1>1, <1>2, <1>3, RankFrame DEF Types
<1>5. RankOf(r)'
  <2>1. HostOf(r)' BY <1>1, <1>3 DEF RankOf, HostOf, K, Direct, Waited
  <2>2. unpacks'[r] = unpacks[r] \ {q} /\ got'[r] = got[r] \cup {q} BY <1>1, <1>2 DEF Types
  <2>3. GpuOf(r)' BY <1>1, <1>3, <2>2 DEF RankOf, GpuOf, K
  <2>4. First(r)' = First(r) BY <1>1 DEF First
  <2>5. StreamOf(r)' BY <1>1, <1>3, <2>4 DEF RankOf, StreamOf, OpOf, PackedBefore, InSend, K, Direct
  <2> QED BY <2>1, <2>3, <2>5 DEF RankOf
<1> QED BY <1>4, <1>5 DEF Hosts, RankOf

LEMMA MpiHosts ==
  ASSUME Types, Hosts, NEW c \in Channel, Buffer(c) \/ Deliver(c)
  PROVE  Hosts'
<1>1. /\ ipc' = ipc /\ pc' = pc /\ num' = num /\ todo' = todo /\ tokens' = tokens
      /\ stream' = stream /\ unpacks' = unpacks /\ got' = got /\ gen' = gen /\ sendBuf' = sendBuf
      /\ \A q \in Rank : posted'[q] \subseteq posted[q]
  <2>1. CASE Buffer(c) BY <2>1 DEF Buffer, conf, hostVars, gpuVars, bufVars
  <2>2. CASE Deliver(c)
    <3>1. posted' = [posted EXCEPT ![c[2]] = posted[c[2]] \ {c[1]}] BY <2>2 DEF Deliver
    <3>2. \A q \in Rank : posted'[q] \subseteq posted[q] BY <3>1 DEF Types
    <3> QED BY <2>2, <3>2 DEF Deliver, conf, hostVars, gpuVars
  <2> QED BY <2>1, <2>2
<1> SUFFICES ASSUME NEW r \in Rank PROVE RankOf(r)' BY DEF Hosts, RankOf
<1>2. RankOf(r) BY DEF Hosts, RankOf
<1>3. HostOf(r)' BY <1>1, <1>2 DEF RankOf, HostOf, K, Direct, Waited
<1>4. GpuOf(r)' BY <1>1, <1>2 DEF RankOf, GpuOf, K
<1>5. First(r)' = First(r) BY <1>1 DEF First
<1>6. StreamOf(r)' BY <1>1, <1>2, <1>5 DEF RankOf, StreamOf, OpOf, PackedBefore, InSend, K, Direct
<1> QED BY <1>3, <1>4, <1>6 DEF RankOf

\* Steps of the GPU and of MPI leave the pace alone.
LEMMA OthersPace ==
  ASSUME Types, Pace,
         \/ \E r \in Rank : RunStream(r) \/ \E q \in Rank : RunUnpack(r, q)
         \/ \E c \in Channel : Buffer(c) \/ Deliver(c)
  PROVE  Pace'
<1>1. num' = num /\ pc' = pc BY DEF RunStream, RunUnpack, Buffer, Deliver, hostVars
<1> QED BY <1>1, PaceKept

-----------------------------------------------------------------------------
(* The safety properties, from the invariant.                              *)

LEMMA InvUnpacksExact == TokensInv => UnpacksExact
<1> USE DEF TokensInv
<1> SUFFICES ASSUME TokensInv, NEW r \in Rank, NEW q \in unpacks[r]
             PROVE  <<q, num[r]>> \in recvBuf[r]
  BY DEF UnpacksExact
<1>1. HostOf(r) /\ GpuOf(r) BY DEF Hosts
<1>2. num[r] > 0 /\ K(r) \in Kinds BY Engaged
<1>3. q \in In(K(r), r) /\ Waited(r, q)
  <2>1. pc[r] = "unpack" /\ q \notin todo[r] BY <1>1, <1>2 DEF GpuOf, Types, Pc
  <2> QED BY <1>1, <2>1 DEF GpuOf, Waited
<1>4. PICK c \in Channel : c[1] = q /\ c[2] = r /\ c[3] = K(r) BY <1>2, <1>3, Channels
<1>5. Busy(c[3], r) BY <1>2, <1>4 DEF Busy
<1>6. q \in Rank BY <1>4, Channels
<1>7. Landing(c)
  <2>1. CASE Direct(q, r)
    <3>1. /\ ready[c] = PostedNo(c) - HandedNo(c) /\ deliv[c] = FlushedNo(c) - WaitedNo(c)
          /\ ready[c] \in Nat /\ deliv[c] \in Nat
      BY <1>4, <2>1 DEF Counts, CountsOf, Types
    <3>2. Cnt(c[3], num[q]) \in Nat /\ Cnt(c[3], num[r]) \in Nat BY <1>2, <1>4, <1>6, CntOf
    <3>3. WaitedNo(c) = PostedNo(c)
      BY <1>3, <1>4, <3>2 DEF WaitedNo, PostedNo, One
    <3>4. HandedNo(c) = PostedNo(c) /\ FlushedNo(c) = PostedNo(c) BY <3>1, <3>3, Numbers
    <3>5. ASSUME num[q] = num[r] PROVE ~Aimed(q, r)
      <4>1. Busy(c[3], q) /\ PostedNo(c) = Cnt(c[3], num[q])
        BY <1>4, <1>5, <3>5 DEF Busy, K, PostedNo
      <4>2. Flushed(q) BY <1>4, <3>2, <3>4, <4>1 DEF FlushedNo, One
      <4>3. stream[q] = <<>> BY <1>6, <4>2 DEF Hosts, GpuOf, Flushed
      <4> QED BY <4>3 DEF Aimed
    <3> QED BY <1>4, <2>1, <3>4, <3>5 DEF Landing
  <2>2. CASE ~Direct(q, r)
    <3>1. q \notin posted[r] BY <1>1, <1>3 DEF HostOf
    <3> QED BY <1>4, <2>2, <3>1 DEF Landing
  <2> QED BY <2>1, <2>2
<1> QED BY <1>4, <1>5, <1>7 DEF Buffers, BufferOf

LEMMA InvTagsSuffice == TokensInv => TagsSuffice
<1> SUFFICES ASSUME TokensInv PROVE TagsSuffice OBVIOUS
<1> USE DEF TokensInv
<1>1. ASSUME NEW c \in Channel PROVE ready[c] + deliv[c] + Len(msgs[c]) <= 1
  <2>1. /\ PostedNo(c) \in Nat /\ HandedNo(c) \in Nat /\ FlushedNo(c) \in Nat
        /\ WaitedNo(c) \in Nat /\ ReceivedNo(c) \in Nat
        /\ FlushedNo(c) <= HandedNo(c) /\ PostedNo(c) <= WaitedNo(c) + 1
    BY Numbers
  <2>2. CASE Direct(c[1], c[2])
    <3>1. /\ ready[c] = PostedNo(c) - HandedNo(c) /\ deliv[c] = FlushedNo(c) - WaitedNo(c)
          /\ Len(msgs[c]) = 0
      BY <2>2 DEF Counts, CountsOf
    <3> QED BY <2>1, <3>1
  <2>3. CASE ~Direct(c[1], c[2])
    <3>1. ready[c] = 0 /\ deliv[c] = 0 /\ Len(msgs[c]) = HandedNo(c) - ReceivedNo(c)
      BY <2>3 DEF Counts, CountsOf
    <3>2. HandedNo(c) <= ReceivedNo(c) + 1 BY Window
    <3> QED BY <2>1, <3>1, <3>2
  <2> QED BY <2>2, <2>3
<1>2. ASSUME NEW r \in Rank, NEW q \in Rank, Row[r][q] # 0 PROVE num[r] <= num[q] + 3
  <2>1. num[r] \in Nat /\ num[q] \in Nat /\ "sbn" \in Kinds BY Begun DEF Kinds
  <2>2. CASE num[r] <= 3 BY <2>1, <2>2
  <2>3. CASE num[r] > 3 /\ Paced(r) > 3
    <3>1. Paced(r) \in Nat /\ num[r] <= Paced(r) + 1 BY <2>1, <2>3 DEF Paced, One
    <3>2. Cnt("sbn", num[q]) >= Cnt("sbn", Paced(r)) BY <2>3 DEF Pace
    <3>3. Cnt("sbn", num[q]) \in Nat /\ 3 * Cnt("sbn", num[q]) <= num[q] + 2 BY <2>1, CntSbn
    <3>4. Cnt("sbn", Paced(r)) \in Nat /\ Paced(r) <= 3 * Cnt("sbn", Paced(r)) BY <3>1, CntSbn
    <3> QED BY <2>1, <3>1, <3>2, <3>3, <3>4
  <2>4. CASE num[r] > 3 /\ ~(Paced(r) > 3)
    \* In the first reduction: it has got the first forces of its neighbour.
    <3>1. num[r] = 4 /\ pc[r] = "reduce" BY <2>1, <2>4 DEF Paced, One
    <3>2. K(r) = "sbn" BY <3>1 DEF Hosts, HostOf, Reduces, K
    <3>3. PICK c \in Channel : c[1] = q /\ c[2] = r /\ c[3] = "sbn"
      <4>1. Row[q][r] # 0 BY <1>2, Rows
      <4>2. q \in In("sbn", r) BY <4>1 DEF In, Talks
      <4> QED BY <2>1, <4>2, Channels
    <3>4. Cnt("sbn", num[r]) >= 2 /\ Cnt("sbn", num[r]) \in Nat BY <2>1, <3>1, CntSbn
    <3>5. WaitedNo(c) >= 1 /\ ReceivedNo(c) >= 1 BY <3>3, <3>4 DEF WaitedNo, ReceivedNo, One
    <3>6. HandedNo(c) >= 1
      <4>1. CASE Direct(c[1], c[2])
        <5>1. deliv[c] = FlushedNo(c) - WaitedNo(c) /\ deliv[c] \in Nat
          BY <4>1 DEF Counts, CountsOf, Types
        <5> QED BY <3>5, <5>1, Numbers
      <4>2. CASE ~Direct(c[1], c[2])
        <5>1. Len(msgs[c]) = HandedNo(c) - ReceivedNo(c) /\ Len(msgs[c]) \in Nat
          BY <4>2 DEF Counts, CountsOf, Types
        <5> QED BY <3>5, <5>1, Numbers
      <4> QED BY <4>1, <4>2
    <3>7. Cnt("sbn", num[q]) >= 1
      <4>1. HandedNo(c) <= Cnt(c[3], num[c[1]]) /\ HandedNo(c) \in Nat BY Numbers
      <4>2. Cnt("sbn", num[q]) \in Nat BY <2>1, CntOf
      <4> QED BY <3>3, <3>6, <4>1, <4>2
    <3>8. num[q] # 0 BY <2>1, <3>7, CntZero
    <3> QED BY <2>1, <3>1, <3>8
  <2> QED BY <2>1, <2>2, <2>3, <2>4
<1> QED BY <1>1, <1>2 DEF TagsSuffice

LEMMA InvQuietAtTeardown == TokensInv => QuietAtTeardown
<1> USE DEF TokensInv
<1> SUFFICES ASSUME TokensInv, NEW r \in Rank, pc[r] = "done"
             PROVE  /\ \A q \in Rank : \A i \in DOMAIN stream[q] :
                         stream[q][i][1] \in {"put", "putfield"} => stream[q][i][2] # r
                    /\ \A c \in Channel : /\ (c[2] = r => msgs[c] = <<>> /\ deliv[c] = 0)
                                          /\ (c[1] = r => ready[c] = 0)
  BY DEF QuietAtTeardown
<1>1. num[r] = Total /\ todo[r] = {} /\ posted[r] = {}
  <2>1. num[r] = Total /\ todo[r] = {} BY DEF Hosts, HostOf
  <2>2. \A q : Waited(r, q) BY <2>1 DEF Waited
  <2> QED BY <2>1, <2>2 DEF Hosts, HostOf
<1>2. \A q : Waited(r, q) /\ Handed(r, q) BY <1>1 DEF Waited, Handed
<1>3. ASSUME NEW q \in Rank, NEW i \in DOMAIN stream[q],
             stream[q][i][1] \in {"put", "putfield"}, stream[q][i][2] = r
      PROVE  FALSE
  <2>1. stream[q] # <<>> /\ i \in 1 .. Len(stream[q]) BY <1>3 DEF Types
  <2>2. pc[q] \in {"send", "hand"} /\ num[q] > 0 BY <2>1, Engaged DEF Hosts, GpuOf
  <2>3. OpOf(q, stream[q][i], i) BY <2>1 DEF Hosts, StreamOf
  <2>4. r \in Out(K(q), q) /\ Direct(q, r) /\ r \notin todo[q] BY <1>3, <2>3 DEF OpOf
  <2>5. Handed(q, r) /\ ~Flushed(q) BY <2>2, <2>4 DEF Handed, Flushed
  <2>6. ~Waited(r, q) BY <2>2, <2>4, <2>5, SameExchange
  <2> QED BY <1>2, <2>6
<1>4. ASSUME NEW c \in Channel
      PROVE  (c[2] = r => msgs[c] = <<>> /\ deliv[c] = 0) /\ (c[1] = r => ready[c] = 0)
  <2>1. c[1] \in Rank /\ c[2] \in Rank /\ c[3] \in Kinds BY Channels
  <2>2. num[c[1]] \in Nat /\ num[c[1]] <= Total /\ num[c[2]] \in Nat /\ num[c[2]] <= Total
        /\ Total \in Nat
    BY <2>1, Rows DEF Types
  <2>3. /\ Cnt(c[3], num[c[1]]) \in Nat /\ Cnt(c[3], num[c[2]]) \in Nat /\ Cnt(c[3], Total) \in Nat
        /\ Cnt(c[3], num[c[1]]) <= Cnt(c[3], Total) /\ Cnt(c[3], num[c[2]]) <= Cnt(c[3], Total)
    BY <2>1, <2>2, CntMonotone, CntType
  <2>4. ready[c] \in Nat /\ deliv[c] \in Nat /\ msgs[c] \in Seq(Message) BY DEF Types
  <2>5. CountsOf(c) BY DEF Counts
  <2>6. ASSUME c[2] = r PROVE msgs[c] = <<>> /\ deliv[c] = 0
    <3>1. WaitedNo(c) = Cnt(c[3], Total) /\ ReceivedNo(c) = Cnt(c[3], Total)
      BY <1>1, <1>2, <2>3, <2>6 DEF WaitedNo, ReceivedNo, One
    <3>2. /\ HandedNo(c) \in Nat /\ FlushedNo(c) \in Nat /\ FlushedNo(c) <= HandedNo(c)
          /\ HandedNo(c) <= Cnt(c[3], num[c[1]])
      BY Numbers
    <3>3. HandedNo(c) <= Cnt(c[3], Total) /\ FlushedNo(c) <= Cnt(c[3], Total) BY <2>3, <3>2
    <3>4. CASE Direct(c[1], c[2]) BY <2>3, <2>4, <2>5, <3>1, <3>2, <3>3, <3>4 DEF CountsOf
    <3>5. CASE ~Direct(c[1], c[2])
      <4>1. Len(msgs[c]) = 0 /\ deliv[c] = 0
        BY <2>3, <2>4, <2>5, <3>1, <3>2, <3>3, <3>5 DEF CountsOf
      <4> QED BY <2>4, <4>1
    <3> QED BY <3>4, <3>5
  <2>7. ASSUME c[1] = r PROVE ready[c] = 0
    <3>1. HandedNo(c) = Cnt(c[3], Total) BY <1>1, <1>2, <2>3, <2>7 DEF HandedNo, One
    <3>2. PostedNo(c) = Cnt(c[3], num[c[2]]) BY DEF PostedNo
    <3> QED BY <2>3, <2>4, <2>5, <3>1, <3>2 DEF CountsOf
  <2> QED BY <2>6, <2>7
<1> QED BY <1>3, <1>4

-----------------------------------------------------------------------------
(* Messages.                                                               *)

\* A message that is still its sender's.
HeldOf(c) ==
  /\ Busy(c[3], c[1]) /\ Handed(c[1], c[2]) /\ InSend(c[1], c[2])
  /\ pc[c[1]] \in {"send", "hand", "waitall"}

LEMMA MsgKept ==
  ASSUME NEW c \in Channel, MsgOf(c), msgs'[c] = msgs[c],
         msgs[c] = <<>> \/ HandedNo(c)' = HandedNo(c),
         (\A i \in 1 .. Len(msgs[c]) : msgs[c][i] # Held) \/ (HeldOf(c) => HeldOf(c)')
  PROVE  MsgOf(c)'
<1>1. CASE msgs[c] = <<>> BY <1>1 DEF MsgOf
<1>2. CASE HandedNo(c)' = HandedNo(c) BY <1>2 DEF MsgOf, HeldOf
<1> QED BY <1>1, <1>2

\* Steps of a host that neither begin an exchange nor hand anything over.
LEMMA HandedKept ==
  ASSUME Types, NEW r \in Rank, Host(r), num' = num, NEW c \in Channel,
         \A p \in Out(K(r), r) : Handed(r, p)' <=> Handed(r, p)
  PROVE  HandedNo(c)' = HandedNo(c)
<1>1. c[2] \in Out(c[3], c[1]) BY Channels
<1>2. CASE c[1] # r BY <1>2, NumbersFrame
<1>3. CASE c[1] = r /\ c[3] = K(r)
  <2>1. Handed(r, c[2])' <=> Handed(r, c[2]) BY <1>1, <1>3
  <2> QED BY <1>3, <2>1 DEF HandedNo, Busy, K
<1>4. CASE c[1] = r /\ c[3] # K(r)
  <2>1. ~Busy(c[3], r) /\ ~Busy(c[3], r)' BY <1>4 DEF Busy, K
  <2> QED BY <1>4, <2>1 DEF HandedNo
<1> QED BY <1>2, <1>3, <1>4

\* What a step of a host does to the numbers handed over.
LEMMA HostHanded ==
  ASSUME Types, Hosts, NEW r \in Rank, Host(r), NEW c \in Channel
  PROVE  \/ HandedNo(c)' = HandedNo(c)
         \/ /\ HandDirect(r) \/ HandMessage(r) \/ PutField(r)
            /\ todo[r] # {} /\ First(r) \in todo[r] /\ First(r) \in Out(K(r), r) /\ num[r] > 0
            /\ c = <<r, First(r), K(r)>> /\ HandedNo(c)' = HandedNo(c) + 1
<1> USE DEF Step, Leave, mpiVars
<1>t. /\ (todo[r] # {} => First(r) \in todo[r])
      /\ (pc[r] \in {"send", "hand"} => todo[r] \subseteq Out(K(r), r) /\ num[r] > 0)
      /\ (pc[r] = "hand" => todo[r] # {})
  BY FirstIn, Engaged DEF Types, Hosts, HostOf
<1>1. CASE CommRecv(r) BY <1>1, CommRecvHanded
<1>2. CASE TimeIncrement(r)
  <2>1. num' = num /\ pc[r] = "reduce" /\ pc'[r] = "send" /\ todo' = todo /\ todo[r] = Out(K(r), r)
    BY <1>2 DEF TimeIncrement, Types, Hosts, HostOf
  <2>2. \A p \in Out(K(r), r) : ~Handed(r, p)' /\ ~Handed(r, p) BY <2>1 DEF Handed
  <2> QED BY <2>1, <2>2, HandedKept
<1>3. CASE PackLocal(r)
  <2>1. num' = num /\ pc[r] = "send" /\ pc'[r] = "hand" /\ todo' = todo
    BY <1>3 DEF PackLocal, Types
  <2> QED BY <2>1, HandedKept DEF Handed
<1>4. CASE HandDirect(r)
  <2>1. pc'[r] = "send" /\ todo'[r] = todo[r] \ {First(r)} /\ pc[r] = "hand"
    BY <1>4 DEF HandDirect, Types
  <2> QED BY <1>4, <1>t, <2>1, HandNumbers DEF HandDirect
<1>5. CASE HandMessage(r)
  <2>1. pc'[r] = "send" /\ todo'[r] = todo[r] \ {First(r)} /\ pc[r] = "hand"
    BY <1>5 DEF HandMessage, Types
  <2> QED BY <1>5, <1>t, <2>1, HandNumbers DEF HandMessage
<1>6. CASE PutField(r)
  <2>1. pc'[r] = "send" /\ todo'[r] = todo[r] \ {First(r)} /\ pc[r] = "send"
    BY <1>6 DEF PutField, Types
  <2> QED BY <1>6, <1>t, <2>1, HandNumbers DEF PutField
<1>7. CASE CommTokenFlush(r)
  <2>1. num' = num /\ pc[r] = "send" /\ pc'[r] = "waitall" /\ todo' = todo /\ todo[r] = {}
    BY <1>7 DEF CommTokenFlush, Types
  <2> QED BY <2>1, HandedKept DEF Handed
<1>8. CASE Waitall(r)
  <2>1. num' = num /\ pc[r] = "waitall" /\ pc'[r] = "unpack" BY <1>8 DEF Waitall, Types
  <2> QED BY <2>1, HandedKept DEF Handed
<1>9. CASE WaitAndUnpack(r)
  <2>1. num' = num /\ pc[r] = "unpack" /\ pc' = pc BY <1>9 DEF WaitAndUnpack
  <2> QED BY <2>1, HandedKept DEF Handed
<1>10. CASE Finish(r)
  <2>1. num' = num /\ pc[r] = "unpack" /\ pc'[r] = "done" BY <1>10 DEF Finish, Types
  <2> QED BY <2>1, HandedKept DEF Handed
<1> QED BY <1>1, <1>2, <1>3, <1>4, <1>5, <1>6, <1>7, <1>8, <1>9, <1>10 DEF Host

\* A message in hand stays in hand, until MPI_Waitall finds that there is none.
LEMMA HostHeld ==
  ASSUME Types, Hosts, Messages, NEW r \in Rank, Host(r), NEW c \in Channel
  PROVE  (\A i \in 1 .. Len(msgs[c]) : msgs[c][i] # Held) \/ (HeldOf(c) => HeldOf(c)')
<1> USE DEF Step, Leave
<1>1. c[1] \in Rank /\ c[2] \in Rank BY Channels
<1>2. CASE c[1] # r
  <2>1. /\ num'[c[1]] = num[c[1]] /\ pc'[c[1]] = pc[c[1]] /\ todo'[c[1]] = todo[c[1]]
        /\ sendBuf' = sendBuf
    BY <1>1, <1>2, HostFrame
  <2> QED BY <2>1 DEF HeldOf, Busy, K, Handed, InSend
<1>3. CASE c[1] = r /\ pc[r] \notin {"send", "hand", "waitall"} BY <1>3 DEF HeldOf
<1>4. CASE c[1] = r /\ Waitall(r)
  <2>1. \A i \in DOMAIN msgs[c] : msgs[c][i] # Held BY <1>4 DEF Waitall, Sent
  <2> QED BY <2>1 DEF Types
<1>5. CASE c[1] = r /\ pc[r] \in {"send", "hand", "waitall"} /\ ~Waitall(r)
  <2>1. /\ num' = num /\ sendBuf' = sendBuf /\ pc'[r] \in {"send", "hand", "waitall"}
        /\ todo'[r] \subseteq todo[r] /\ pc[r] \in {"send", "hand"}
    <3>1. sendBuf' = sendBuf BY HostFrame
    <3>2. CASE PackLocal(r) BY <3>1, <3>2 DEF PackLocal, Types
    <3>3. CASE HandDirect(r) BY <3>1, <3>3 DEF HandDirect, Types
    <3>4. CASE HandMessage(r) BY <3>1, <3>4 DEF HandMessage, Types
    <3>5. CASE PutField(r) BY <3>1, <3>5 DEF PutField, Types
    <3>6. CASE CommTokenFlush(r) BY <3>1, <3>6 DEF CommTokenFlush, Types
    <3> QED BY <1>5, <3>2, <3>3, <3>4, <3>5, <3>6
         DEF Host, CommRecv, TimeIncrement, WaitAndUnpack, Finish
  <2>2. Handed(r, c[2]) => Handed(r, c[2])' BY <2>1 DEF Handed
  <2> QED BY <1>5, <2>1, <2>2 DEF HeldOf, Busy, K, InSend
<1> QED BY <1>2, <1>3, <1>4, <1>5

LEMMA HandMessageMessage ==
  ASSUME Types, Hosts, Counts, Pace, NEW r \in Rank, HandMessage(r), NEW c \in Channel,
         c = <<r, First(r), K(r)>>, First(r) \in todo[r], num[r] > 0
  PROVE  MsgOf(c)'
<1>q. PICK q \in todo[r] : q = First(r) OBVIOUS
<1>1. /\ pc[r] = "hand" /\ pc'[r] = "send" /\ num' = num /\ sendBuf' = sendBuf /\ stream[r] = <<>>
      /\ todo'[r] = todo[r] \ {q} /\ ~Direct(r, q) /\ c[1] = r /\ c[2] = q /\ c[3] = K(r)
      /\ msgs'[c] = Append(msgs[c], Held)
  BY <1>q DEF HandMessage, Step, Leave, Types, bufVars
<1>2. InSend(r, q)
  <2>1. PackedBefore(r, q, Len(stream[r]) + 1) BY <1>1, <1>q DEF Hosts, StreamOf
  <2>2. Len(stream[r]) + 1 = 1 BY <1>1
  <2>3. \A j : j \notin 1 .. 1 - 1 OBVIOUS
  <2> QED BY <2>1, <2>2, <2>3 DEF PackedBefore
<1>3. msgs[c] = <<>>
  <2>1. Cnt(c[3], num[r]) <= ReceivedNo(c) + 1 BY <1>1, Window
  <2>2. Cnt(c[3], num[r]) \in Nat BY <1>1, Channels, CntOf
  <2>3. HandedNo(c) = Cnt(c[3], num[r]) - 1
    BY <1>1, <1>q, <2>2 DEF HandedNo, Handed, Busy, One
  <2>4. Len(msgs[c]) = HandedNo(c) - ReceivedNo(c) BY <1>1 DEF Counts, CountsOf
  <2>5. ReceivedNo(c) \in Nat /\ msgs[c] \in Seq(Message) BY Numbers DEF Types
  <2>6. Len(msgs[c]) = 0 BY <2>1, <2>2, <2>3, <2>4, <2>5
  <2> QED BY <2>5, <2>6
<1>4. Len(msgs'[c]) = 1 /\ msgs'[c][1] = Held BY <1>1, <1>3
<1>5. HeldOf(c)' BY <1>1, <1>2 DEF HeldOf, Busy, K, Handed, InSend
<1>6. \A i \in 1 .. Len(msgs'[c]) : msgs'[c][i] = Held BY <1>4
<1> QED BY <1>5, <1>6 DEF MsgOf, HeldOf

LEMMA HostMessages ==
  ASSUME Types, Hosts, Counts, Pace, Messages, NEW r \in Rank, Host(r)
  PROVE  Messages'
<1> SUFFICES ASSUME NEW c \in Channel PROVE MsgOf(c)' BY DEF Messages
<1>1. CASE HandMessage(r) /\ c = <<r, First(r), K(r)>>
  <2>1. num[r] > 0 /\ First(r) \in todo[r]
    <3>1. pc[r] = "hand" BY <1>1 DEF HandMessage
    <3> QED BY <3>1, Engaged, FirstIn DEF Hosts, HostOf, Types
  <2> QED BY <1>1, <2>1, HandMessageMessage
<1>2. CASE ~(HandMessage(r) /\ c = <<r, First(r), K(r)>>)
  <2>1. msgs'[c] = msgs[c]
    <3>1. msgs' = msgs \/ HandMessage(r)
      BY DEF Host, CommRecv, TimeIncrement, PackLocal, HandDirect, PutField, CommTokenFlush,
             Waitall, WaitAndUnpack, Finish, mpiVars
    <3>2. HandMessage(r) => msgs'[c] = msgs[c] BY <1>2 DEF HandMessage, Types
    <3> QED BY <3>1, <3>2
  <2>2. MsgOf(c) BY DEF Messages
  <2>3. msgs[c] = <<>> \/ HandedNo(c)' = HandedNo(c)
    <3>1. ASSUME HandDirect(r) \/ PutField(r), c = <<r, First(r), K(r)>> PROVE msgs[c] = <<>>
      <4>1. Direct(c[1], c[2]) BY <3>1 DEF HandDirect, PutField
      <4> QED BY <4>1 DEF Counts, CountsOf
    <3> QED BY <1>2, <3>1, HostHanded
  <2> QED BY <2>1, <2>2, <2>3, HostHeld, MsgKept
<1> QED BY <1>1, <1>2

\* Work on the send stream leaves the messages in the send buffer alone.
LEMMA SendGrows ==
  ASSUME Types, Hosts, NEW r \in Rank, RunStream(r), NEW q \in Rank, NEW p, InSend(q, p)
  PROVE  InSend(q, p)'
<1>1. num' = num /\ stream[r] # <<>> BY DEF RunStream, hostVars
<1>2. CASE q # r
  <2>1. sendBuf'[q] = sendBuf[q] BY <1>2 DEF RunStream, Types
  <2> QED BY <1>1, <2>1 DEF InSend
<1>3. CASE q = r
  <2>1. gen[r] = num[r]
    <3>1. pc[r] \in {"send", "hand"} BY <1>1 DEF Hosts, GpuOf
    <3> QED BY <3>1 DEF Hosts, GpuOf
  <2>2. sendBuf' = sendBuf \/ sendBuf'[r] = Into(sendBuf[r], Head(stream[r])[2], num[r], TRUE)
    BY <2>1 DEF RunStream, Types
  <2> QED BY <1>1, <1>3, <2>2 DEF InSend, Into
<1> QED BY <1>2, <1>3

LEMMA GpuMessages ==
  ASSUME Types, Hosts, Messages, NEW r \in Rank, RunStream(r) \/ \E q \in Rank : RunUnpack(r, q)
  PROVE  Messages'
<1>1. msgs' = msgs /\ num' = num /\ pc' = pc /\ todo' = todo
  BY DEF RunStream, RunUnpack, hostVars, mpiVars
<1>2. ASSUME NEW q \in Rank, NEW p, InSend(q, p) PROVE InSend(q, p)'
  <2>1. CASE RunStream(r) BY <1>2, <2>1, SendGrows
  <2>2. CASE ~RunStream(r)
    <3>1. sendBuf' = sendBuf BY <2>2 DEF RunUnpack, bufVars
    <3> QED BY <1>1, <1>2, <3>1 DEF InSend
  <2> QED BY <2>1, <2>2
<1> SUFFICES ASSUME NEW c \in Channel PROVE MsgOf(c)' BY DEF Messages
<1>3. HandedNo(c)' = HandedNo(c) BY <1>1 DEF HandedNo, Busy, K, Handed
<1>4. HeldOf(c) => HeldOf(c)' BY <1>1, <1>2, Channels DEF HeldOf, Busy, K, Handed
<1> QED BY <1>1, <1>3, <1>4, MsgKept DEF Messages

LEMMA BufferMessages ==
  ASSUME Types, Hosts, Messages, NEW d \in Channel, Buffer(d)
  PROVE  Messages'
<1>1. num' = num /\ pc' = pc /\ todo' = todo /\ sendBuf' = sendBuf
  BY DEF Buffer, hostVars, bufVars
<1>2. PICK i \in DOMAIN msgs[d] : /\ msgs[d][i] = Held
                                 /\ msgs' = [msgs EXCEPT ![d] = [msgs[d] EXCEPT ![i] = Packed(d)]]
  BY DEF Buffer
<1> SUFFICES ASSUME NEW c \in Channel PROVE MsgOf(c)' BY DEF Messages
<1>3. HandedNo(c)' = HandedNo(c) BY <1>1 DEF HandedNo, Busy, K, Handed
<1>4. HeldOf(c) => HeldOf(c)' BY <1>1 DEF HeldOf, Busy, K, Handed, InSend
<1>5. MsgOf(c) BY DEF Messages
<1>6. CASE c # d
  <2>1. msgs'[c] = msgs[c] BY <1>2, <1>6 DEF Types
  <2> QED BY <1>3, <1>4, <1>5, <2>1, MsgKept
<1>7. CASE c = d
  <2>1. /\ msgs[c] \in Seq(Message) /\ msgs'[c] = [msgs[c] EXCEPT ![i] = Packed(c)]
        /\ i \in 1 .. Len(msgs[c])
    BY <1>2, <1>7 DEF Types
  <2>2. HeldOf(c) BY <1>2, <1>5, <1>7, <2>1 DEF MsgOf, HeldOf
  <2>3. c[1] \in Rank /\ num[c[1]] \in Nat \ {0} /\ Kind(num[c[1]]) = c[3]
    BY <2>2, Channels, Begun DEF HeldOf, Busy, K
  <2>4. Packed(c) = num[c[1]] BY <2>2 DEF Packed, HeldOf, InSend
  <2>5. Cnt(c[3], num[c[1]]) = HandedNo(c)
    <3>1. Cnt(c[3], num[c[1]]) \in Nat BY <2>3, CntOf, Channels
    <3> QED BY <2>2, <3>1 DEF HandedNo, HeldOf, One
  <2>6. msgs'[c][i] = num[c[1]] /\ num[c[1]] # Held BY <2>1, <2>3, <2>4 DEF Held
  <2>7. \A j \in 1 .. Len(msgs'[c]) : j \in 1 .. Len(msgs[c]) /\ (j # i => msgs'[c][j] = msgs[c][j])
    BY <2>1
  <2>8. HeldOf(c)' BY <1>4, <2>2
  <2>9. ASSUME NEW j \in 1 .. Len(msgs'[c])
        PROVE  IF msgs'[c][j] = Held THEN HeldOf(c)'
               ELSE /\ msgs'[c][j] > 0 /\ Kind(msgs'[c][j]) = c[3]
                    /\ Cnt(c[3], msgs'[c][j]) = HandedNo(c)
    <3>1. CASE j = i BY <2>3, <2>5, <2>6, <3>1
    <3>2. CASE j # i BY <1>5, <2>7, <2>8, <3>2 DEF MsgOf
    <3> QED BY <3>1, <3>2
  <2> QED BY <1>3, <2>9 DEF MsgOf, HeldOf
<1> QED BY <1>6, <1>7

LEMMA DeliverMessages ==
  ASSUME Types, Hosts, Messages, NEW d \in Channel, Deliver(d)
  PROVE  Messages'
<1>1. num' = num /\ pc' = pc /\ todo' = todo /\ sendBuf' = sendBuf
      /\ msgs' = [msgs EXCEPT ![d] = Tail(msgs[d])] /\ msgs[d] # <<>>
  BY DEF Deliver, hostVars
<1> SUFFICES ASSUME NEW c \in Channel PROVE MsgOf(c)' BY DEF Messages
<1>3. HandedNo(c)' = HandedNo(c) BY <1>1 DEF HandedNo, Busy, K, Handed
<1>4. HeldOf(c) => HeldOf(c)' BY <1>1 DEF HeldOf, Busy, K, Handed, InSend
<1>5. MsgOf(c) BY DEF Messages
<1>6. CASE c # d
  <2>1. msgs'[c] = msgs[c] BY <1>1, <1>6 DEF Types
  <2> QED BY <1>3, <1>4, <1>5, <2>1, MsgKept
<1>7. CASE c = d
  <2>1. msgs[c] \in Seq(Message) /\ msgs'[c] = Tail(msgs[c]) BY <1>1, <1>7 DEF Types
  <2>2. \A j \in 1 .. Len(msgs'[c]) : j + 1 \in 1 .. Len(msgs[c]) /\ msgs'[c][j] = msgs[c][j + 1]
    <3>1. PICK m : m = msgs[c] OBVIOUS
    <3>2. m \in Seq(Message) /\ m # <<>> /\ msgs'[c] = Tail(m) BY <1>1, <1>7, <2>1, <3>1
    <3>3. \A j \in 1 .. Len(Tail(m)) : j + 1 \in 1 .. Len(m) /\ Tail(m)[j] = m[j + 1] BY <3>2
    <3> QED BY <3>1, <3>2, <3>3
  <2> QED BY <1>3, <1>4, <1>5, <2>2 DEF MsgOf, HeldOf
<1> QED BY <1>6, <1>7

-----------------------------------------------------------------------------
(* The receive buffers.                                                    *)

LEMMA BufferKept ==
  ASSUME NEW c \in Channel, BufferOf(c), num'[c[2]] = num[c[2]],
         <<c[1], num[c[2]]>> \in recvBuf[c[2]] => <<c[1], num[c[2]]>> \in recvBuf'[c[2]],
         Landing(c)' => Landing(c)
  PROVE  BufferOf(c)'
<1>1. Busy(c[3], c[2])' => Busy(c[3], c[2]) BY DEF Busy, K
<1> QED BY <1>1 DEF BufferOf

\* Work added to a stream, or none.
LEMMA AimedGrows ==
  ASSUME Types, NEW q \in Rank, NEW r, Aimed(q, r), NEW x,
         stream'[q] = stream[q] \/ stream'[q] = Append(stream[q], x)
  PROVE  Aimed(q, r)'
<1>1. CASE stream'[q] = stream[q] BY <1>1 DEF Aimed
<1>2. CASE stream'[q] = Append(stream[q], x)
  <2>1. /\ Len(stream[q]) \in Nat /\ Len(stream'[q]) = Len(stream[q]) + 1
        /\ \A i \in 1 .. Len(stream[q]) : stream'[q][i] = stream[q][i]
    BY <1>2, Enqueued
  <2>2. \A i \in 1 .. Len(stream[q]) : i \in 1 .. Len(stream'[q]) BY <2>1
  <2> QED BY <2>1, <2>2 DEF Aimed
<1> QED BY <1>1, <1>2

LEMMA CommRecvBuffers ==
  ASSUME Types, Hosts, Counts, Buffers, NEW r \in Rank, CommRecv(r)
  PROVE  Buffers'
<1> DEFINE k == Kind(num[r] + 1)
<1>1. /\ stream' = stream /\ stream[r] = <<>> /\ ipc' = ipc /\ recvBuf' = recvBuf
      /\ num' = [num EXCEPT ![r] = num[r] + 1]
      /\ posted' = [posted EXCEPT ![r] = In(k, r) \ Callers(k, r)]
  BY DEF CommRecv, Drained, conf
<1>2. num[r] \in Nat BY Begun
<1> SUFFICES ASSUME NEW c \in Channel PROVE BufferOf(c)' BY DEF Buffers
<1>3. c[1] \in Rank /\ c[2] \in Rank /\ c[3] \in Kinds /\ c[1] \in In(c[3], c[2]) BY Channels
<1>4. HandedNo(c)' = HandedNo(c) BY CommRecvHanded
<1>5. CASE c[2] = r
  <2> SUFFICES ASSUME Busy(c[3], r)', Landing(c)' PROVE FALSE BY <1>5 DEF BufferOf
  <2>1. num'[r] = num[r] + 1 /\ Kind(num[r] + 1) = c[3] BY <1>1 DEF Busy, K, Types
  <2>2. CASE Direct(c[1], c[2])
    <3>1. HandedNo(c)' = PostedNo(c)' BY <1>1, <2>2 DEF Landing, Direct
    <3>2. PostedNo(c)' = PostedNo(c) + 1
      <4>1. Cnt(c[3], num[r] + 1) = Cnt(c[3], num[r]) + 1 BY <1>2, <1>3, <2>1, CntNext
      <4> QED BY <1>5, <2>1, <4>1 DEF PostedNo
    <3>3. ready[c] = PostedNo(c) - HandedNo(c) /\ ready[c] \in Nat
      BY <2>2 DEF Counts, CountsOf, Types
    <3>4. HandedNo(c) \in Nat /\ PostedNo(c) \in Nat BY Numbers
    <3>5. HandedNo(c) = PostedNo(c) + 1 BY <1>4, <3>1, <3>2
    <3> QED BY <3>3, <3>4, <3>5
  <2>3. CASE ~Direct(c[1], c[2])
    <3>1. c[1] \notin posted'[r] BY <1>1, <1>5, <2>3 DEF Landing, Direct
    <3>2. posted'[r] = In(k, r) \ Callers(k, r) BY <1>1 DEF Types
    <3>3. c[1] \in In(k, r) BY <1>3, <1>5, <2>1
    <3>4. Direct(r, c[1]) BY <3>1, <3>2, <3>3 DEF Callers
    <3> QED BY <1>5, <2>3, <3>4, DirectBoth
  <2> QED BY <2>2, <2>3
<1>6. CASE c[2] # r
  <2>1. num'[c[2]] = num[c[2]] /\ posted'[c[2]] = posted[c[2]] BY <1>1, <1>3, <1>6 DEF Types
  <2>2. PostedNo(c)' = PostedNo(c) BY <2>1 DEF PostedNo
  <2>3. Aimed(c[1], c[2])' <=> Aimed(c[1], c[2]) BY <1>1 DEF Aimed
  <2>4. num[c[1]] = num[c[2]] /\ Aimed(c[1], c[2]) => num'[c[1]] = num'[c[2]]
    <3>1. CASE c[1] = r BY <1>1, <3>1 DEF Aimed
    <3>2. CASE c[1] # r BY <1>1, <1>3, <2>1, <3>2 DEF Types
    <3> QED BY <3>1, <3>2
  <2>5. Landing(c)' => Landing(c) BY <1>1, <1>4, <2>1, <2>2, <2>3, <2>4 DEF Landing, Direct
  <2> QED BY <1>1, <2>1, <2>5, BufferKept DEF Buffers
<1> QED BY <1>5, <1>6

\* A copy is aimed at the exchange its receiver is in, before it has landed.
LEMMA HandedLanding ==
  ASSUME Types, Types', NEW r \in Rank, NEW q \in Rank, NEW c \in Channel, num' = num, num[r] > 0,
         c[1] = r, c[2] = q, c[3] = K(r), Handed(r, q)', ipc' = ipc, Direct(r, q), Aimed(r, q)',
         Busy(K(r), q)
  PROVE  ~Landing(c)'
<1> SUFFICES ASSUME HandedNo(c)' = PostedNo(c)', num[r] # num[q] PROVE FALSE
  BY DEF Landing, Direct
<1>1. c[3] \in Kinds /\ num[r] \in Nat \ {0} /\ num[q] \in Nat \ {0}
  BY Channels, Begun DEF Busy
<1>2. Cnt(c[3], num[r]) \in Nat /\ Cnt(c[3], num[q]) \in Nat BY <1>1, CntOf
<1>3. HandedNo(c)' = Cnt(c[3], num'[r]) - One(Busy(c[3], r)' /\ ~Handed(r, q)') BY DEF HandedNo
<1>4. HandedNo(c)' = Cnt(c[3], num[r]) BY <1>2, <1>3 DEF One
<1>5. PostedNo(c)' = Cnt(c[3], num[q]) BY DEF PostedNo
<1>6. Kind(num[r]) = c[3] /\ Kind(num[q]) = c[3] BY DEF Busy, K
<1>7. Cnt(c[3], num[q]) = Cnt(c[3], num[r]) BY <1>4, <1>5
<1>8. /\ Cnt(Kind(num[r]), num[q]) >= Cnt(Kind(num[r]), num[r])
      /\ Cnt(Kind(num[q]), num[r]) >= Cnt(Kind(num[q]), num[q])
  BY <1>2, <1>6, <1>7
<1>9. num[q] >= num[r] /\ num[r] >= num[q] BY <1>1, <1>8, CntLeast
<1> QED BY <1>1, <1>9

LEMMA HostBuffers ==
  ASSUME Types, Types', Hosts, Counts, Buffers, NEW r \in Rank, Host(r)
  PROVE  Buffers'
<1>1. CASE CommRecv(r) BY <1>1, CommRecvBuffers
<1>2. CASE ~CommRecv(r)
  <2> USE DEF conf, gpuVars, bufVars, mpiVars, Enqueue
  <2>1. num' = num /\ posted' = posted /\ recvBuf' = recvBuf /\ ipc' = ipc
    BY <1>2 DEF Host, TimeIncrement, PackLocal, HandDirect, HandMessage, PutField, CommTokenFlush,
                Waitall, WaitAndUnpack, Finish
  <2>2. PICK x : stream' = stream \/ stream' = [stream EXCEPT ![r] = Append(stream[r], x)]
    BY <1>2 DEF Host, TimeIncrement, PackLocal, HandDirect, HandMessage, PutField, CommTokenFlush,
                Waitall, WaitAndUnpack, Finish
  <2> SUFFICES ASSUME NEW c \in Channel PROVE BufferOf(c)' BY DEF Buffers
  <2>3. c[1] \in Rank /\ c[2] \in Rank BY Channels
  <2>4. Aimed(c[1], c[2]) => Aimed(c[1], c[2])'
    <3>1. stream'[c[1]] = stream[c[1]] \/ stream'[c[1]] = Append(stream[c[1]], x)
      BY <2>2, <2>3 DEF Types
    <3> QED BY <2>3, <3>1, AimedGrows
  <2>5. PostedNo(c)' = PostedNo(c) BY <2>1 DEF PostedNo
  <2>6. CASE HandedNo(c)' = HandedNo(c) \/ ~Direct(c[1], c[2])
    <3>1. Landing(c)' => Landing(c) BY <2>1, <2>4, <2>5, <2>6 DEF Landing, Direct
    <3> QED BY <2>1, <3>1, BufferKept DEF Buffers
  <2>7. CASE HandedNo(c)' # HandedNo(c) /\ Direct(c[1], c[2])
    <3> SUFFICES ASSUME Busy(c[3], c[2])' PROVE ~Landing(c)' BY DEF BufferOf
    <3>1. /\ HandDirect(r) \/ HandMessage(r) \/ PutField(r)
          /\ num[r] > 0 /\ todo[r] # {} /\ First(r) \in todo[r] /\ c = <<r, First(r), K(r)>>
      BY <2>7, HostHanded
    <3>q. PICK q \in Rank : q = First(r) /\ c[1] = r /\ c[2] = q /\ c[3] = K(r)
      BY <2>3, <3>1
    <3>2. HandDirect(r) \/ PutField(r) BY <2>7, <3>1, <3>q DEF HandMessage
    <3>3. PICK op \in {"put", "putfield"} : stream'[r] = Append(stream[r], <<op, q>>)
      BY <3>2, <3>q DEF HandDirect, PutField, Types
    <3>4. Aimed(r, q)'
      <4>1. /\ Len(stream'[r]) = Len(stream[r]) + 1 /\ Len(stream[r]) \in Nat
            /\ stream'[r][Len(stream[r]) + 1] = <<op, q>>
        BY <3>3, Enqueued
      <4>2. PICK n : n = Len(stream[r]) + 1 OBVIOUS
      <4>3. n \in 1 .. Len(stream'[r]) /\ stream'[r][n][1] = op /\ stream'[r][n][2] = q
        BY <4>1, <4>2
      <4> QED BY <4>3 DEF Aimed
    <3>5. Handed(r, q)'
      <4>1. pc'[r] = "send" /\ q \notin todo'[r]
        BY <3>2, <3>q DEF HandDirect, PutField, Step, Leave, Types
      <4> QED BY <4>1 DEF Handed
    <3>6. Busy(K(r), q) /\ Direct(r, q) BY <2>1, <2>7, <3>q DEF Busy, K
    <3> QED BY <2>1, <3>1, <3>q, <3>4, <3>5, <3>6, HandedLanding
  <2> QED BY <2>6, <2>7
<1> QED BY <1>1, <1>2

LEMMA RunStreamBuffers ==
  ASSUME Types, Hosts, Counts, Buffers, NEW r \in Rank, RunStream(r)
  PROVE  Buffers'
<1>1. /\ num' = num /\ pc' = pc /\ todo' = todo /\ posted' = posted /\ ipc' = ipc /\ stream[r] # <<>>
      /\ stream' = [stream EXCEPT ![r] = Tail(stream[r])]
  BY DEF RunStream, conf, hostVars, mpiVars
<1>2. PICK o : o = stream[r][1] OBVIOUS
<1>3. Head(stream[r]) = o /\ 1 \in 1 .. Len(stream[r]) /\ o \in Op /\ stream[r] \in Seq(Op)
  BY <1>1, <1>2 DEF Types
<1>4. o[1] \in {"pack", "put", "putfield"} /\ o[2] \in Rank BY <1>3 DEF Op
<1>5. pc[r] \in {"send", "hand"} /\ num[r] > 0 /\ gen[r] = num[r]
  <2>1. num[r] > 0 BY <1>1, Engaged
  <2>2. pc[r] \in {"send", "hand"} BY <1>1 DEF Hosts, GpuOf
  <2> QED BY <2>1, <2>2 DEF Hosts, GpuOf
<1>6. OpOf(r, o, 1) BY <1>2, <1>3 DEF Hosts, StreamOf
<1>7. \A c \in Channel : HandedNo(c)' = HandedNo(c) /\ PostedNo(c)' = PostedNo(c)
  BY <1>1 DEF HandedNo, PostedNo, Busy, K, Handed
\* The head of the stream is the only copy that lands.
<1>8. ASSUME NEW c \in Channel, c[1] # r \/ c[2] # o[2] \/ o[1] = "pack", Landing(c)'
      PROVE  Landing(c)
  <2>1. ASSUME Aimed(c[1], c[2]) PROVE Aimed(c[1], c[2])'
    <3>1. CASE c[1] # r
      <4>1. stream'[c[1]] = stream[c[1]] BY <1>1, <3>1, Channels DEF Types
      <4> QED BY <2>1, <4>1 DEF Aimed
    <3>2. CASE c[1] = r
      <4>1. PICK i \in 1 .. Len(stream[r]) :
              stream[r][i][1] \in {"put", "putfield"} /\ stream[r][i][2] = c[2]
        BY <2>1, <3>2 DEF Aimed
      <4>2. i # 1 BY <1>2, <1>8, <3>2, <4>1
      <4>3. stream'[r] = Tail(stream[r]) BY <1>1 DEF Types
      <4>4. i - 1 \in 1 .. Len(stream'[r]) /\ stream'[r][i - 1] = stream[r][i]
        <5>1. PICK s : s = stream[r] OBVIOUS
        <5>2. s \in Seq(Op) /\ i \in 1 .. Len(s) /\ i # 1 /\ s # <<>> BY <1>1, <1>3, <4>2, <5>1
        <5>3. i - 1 \in 1 .. Len(Tail(s)) /\ Tail(s)[i - 1] = s[i] BY <5>2
        <5> QED BY <4>3, <5>1, <5>3
      <4> QED BY <3>2, <4>1, <4>4 DEF Aimed
    <3> QED BY <3>1, <3>2
  <2> QED BY <1>1, <1>7, <1>8, <2>1 DEF Landing, Direct
<1>9. CASE o[1] = "pack"
  <2>1. recvBuf' = recvBuf BY <1>3, <1>9 DEF RunStream
  <2> SUFFICES ASSUME NEW c \in Channel PROVE BufferOf(c)' BY DEF Buffers
  <2>2. Landing(c)' => Landing(c) BY <1>8, <1>9
  <2> QED BY <1>1, <2>1, <2>2, BufferKept DEF Buffers
<1>10. CASE o[1] \in {"put", "putfield"}
  <2>q. PICK q \in Rank : q = o[2] BY <1>4
  <2>1. q \in Out(K(r), r) /\ Direct(r, q) /\ q \notin todo[r] BY <1>6, <1>10, <2>q DEF OpOf
  <2>2. Handed(r, q) /\ ~Flushed(r) BY <1>5, <2>1 DEF Handed, Flushed
  <2>3. num[q] = num[r] BY <1>5, <2>1, <2>2, SameExchange
  <2>4. recvBuf' = [recvBuf EXCEPT ![q] = Into(recvBuf[q], r, num[r], TRUE)]
    <3>1. CASE o[1] = "put"
      <4>1. PackedBefore(r, q, 1) BY <1>6, <2>q, <3>1 DEF OpOf
      <4>2. \A j : j \notin 1 .. 1 - 1 OBVIOUS
      <4>3. <<q, num[r]>> \in sendBuf[r] BY <4>1, <4>2 DEF PackedBefore, InSend
      <4>4. recvBuf' = [recvBuf EXCEPT ![q] = Into(recvBuf[q], r, num[r], <<q, num[r]>> \in sendBuf[r])]
        BY <1>3, <2>q, <3>1 DEF RunStream
      <4> QED BY <4>3, <4>4 DEF Into
    <3>2. CASE o[1] = "putfield"
      <4>1. recvBuf' = [recvBuf EXCEPT ![q] = Into(recvBuf[q], r, num[r], gen[r] = num[r])]
        BY <1>3, <2>q, <3>2 DEF RunStream
      <4> QED BY <1>5, <4>1 DEF Into
    <3> QED BY <1>10, <3>1, <3>2
  <2>5. recvBuf'[q] = Into(recvBuf[q], r, num[q], TRUE) /\ \A p \in Rank \ {q} : recvBuf'[p] = recvBuf[p]
    BY <2>3, <2>4 DEF Types
  <2> SUFFICES ASSUME NEW c \in Channel PROVE BufferOf(c)' BY DEF Buffers
  <2>6. c[1] \in Rank /\ c[2] \in Rank BY Channels
  <2>7. CASE c[1] = r /\ c[2] = q
    <3>1. <<r, num'[q]>> \in recvBuf'[q] BY <1>1, <2>5 DEF Into
    <3> QED BY <2>7, <3>1 DEF BufferOf
  <2>8. CASE c[1] # r \/ c[2] # q
    <3>1. Landing(c)' => Landing(c) BY <1>8, <2>8, <2>q
    <3>2. <<c[1], num[c[2]]>> \in recvBuf[c[2]] => <<c[1], num[c[2]]>> \in recvBuf'[c[2]]
      BY <2>5, <2>6, <2>8 DEF Into
    <3> QED BY <1>1, <3>1, <3>2, BufferKept DEF Buffers
  <2> QED BY <2>7, <2>8
<1> QED BY <1>4, <1>9, <1>10

LEMMA QuietBuffers ==
  ASSUME Types, Buffers,
         \/ \E r \in Rank, q \in Rank : RunUnpack(r, q)
         \/ \E c \in Channel : Buffer(c)
  PROVE  Buffers'
<1>1. /\ num' = num /\ pc' = pc /\ todo' = todo /\ posted' = posted /\ ipc' = ipc
      /\ stream' = stream /\ recvBuf' = recvBuf
  BY DEF RunUnpack, Buffer, conf, hostVars, mpiVars, bufVars, gpuVars
<1> QED BY <1>1 DEF Buffers, BufferOf, Landing, Aimed, Direct, HandedNo, PostedNo, Handed, Busy, K

LEMMA DeliverBuffers ==
  ASSUME Types, Hosts, Counts, Pace, Messages, Buffers, NEW d \in Channel, Deliver(d)
  PROVE  Buffers'
<1>q. PICK q, r : q = d[1] /\ r = d[2] OBVIOUS
<1>1. /\ num' = num /\ pc' = pc /\ todo' = todo /\ ipc' = ipc /\ stream' = stream
      /\ posted' = [posted EXCEPT ![r] = posted[r] \ {q}]
      /\ d[3] = K(r) /\ q \in posted[r] /\ msgs[d] # <<>>
  BY <1>q DEF Deliver, conf, hostVars, gpuVars
<1>2. q \in Rank /\ r \in Rank /\ d[3] \in Kinds BY <1>q, Channels
<1>3. ~Direct(q, r) /\ num[r] > 0 /\ num[r] \in Nat
  <2>1. ~Direct(r, q) BY <1>1, <1>2 DEF Hosts, HostOf
  <2>2. num[r] > 0 BY <1>1, <1>2, Engaged
  <2> QED BY <1>2, <2>1, <2>2, DirectBoth, Begun
<1>4. HandedNo(d) = Cnt(d[3], num[r])
  <2>1. Len(msgs[d]) \in Nat /\ Len(msgs[d]) >= 1 BY <1>1 DEF Types
  <2>2. Len(msgs[d]) = HandedNo(d) - ReceivedNo(d) BY <1>3, <1>q DEF Counts, CountsOf
  <2>3. HandedNo(d) <= ReceivedNo(d) + 1 BY Window
  <2>4. ReceivedNo(d) = Cnt(d[3], num[r]) - 1 BY <1>1, <1>3, <1>q DEF ReceivedNo, Busy, One
  <2>5. Cnt(d[3], num[r]) \in Nat /\ HandedNo(d) \in Nat BY <1>2, CntOf, Numbers
  <2> QED BY <2>1, <2>2, <2>3, <2>4, <2>5
<1>5. PICK m : m = (IF Head(msgs[d]) = Held THEN Packed(d) ELSE Head(msgs[d])) OBVIOUS
<1>6. m = num[r]
  <2>1. 1 \in 1 .. Len(msgs[d]) /\ Head(msgs[d]) = msgs[d][1] /\ msgs[d][1] \in Message
    BY <1>1 DEF Types
  <2>2. MsgOf(d) BY DEF Messages
  <2>3. m \in Nat \ {0} /\ Kind(m) = d[3] /\ Cnt(d[3], m) = HandedNo(d)
    <3>1. CASE msgs[d][1] = Held
      <4>1. HeldOf(d) BY <2>1, <2>2, <3>1 DEF MsgOf, HeldOf
      <4>2. m = num[q] BY <1>5, <1>q, <2>1, <3>1, <4>1 DEF Packed, HeldOf, InSend
      <4>3. num[q] \in Nat \ {0} /\ Kind(num[q]) = d[3] BY <1>2, <1>q, <4>1, Begun DEF HeldOf, Busy, K
      <4>4. Cnt(d[3], num[q]) \in Nat BY <1>2, CntOf
      <4> QED BY <1>q, <4>1, <4>2, <4>3, <4>4 DEF HeldOf, HandedNo, One
    <3>2. CASE msgs[d][1] # Held
      <4>1. m = msgs[d][1] BY <1>5, <2>1, <3>2
      <4>2. m > 0 /\ Kind(m) = d[3] /\ Cnt(d[3], m) = HandedNo(d) BY <2>1, <2>2, <3>2, <4>1 DEF MsgOf
      <4>3. m \in 1 .. Total BY <2>1, <4>1, <4>2 DEF Message, None, Held
      <4> QED BY <4>2, <4>3
    <3> QED BY <3>1, <3>2
  <2>4. num[r] \in Nat \ {0} /\ Kind(num[r]) = d[3] BY <1>1, <1>3 DEF K
  <2>5. Cnt(d[3], num[r]) \in Nat BY <1>2, CntOf
  <2>6. m >= num[r] /\ num[r] >= m BY <1>4, <2>3, <2>4, <2>5, CntLeast
  <2> QED BY <2>3, <2>4, <2>6
<1>7. recvBuf' = [recvBuf EXCEPT ![r] = Into(recvBuf[r], q, num[r], TRUE)]
  <2>1. recvBuf' = [recvBuf EXCEPT ![r] = Into(recvBuf[r], q, num[r], m = num[r])]
    BY <1>5, <1>q DEF Deliver
  <2> QED BY <1>6, <2>1 DEF Into
<1>8. recvBuf'[r] = Into(recvBuf[r], q, num[r], TRUE) /\ \A p \in Rank \ {r} : recvBuf'[p] = recvBuf[p]
  BY <1>2, <1>7 DEF Types
<1> SUFFICES ASSUME NEW c \in Channel PROVE BufferOf(c)' BY DEF Buffers
<1>9. c[1] \in Rank /\ c[2] \in Rank BY Channels
<1>10. CASE c[1] = q /\ c[2] = r
  <2>1. <<q, num'[r]>> \in recvBuf'[r] BY <1>1, <1>8 DEF Into
  <2> QED BY <1>10, <2>1 DEF BufferOf
<1>11. CASE c[1] # q \/ c[2] # r
  <2>1. c[1] \in posted'[c[2]] <=> c[1] \in posted[c[2]] BY <1>1, <1>2, <1>9, <1>11 DEF Types
  <2>2. HandedNo(c)' = HandedNo(c) /\ PostedNo(c)' = PostedNo(c)
    BY <1>1 DEF HandedNo, PostedNo, Busy, K, Handed
  <2>3. Landing(c)' => Landing(c) BY <1>1, <2>1, <2>2 DEF Landing, Aimed, Direct
  <2>4. <<c[1], num[c[2]]>> \in recvBuf[c[2]] => <<c[1], num[c[2]]>> \in recvBuf'[c[2]]
    BY <1>8, <1>9, <1>11 DEF Into
  <2> QED BY <1>1, <2>3, <2>4, BufferKept DEF Buffers
<1> QED BY <1>10, <1>11

-----------------------------------------------------------------------------
(* The invariant is inductive.                                             *)

LEMMA InvInit == Init => TokensInv
<1> SUFFICES ASSUME Init PROVE TokensInv OBVIOUS
<1>1. Types BY InitTypes
<1>2. \A r \in Rank : /\ num[r] = 0 /\ pc[r] = "unpack" /\ todo[r] = {} /\ posted[r] = {}
                      /\ tokens[r] = {} /\ stream[r] = <<>> /\ unpacks[r] = {} /\ got[r] = {}
                      /\ gen[r] = 0
  BY DEF Init
<1>3. \A k : \A r \in Rank : ~Busy(k, r) BY <1>2 DEF Busy
<1>4. ASSUME NEW r \in Rank PROVE RankOf(r)
  <2>1. HostOf(r) BY <1>2 DEF HostOf
  <2>2. GpuOf(r) BY <1>2 DEF GpuOf
  <2>3. Len(stream[r]) = 0 /\ pc[r] # "hand" BY <1>2
  <2>4. StreamOf(r) BY <2>3 DEF StreamOf
  <2> QED BY <2>1, <2>2, <2>4 DEF RankOf
<1>5. Counts
  <2> SUFFICES ASSUME NEW c \in Channel PROVE CountsOf(c) BY DEF Counts
  <2>1. c[1] \in Rank /\ c[2] \in Rank /\ c[3] \in Kinds BY Channels
  <2>2. Cnt(c[3], num[c[1]]) = 0 /\ Cnt(c[3], num[c[2]]) = 0 BY <1>2, <2>1, CntZero
  <2>b. ~Busy(c[3], c[1]) /\ ~Busy(c[3], c[2]) BY <1>3, <2>1
  <2>3. /\ PostedNo(c) = 0 /\ HandedNo(c) = 0 - 0 /\ FlushedNo(c) = 0 - 0 /\ WaitedNo(c) = 0 - 0
        /\ ReceivedNo(c) = 0 - 0
    BY <2>b, <2>2 DEF PostedNo, HandedNo, FlushedNo, WaitedNo, ReceivedNo, One
  <2>4. ready[c] = 0 /\ deliv[c] = 0 /\ msgs[c] = <<>> BY DEF Init
  <2> QED BY <2>3, <2>4 DEF CountsOf
<1>6. Pace
  <2>1. \A r \in Rank : Paced(r) = 0 BY <1>2 DEF Paced, One
  <2> QED BY <2>1 DEF Pace
<1>7. Messages
  <2>1. \A c \in Channel : msgs[c] = <<>> BY DEF Init
  <2> QED BY <2>1 DEF Messages, MsgOf
<1>8. Buffers BY <1>3, Channels DEF Buffers, BufferOf
<1> QED BY <1>1, <1>4, <1>5, <1>6, <1>7, <1>8 DEF TokensInv, Hosts, RankOf

LEMMA InvStutter == TokensInv /\ UNCHANGED vars => TokensInv'
<1> SUFFICES ASSUME TokensInv, UNCHANGED vars PROVE TokensInv' OBVIOUS
<1> USE DEF vars, conf, hostVars, gpuVars, bufVars, mpiVars, TokensInv
<1>1. Types' BY DEF Types
<1>2. Hosts'
  <2>1. \A r \in Rank : RankOf(r) BY DEF Hosts, RankOf
  <2>2. \A r \in Rank : RankOf(r)' BY <2>1, RankFrame
  <2> QED BY <2>2 DEF Hosts, RankOf
<1>3. \A q, p : /\ (Handed(q, p)' <=> Handed(q, p)) /\ (Flushed(q)' <=> Flushed(q))
               /\ (Waited(q, p)' <=> Waited(q, p))
  BY DEF Handed, Flushed, Waited
<1>4. Counts' BY <1>3, QuietCounts
<1>5. Pace' BY PaceKept
<1>6. Messages' BY DEF Messages, MsgOf, HandedNo, Busy, K, Handed, InSend
<1>7. Buffers' BY DEF Buffers, BufferOf, Landing, Aimed, Direct, HandedNo, PostedNo, Handed, Busy, K
<1> QED BY <1>1, <1>2, <1>4, <1>5, <1>6, <1>7

LEMMA InvNext == TokensInv /\ [Next]_vars => TokensInv'
<1> SUFFICES ASSUME TokensInv, [Next]_vars PROVE TokensInv' OBVIOUS
<1> USE DEF TokensInv
<1>1. CASE UNCHANGED vars BY <1>1, InvStutter
<1>2. ASSUME NEW r \in Rank, Host(r) PROVE TokensInv'
  <2>1. Types' BY <1>2, HostTyped
  <2> QED BY <1>2, <2>1, HostHosts, HostCounts, HostPace, HostMessages, HostBuffers
<1>3. ASSUME NEW r \in Rank, RunStream(r) PROVE TokensInv'
  <2>1. Types' BY <1>3, GpuTyped
  <2> QED BY <1>3, <2>1, RunStreamHosts, GpuCounts, OthersPace, GpuMessages, RunStreamBuffers
<1>4. ASSUME NEW r \in Rank, NEW q \in Rank, RunUnpack(r, q) PROVE TokensInv'
  <2>1. Types' BY <1>4, GpuTyped
  <2>2. Hosts' BY <1>4, InvUnpacksExact, RunUnpackHosts
  <2> QED BY <1>4, <2>1, <2>2, GpuCounts, OthersPace, GpuMessages, QuietBuffers
<1>5. ASSUME NEW c \in Channel, Buffer(c) PROVE TokensInv'
  <2>1. Types' BY <1>5, MpiTyped
  <2> QED BY <1>5, <2>1, MpiHosts, BufferCounts, OthersPace, BufferMessages, QuietBuffers
<1>6. ASSUME NEW c \in Channel, Deliver(c) PROVE TokensInv'
  <2>1. Types' BY <1>6, MpiTyped
  <2> QED BY <1>6, <2>1, MpiHosts, DeliverCounts, OthersPace, DeliverMessages, DeliverBuffers
<1> QED BY <1>1, <1>2, <1>3, <1>4, <1>5, <1>6 DEF Next, Terminated

\* Tokens and messages are the differences of four numbers a channel, whatever
\* the neighbourhood, the mapped pairs and the length of the run.
THEOREM TokensInvariant == Spec => []TokensInv
BY InvInit, InvNext, PTL DEF Spec

\* No rank ever unpacks a word of another exchange.
THEOREM UnpacksAreExact == Spec => []UnpacksExact
BY TokensInvariant, InvUnpacksExact, PTL

\* One tag for each kind of token is enough, and neighbours stay within a cycle.
THEOREM TagsAreEnough == Spec => []TagsSuffice
BY TokensInvariant, InvTagsSuffice, PTL

\* The receive buffer is freed when nothing is on its way to it any more.
THEOREM TeardownIsQuiet == Spec => []QuietAtTeardown
BY TokensInvariant, InvQuietAtTeardown, PTL

-----------------------------------------------------------------------------
(* Types and the exchange that is implemented.                             *)

LEMMA InvTypeOK == TokensInv => TypeOK
<1> SUFFICES ASSUME TokensInv PROVE TypeOK OBVIOUS
<1> USE DEF TokensInv
<1>1. pc \in [Rank -> {"unpack", "reduce", "send", "hand", "waitall", "done"}] BY DEF Types, Pc
<1>2. gen \in [Rank -> {None} \cup 0 .. Total + 1]
  <2>1. ASSUME NEW r \in Rank PROVE gen[r] \in 0 .. Total + 1
    <3>1. num[r] \in Nat /\ num[r] <= Total /\ Total \in Nat BY Rows DEF Types
    <3>2. gen[r] = num[r] \/ gen[r] = num[r] + 1 BY DEF Hosts, GpuOf
    <3> QED BY <3>1, <3>2
  <2> QED BY <2>1 DEF Types
<1>3. ASSUME NEW r \in Rank
      PROVE  /\ todo[r] \subseteq (IF pc[r] \in {"unpack", "done"} THEN In(K(r), r) ELSE Out(K(r), r))
             /\ tokens[r] \subseteq Out(K(r), r) /\ posted[r] \subseteq In(K(r), r)
             /\ unpacks[r] \subseteq In(K(r), r) /\ got[r] \subseteq In(K(r), r)
  <2>1. HostOf(r) /\ GpuOf(r) /\ pc[r] \in Pc BY DEF Hosts, Types
  <2>2. todo[r] \subseteq (IF pc[r] \in {"unpack", "done"} THEN In(K(r), r) ELSE Out(K(r), r))
    BY <2>1 DEF HostOf, Pc
  <2>3. tokens[r] \subseteq Out(K(r), r) /\ posted[r] \subseteq In(K(r), r) BY <2>1 DEF HostOf
  <2>4. unpacks[r] \subseteq In(K(r), r) /\ got[r] \subseteq In(K(r), r) BY <2>1 DEF GpuOf
  <2> QED BY <2>2, <2>3, <2>4
<1>4. ASSUME NEW r \in Rank, NEW i \in DOMAIN stream[r] PROVE stream[r][i][2] \in Out(K(r), r)
  <2>1. i \in 1 .. Len(stream[r]) BY DEF Types
  <2> QED BY <2>1 DEF Hosts, StreamOf, OpOf
<1>5. \A r \in Rank : sendBuf[r] \cup recvBuf[r] \subseteq Rank \X (1 .. Total) BY DEF Types
<1>6. \A c \in Channel : \A i \in DOMAIN msgs[c] : msgs[c][i] \in {None, Held} \cup 1 .. Total
  BY DEF Types, Message
<1>7. packing \in Packings /\ num \in [Rank -> 0 .. Total] /\ ready \in [Channel -> Nat]
      /\ deliv \in [Channel -> Nat]
  BY DEF Types
<1> QED BY <1>1, <1>2, <1>3, <1>4, <1>5, <1>6, <1>7 DEF TypeOK

\* Every walk stays among the neighbours of the exchange it is in.
THEOREM TypesHold == Spec => []TypeOK
BY TokensInvariant, InvTypeOK, PTL

\* A rank that is about to leave an exchange: its neighbours have come to it,
\* and all ranks if it was reduced.
LEMMA Leaves ==
  ASSUME TokensInv, NEW r \in Rank, pc[r] = "unpack", todo[r] = {}, unpacks[r] = {}
  PROVE  /\ gen[r] = num[r] /\ Fields(r) = num[r] + 1
         /\ num[r] > 0 => \A q \in In(K(r), r) : gen[q] >= num[r]
         /\ num[r] > 0 /\ Reduces(num[r]) => \A q \in Rank : gen[q] >= num[r]
<1> USE DEF TokensInv
<1>1. num[r] \in Nat /\ \A q \in Rank : num[q] \in Nat /\ gen[q] >= num[q]
  <2>1. \A q \in Rank : num[q] \in Nat BY Begun
  <2> QED BY <2>1 DEF Hosts, GpuOf
<1>2. gen[r] = num[r] /\ (num[r] > 0 => got[r] = In(K(r), r)) BY DEF Hosts, GpuOf
<1>3. Fields(r) = num[r] + 1 BY <1>1, <1>2 DEF Fields
<1>4. \A q : Waited(r, q) BY DEF Waited
<1>5. posted[r] = {} BY <1>4 DEF Hosts, HostOf
<1>6. ASSUME NEW q \in Rank, num[r] > 0, Cnt(K(r), num[q]) >= Cnt(K(r), num[r])
      PROVE  gen[q] >= num[r]
  <2>1. num[r] \in Nat \ {0} BY <1>1, <1>6
  <2>2. num[q] \in Nat /\ gen[q] \in Int /\ gen[q] >= num[q] BY <1>1 DEF Types
  <2>3. num[q] >= num[r] BY <1>6, <2>1, <2>2, CntLeast DEF K
  <2> QED BY <2>1, <2>2, <2>3
<1>7. ASSUME num[r] > 0, NEW q \in In(K(r), r) PROVE gen[q] >= num[r]
  <2>1. K(r) \in Kinds BY <1>1, <1>7, KindType DEF K
  <2>2. PICK c \in Channel : c[1] = q /\ c[2] = r /\ c[3] = K(r) BY <2>1, <1>7, Channels
  <2>3. q \in Rank BY <2>2, Channels
  <2>4. Cnt(K(r), num[r]) \in Nat /\ Cnt(K(r), num[q]) \in Nat BY <2>1, <2>3, CntOf
  <2>5. WaitedNo(c) = Cnt(K(r), num[r]) /\ ReceivedNo(c) = Cnt(K(r), num[r])
    BY <1>4, <1>5, <2>2, <2>4 DEF WaitedNo, ReceivedNo, One
  <2>6. /\ HandedNo(c) \in Nat /\ FlushedNo(c) \in Nat /\ FlushedNo(c) <= HandedNo(c)
        /\ HandedNo(c) <= Cnt(K(r), num[q])
    BY <2>2, Numbers
  <2>7. HandedNo(c) >= Cnt(K(r), num[r])
    <3>1. CASE Direct(c[1], c[2])
      <4>1. deliv[c] = FlushedNo(c) - WaitedNo(c) /\ deliv[c] \in Nat
        BY <3>1 DEF Counts, CountsOf, Types
      <4> QED BY <2>4, <2>5, <2>6, <4>1
    <3>2. CASE ~Direct(c[1], c[2])
      <4>1. Len(msgs[c]) = HandedNo(c) - ReceivedNo(c) /\ Len(msgs[c]) \in Nat
        BY <3>2 DEF Counts, CountsOf, Types
      <4> QED BY <2>4, <2>5, <2>6, <4>1
    <3> QED BY <3>1, <3>2
  <2>8. Cnt(K(r), num[q]) >= Cnt(K(r), num[r]) BY <2>4, <2>6, <2>7
  <2> QED BY <1>6, <1>7, <2>3, <2>8
<1>8. ASSUME num[r] > 0, Reduces(num[r]), NEW q \in Rank PROVE gen[q] >= num[r]
  <2>1. K(r) = "sbn" /\ num[r] > 3 BY <1>8 DEF Reduces, K
  <2>2. Paced(r) = num[r]
    <3>1. Paced(r) = num[r] - 0 BY DEF Paced, One
    <3> QED BY <1>1, <3>1
  <2>3. Cnt("sbn", num[q]) >= Cnt("sbn", num[r]) BY <2>1, <2>2 DEF Pace
  <2> QED BY <1>6, <1>8, <2>1, <2>3
<1> QED BY <1>2, <1>3, <1>7, <1>8

\* The ranks go through the exchanges of HaloExchange: a rank leaves one only
\* with what each neighbour put into it.  (That it does leave is model-checked.)
THEOREM ImplementsExchange == Spec => Reference!Init /\ [][Reference!Next]_gen
<1>1. Init => Reference!Init BY DEF Init, Reference!Init
<1>2. TokensInv /\ [Next]_vars => [Reference!Next]_gen
  <2> SUFFICES ASSUME TokensInv, [Next]_vars, gen' # gen PROVE Reference!Next OBVIOUS
  <2> USE DEF TokensInv
  <2>1. PICK r \in Rank : CommRecv(r) \/ Finish(r)
    BY DEF Next, Host, TimeIncrement, PackLocal, HandDirect, HandMessage, PutField, CommTokenFlush,
           Waitall, WaitAndUnpack, RunStream, RunUnpack, Buffer, Deliver, Terminated, vars, bufVars
  <2>2. /\ pc[r] = "unpack" /\ todo[r] = {} /\ unpacks[r] = {}
        /\ gen' = [gen EXCEPT ![r] = Fields(r)]
    BY <2>1 DEF CommRecv, Finish, Drained
  <2>3. num[r] \in Nat /\ num[r] <= Total /\ (num[r] > 0 => K(r) \in {"sbn", "sync", "monoq"})
    <3>1. num[r] \in Nat /\ num[r] <= Total BY Rows DEF Types
    <3> QED BY <3>1, KindType DEF K, Kinds
  <2>4. gen[r] <= Total
    <3>1. gen[r] = num[r] BY <2>2, Leaves
    <3> QED BY <2>3, <3>1
  <2>5. gen' = [gen EXCEPT ![r] = gen[r] + 1] BY <2>2, Leaves
  <2>6. gen[r] = num[r] BY <2>2, Leaves
  <2>7. Reference!Kind(num[r]) = K(r) BY DEF Reference!Kind, Reference!Phase, Kind, Phase, K
  <2>8. Reference!Reduces(num[r]) <=> Reduces(num[r])
    BY DEF Reference!Reduces, Reference!Kind, Reference!Phase, Reduces, Kind, Phase
  <2>9. ASSUME num[r] > 0
        PROVE  \A q \in [k \in {"sbn", "sync", "monoq"} |-> [p \in Rank |-> In(k, p)]][K(r)][r] :
                 gen[q] >= num[r]
    BY <2>2, <2>3, <2>9, Leaves
  <2>10. num[r] > 0 /\ Reduces(num[r]) => \A q \in Rank : gen[q] >= num[r] BY <2>2, Leaves
  <2>11. Reference!Advance(r)
    BY <2>4, <2>5, <2>6, <2>7, <2>8, <2>9, <2>10 DEF Reference!Advance
  <2> QED BY <2>11 DEF Reference!Next
<1> QED BY <1>1, <1>2, TokensInvariant, PTL DEF Spec
=============================================================================

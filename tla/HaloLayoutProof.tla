-------------------------- MODULE HaloLayoutProof --------------------------
(***************************************************************************)
(* Proofs about HaloLayout, for every number of ranks per side and of      *)
(* elements per rank.                                                      *)
(***************************************************************************)
EXTENDS HaloLayoutInv, SequenceTheorems, FiniteSetTheorems, WellFoundedInduction, TLAPS

-----------------------------------------------------------------------------
(* The tables of rows.                                                     *)

Vectors == [1 .. 3 -> {-1, 0, 1}]
Faces == 1 .. 6
Edges == 7 .. 18
Corners == 19 .. 26

\* The entries of CommRecvRows, by component.
LEMMA FaceTable ==
  /\ CommRecvFaces \in Seq(Vectors) /\ Len(CommRecvFaces) = 6
  /\ CommRecvFaces = << <<0,0,-1>>, <<0,0,1>>, <<0,-1,0>>, <<0,1,0>>, <<-1,0,0>>, <<1,0,0>> >>
  BY DEF CommRecvFaces, Vectors, colMin, colMax, rowMin, rowMax, planeMin, planeMax

LEMMA EdgeTable ==
  /\ CommRecvEdges \in Seq(Vectors) /\ Len(CommRecvEdges) = 12
  /\ CommRecvEdges = << <<-1,-1,0>>, <<0,-1,-1>>, <<-1,0,-1>>, <<1,1,0>>, <<0,1,1>>, <<1,0,1>>,
                        <<-1,1,0>>, <<0,-1,1>>, <<-1,0,1>>, <<1,-1,0>>, <<0,1,-1>>, <<1,0,-1>> >>
<1>1. CommRecvEdges \in Seq(Vectors) /\ Len(CommRecvEdges) = 12
  BY DEF CommRecvEdges, Vectors, Edge, colMin, colMax, rowMin, rowMax, planeMin, planeMax
<1>2. /\ Edge(rowMin, colMin) = <<-1,-1,0>> /\ Edge(rowMin, planeMin) = <<0,-1,-1>> 
      /\ Edge(colMin, planeMin) = <<-1,0,-1>> /\ Edge(rowMax, colMax) = <<1,1,0>>
      /\ Edge(rowMax, planeMax) = <<0,1,1>> /\ Edge(colMax, planeMax) = <<1,0,1>>
      /\ Edge(rowMax, colMin) = <<-1,1,0>> /\ Edge(rowMin, planeMax) = <<0,-1,1>>
      /\ Edge(colMin, planeMax) = <<-1,0,1>> /\ Edge(rowMin, colMax) = <<1,-1,0>>
      /\ Edge(rowMax, planeMin) = <<0,1,-1>> /\ Edge(colMax, planeMin) = <<1,0,-1>>
  BY DEF Edge, colMin, colMax, rowMin, rowMax, planeMin, planeMax
<1> QED BY <1>1, <1>2 DEF CommRecvEdges

LEMMA CornerTable ==
  /\ CommRecvCorners \in Seq(Vectors) /\ Len(CommRecvCorners) = 8
  /\ CommRecvCorners = << <<-1,-1,-1>>, <<-1,-1,1>>, <<1,-1,-1>>, <<1,-1,1>>,
                          <<-1,1,-1>>, <<-1,1,1>>, <<1,1,-1>>, <<1,1,1>> >>
<1>1. /\ Corner(rowMin, colMin, planeMin) = <<-1,-1,-1>> /\ Corner(rowMin, colMin, planeMax) = <<-1,-1,1>>
      /\ Corner(rowMin, colMax, planeMin) = <<1,-1,-1>> /\ Corner(rowMin, colMax, planeMax) = <<1,-1,1>>
      /\ Corner(rowMax, colMin, planeMin) = <<-1,1,-1>> /\ Corner(rowMax, colMin, planeMax) = <<-1,1,1>>
      /\ Corner(rowMax, colMax, planeMin) = <<1,1,-1>> /\ Corner(rowMax, colMax, planeMax) = <<1,1,1>>
  BY DEF Corner, Edge, colMin, colMax, rowMin, rowMax, planeMin, planeMax
<1>2. CommRecvCorners = << <<-1,-1,-1>>, <<-1,-1,1>>, <<1,-1,-1>>, <<1,-1,1>>,
                          <<-1,1,-1>>, <<-1,1,1>>, <<1,1,-1>>, <<1,1,1>> >>
  BY <1>1 DEF CommRecvCorners
<1> QED BY <1>2 DEF Vectors

\* The six lists of the code are one list.
LEMMA SameTables ==
  /\ CommSendFaces = CommRecvFaces /\ CommSBNFaces = CommRecvFaces
  /\ CommSyncPosVelFaces = CommRecvFaces /\ CommMonoQFaces = CommRecvFaces
  /\ CommSendEdges = CommRecvEdges /\ CommSBNEdges = CommRecvEdges /\ CommSyncPosVelEdges = CommRecvEdges
  /\ CommSendCorners = CommRecvCorners /\ CommSBNCorners = CommRecvCorners
  /\ CommSyncPosVelCorners = CommRecvCorners
BY DEF CommSendFaces, CommRecvFaces, CommSBNFaces, CommSyncPosVelFaces, CommMonoQFaces,
       CommSendEdges, CommRecvEdges, CommSBNEdges, CommSyncPosVelEdges,
       CommSendCorners, CommRecvCorners, CommSBNCorners, CommSyncPosVelCorners

\* The tables of 6, 12 and 8 rows, put together.
Table(t, n) == t \in Seq(Vectors) /\ Len(t) = n
MadeOf(rows, f, e, c) ==
  /\ rows \in Seq(Vectors) /\ Len(rows) = 26
  /\ \A i \in Faces : rows[i] = f[i]
  /\ \A i \in Edges : rows[i] = e[i - 6]
  /\ \A i \in Corners : rows[i] = c[i - 18]

\* Three tables one after the other.
LEMMA Joined ==
  ASSUME NEW f, NEW e, NEW c, Table(f, 6), Table(e, 12), Table(c, 8), NEW rows, rows = f \o e \o c
  PROVE  MadeOf(rows, f, e, c)
<1>0. /\ f \in Seq(Vectors) /\ Len(f) = 6 /\ e \in Seq(Vectors) /\ Len(e) = 12
      /\ c \in Seq(Vectors) /\ Len(c) = 8
  BY DEF Table
<1>1. f \o e \in Seq(Vectors) /\ Len(f \o e) = Len(f) + Len(e)
  BY <1>0, ConcatProperties
<1>2. \A i \in 1 .. Len(f) + Len(e) : (f \o e)[i] = IF i <= Len(f) THEN f[i] ELSE e[i - Len(f)]
  BY <1>0, ConcatProperties
<1> DEFINE fe == f \o e
<1> HIDE DEF fe
<1>3. fe \in Seq(Vectors) /\ Len(fe) = 18
  BY <1>0, <1>1 DEF fe
<1>4. /\ fe \o c \in Seq(Vectors) /\ Len(fe \o c) = Len(fe) + Len(c)
      /\ \A i \in 1 .. Len(fe) + Len(c) : (fe \o c)[i] = IF i <= Len(fe) THEN fe[i] ELSE c[i - Len(fe)]
  BY <1>0, <1>3, ConcatProperties
<1> DEFINE s == fe \o c
<1> HIDE DEF s
<1>5. s \in Seq(Vectors) /\ Len(s) = 26
  BY <1>0, <1>3, <1>4 DEF s
<1>6. ASSUME NEW i \in 1 .. 26 PROVE s[i] = IF i <= 18 THEN fe[i] ELSE c[i - 18]
  <2>1. i \in 1 .. Len(fe) + Len(c) /\ Len(fe) = 18 BY <1>0, <1>3
  <2> QED BY <2>1, <1>4 DEF s
<1>7. ASSUME NEW i \in 1 .. 18 PROVE fe[i] = IF i <= 6 THEN f[i] ELSE e[i - 6]
  <2>1. i \in 1 .. Len(f) + Len(e) BY <1>0
  <2> QED BY <2>1, <1>0, <1>2 DEF fe
<1>8. ASSUME NEW i \in Faces PROVE s[i] = f[i]
  <2>1. i \in 1 .. 26 /\ i \in 1 .. 18 /\ i <= 18 /\ i <= 6 BY DEF Faces
  <2>2. s[i] = fe[i] BY <2>1, <1>6
  <2>3. fe[i] = f[i] BY <2>1, <1>7
  <2> QED BY <2>2, <2>3
<1>9. ASSUME NEW i \in Edges PROVE s[i] = e[i - 6]
  <2>1. i \in 1 .. 26 /\ i \in 1 .. 18 /\ i <= 18 /\ ~(i <= 6) BY DEF Edges
  <2>2. s[i] = fe[i] BY <2>1, <1>6
  <2>3. fe[i] = e[i - 6] BY <2>1, <1>7
  <2> QED BY <2>2, <2>3
<1>10. ASSUME NEW i \in Corners PROVE s[i] = c[i - 18]
  <2>1. i \in 1 .. 26 /\ ~(i <= 18) BY DEF Corners
  <2> QED BY <2>1, <1>6
<1>11. s = rows
  BY DEF s, fe
<1> QED BY <1>5, <1>8, <1>9, <1>10, <1>11, Zenon DEF MadeOf

\* The table of the receives.
LEMMA RowTable ==
  /\ CommRecvRows \in Seq(Vectors) /\ Len(CommRecvRows) = 26
  /\ \A i \in Faces : CommRecvRows[i] = CommRecvFaces[i]
  /\ \A i \in Edges : CommRecvRows[i] = CommRecvEdges[i - 6]
  /\ \A i \in Corners : CommRecvRows[i] = CommRecvCorners[i - 18]
<1>1. Table(CommRecvFaces, 6) /\ Table(CommRecvEdges, 12) /\ Table(CommRecvCorners, 8)
  BY FaceTable, EdgeTable, CornerTable, Zenon DEF Table
<1>2. CommRecvRows = CommRecvFaces \o CommRecvEdges \o CommRecvCorners
  BY Zenon DEF CommRecvRows
<1>3. MadeOf(CommRecvRows, CommRecvFaces, CommRecvEdges, CommRecvCorners)
  BY <1>1, <1>2, Joined
<1> QED BY <1>3, Zenon DEF MadeOf

\* shmRecvOffset has the table of CommRecv, row for row.
LEMMA AsOffsetRows == \A i \in 1 .. 26 : shmRecvOffsetRows[i] = CommRecvRows[i]
<1> DEFINE t == shmRecvOffsetRows
<1>1. \A i \in Faces : t[i] = CommRecvFaces[i]
  <2>1. /\ t[1] = CommRecvFaces[1] /\ t[2] = CommRecvFaces[2] /\ t[3] = CommRecvFaces[3]
        /\ t[4] = CommRecvFaces[4] /\ t[5] = CommRecvFaces[5] /\ t[6] = CommRecvFaces[6]
    BY FaceTable DEF shmRecvOffsetRows
  <2> QED BY <2>1 DEF Faces
<1>2. \A i \in Edges : t[i] = CommRecvEdges[i - 6]
  <2> DEFINE e == CommRecvEdges
  <2>1. /\ t[7] = e[1] /\ t[8] = e[2] /\ t[9] = e[3] /\ t[10] = e[4] /\ t[11] = e[5] /\ t[12] = e[6]
        /\ t[13] = e[7] /\ t[14] = e[8] /\ t[15] = e[9] /\ t[16] = e[10] /\ t[17] = e[11] /\ t[18] = e[12]
    BY EdgeTable DEF shmRecvOffsetRows
  <2> HIDE DEF e, t
  <2>2. \A i \in Edges : t[i] = e[i - 6] BY <2>1 DEF Edges
  <2> QED BY <2>2, Zenon DEF e, t
<1>3. \A i \in Corners : t[i] = CommRecvCorners[i - 18]
  <2> DEFINE c == CommRecvCorners
  <2>1. /\ t[19] = c[1] /\ t[20] = c[2] /\ t[21] = c[3] /\ t[22] = c[4]
        /\ t[23] = c[5] /\ t[24] = c[6] /\ t[25] = c[7] /\ t[26] = c[8]
    BY CornerTable DEF shmRecvOffsetRows
  <2> HIDE DEF c, t
  <2>2. \A i \in Corners : t[i] = c[i - 18] BY <2>1 DEF Corners
  <2> QED BY <2>2, Zenon DEF c, t
<1> HIDE DEF t
<1>4. \A i \in 1 .. 26 : i \in Faces \/ i \in Edges \/ i \in Corners
  BY DEF Faces, Edges, Corners
<1>5. \A i \in 1 .. 26 : t[i] = CommRecvRows[i]
  BY <1>1, <1>2, <1>3, <1>4, RowTable
<1> QED BY <1>5 DEF t

LEMMA AsSendRows == CommSendRows = CommRecvRows
  BY SameTables DEF CommSendRows, CommRecvRows

LEMMA RowKinds == \A i \in 1 .. 26 : i \in Faces \/ i \in Edges \/ i \in Corners
  BY DEF Faces, Edges, Corners

LEMMA RowTypes ==
  ASSUME NEW i \in 1 .. 26
  PROVE  /\ CommRecvRows[i] \in Vectors
         /\ CommRecvRows[i][1] \in -1 .. 1 /\ CommRecvRows[i][2] \in -1 .. 1 /\ CommRecvRows[i][3] \in -1 .. 1
<1>1. i \in 1 .. Len(CommRecvRows)
  BY RowTable
<1>2. CommRecvRows[i] \in Vectors
  BY <1>1, RowTable, ElementOfSeq, Zenon
<1> QED BY <1>2 DEF Vectors

\* Rows by component.
LEMMA FaceEntries ==
  LET R == CommRecvRows IN
  /\ R[1] = <<0,0,-1>> /\ R[2] = <<0,0,1>> /\ R[3] = <<0,-1,0>> /\ R[4] = <<0,1,0>>
  /\ R[5] = <<-1,0,0>> /\ R[6] = <<1,0,0>>
<1> DEFINE R == CommRecvRows  f == CommRecvFaces
<1>1. R[1] = f[1] /\ R[2] = f[2] /\ R[3] = f[3] /\ R[4] = f[4] /\ R[5] = f[5] /\ R[6] = f[6]
  <2>1. \A i \in Faces : R[i] = f[i] BY RowTable
  <2> QED BY <2>1 DEF Faces
<1>2. /\ f[1] = <<0,0,-1>> /\ f[2] = <<0,0,1>> /\ f[3] = <<0,-1,0>> /\ f[4] = <<0,1,0>>
      /\ f[5] = <<-1,0,0>> /\ f[6] = <<1,0,0>>
  BY FaceTable
<1> QED BY <1>1, <1>2, Zenon

LEMMA EdgeEntries ==
  LET R == CommRecvRows IN
  /\ R[7] = <<-1,-1,0>> /\ R[8] = <<0,-1,-1>> /\ R[9] = <<-1,0,-1>>
  /\ R[10] = <<1,1,0>> /\ R[11] = <<0,1,1>> /\ R[12] = <<1,0,1>>
  /\ R[13] = <<-1,1,0>> /\ R[14] = <<0,-1,1>> /\ R[15] = <<-1,0,1>>
  /\ R[16] = <<1,-1,0>> /\ R[17] = <<0,1,-1>> /\ R[18] = <<1,0,-1>>
<1> DEFINE R == CommRecvRows  e == CommRecvEdges
<1>1. /\ R[7] = e[1] /\ R[8] = e[2] /\ R[9] = e[3] /\ R[10] = e[4] /\ R[11] = e[5] /\ R[12] = e[6]
      /\ R[13] = e[7] /\ R[14] = e[8] /\ R[15] = e[9] /\ R[16] = e[10] /\ R[17] = e[11] /\ R[18] = e[12]
  <2>1. \A i \in Edges : R[i] = e[i - 6] BY RowTable
  <2> QED BY <2>1 DEF Edges
<1>2. /\ e[1] = <<-1,-1,0>> /\ e[2] = <<0,-1,-1>> /\ e[3] = <<-1,0,-1>>
      /\ e[4] = <<1,1,0>> /\ e[5] = <<0,1,1>> /\ e[6] = <<1,0,1>>
      /\ e[7] = <<-1,1,0>> /\ e[8] = <<0,-1,1>> /\ e[9] = <<-1,0,1>>
      /\ e[10] = <<1,-1,0>> /\ e[11] = <<0,1,-1>> /\ e[12] = <<1,0,-1>>
  BY EdgeTable
<1> QED BY <1>1, <1>2, Zenon

LEMMA CornerEntries ==
  LET R == CommRecvRows IN
  /\ R[19] = <<-1,-1,-1>> /\ R[20] = <<-1,-1,1>> /\ R[21] = <<1,-1,-1>> /\ R[22] = <<1,-1,1>>
  /\ R[23] = <<-1,1,-1>> /\ R[24] = <<-1,1,1>> /\ R[25] = <<1,1,-1>> /\ R[26] = <<1,1,1>>
<1> DEFINE R == CommRecvRows  c == CommRecvCorners
<1>1. /\ R[19] = c[1] /\ R[20] = c[2] /\ R[21] = c[3] /\ R[22] = c[4]
      /\ R[23] = c[5] /\ R[24] = c[6] /\ R[25] = c[7] /\ R[26] = c[8]
  <2>1. \A i \in Corners : R[i] = c[i - 18] BY RowTable
  <2> QED BY <2>1 DEF Corners
<1>2. /\ c[1] = <<-1,-1,-1>> /\ c[2] = <<-1,-1,1>> /\ c[3] = <<1,-1,-1>> /\ c[4] = <<1,-1,1>>
      /\ c[5] = <<-1,1,-1>> /\ c[6] = <<-1,1,1>> /\ c[7] = <<1,1,-1>> /\ c[8] = <<1,1,1>>
  BY CornerTable
<1> QED BY <1>1, <1>2, Zenon

-----------------------------------------------------------------------------
(* Faces, edges and corners.                                               *)

LEMMA Cards ==
  /\ \A a : Cardinality({a}) = 1
  /\ \A a, b : a # b => Cardinality({a, b}) = 2
  /\ Cardinality({1, 2, 3}) = 3
<1>1. \A a : IsFiniteSet({a}) /\ Cardinality({a}) = 1 BY FS_Singleton
<1>2. ASSUME NEW a, NEW b, a # b PROVE Cardinality({a, b}) = 2
  <2>1. IsFiniteSet({a}) /\ Cardinality({a}) = 1 /\ b \notin {a} BY <1>1, <1>2
  <2>2. Cardinality({a} \cup {b}) = Cardinality({a}) + 1 BY <2>1, FS_AddElement
  <2>3. {a} \cup {b} = {a, b} OBVIOUS
  <2>4. Cardinality({a, b}) = Cardinality({a}) + 1 BY <2>2, <2>3, Zenon
  <2>5. 1 + 1 = 2 OBVIOUS
  <2> QED BY <2>1, <2>4, <2>5, Zenon
<1>3. Cardinality({1, 2, 3}) = 3
  <2>1. Cardinality({1, 2}) = 2 /\ IsFiniteSet({1, 2})
    <3>1. IsFiniteSet({1} \cup {2}) BY <1>1, FS_AddElement
    <3>2. {1} \cup {2} = {1, 2} /\ 1 # 2 OBVIOUS
    <3> QED BY <3>1, <3>2, <1>2
  <2>2. Cardinality({1, 2} \cup {3}) = 2 + 1 BY <2>1, FS_AddElement
  <2>3. {1, 2} \cup {3} = {1, 2, 3} OBVIOUS
  <2> QED BY <2>2, <2>3
<1> QED BY <1>1, <1>2, <1>3, Zenon

LEMMA ClassOf ==
  ASSUME NEW d \in Vectors
  PROVE  /\ Class(d) \in 0 .. 3
         /\ Class(d) = (IF d[1] = 0 THEN 0 ELSE 1) + (IF d[2] = 0 THEN 0 ELSE 1) + (IF d[3] = 0 THEN 0 ELSE 1)
<1> DEFINE s == {i \in 1 .. 3 : d[i] # 0}
<1>1. /\ Cardinality({}) = 0 /\ Cardinality({1}) = 1 /\ Cardinality({2}) = 1 /\ Cardinality({3}) = 1
      /\ Cardinality({1, 2}) = 2 /\ Cardinality({1, 3}) = 2 /\ Cardinality({2, 3}) = 2
      /\ Cardinality({1, 2, 3}) = 3
  <2>1. Cardinality({}) = 0 BY FS_EmptySet
  <2>2. Cardinality({1, 2}) = 2 /\ Cardinality({1, 3}) = 2 /\ Cardinality({2, 3}) = 2
    <3>1. 1 # 2 /\ 1 # 3 /\ 2 # 3 OBVIOUS
    <3> QED BY <3>1, Cards, Zenon
  <2> QED BY <2>1, <2>2, Cards, Zenon
<1>2. /\ d[1] = 0 /\ d[2] = 0 /\ d[3] = 0 => s = {}
      /\ d[1] # 0 /\ d[2] = 0 /\ d[3] = 0 => s = {1}
      /\ d[1] = 0 /\ d[2] # 0 /\ d[3] = 0 => s = {2}
      /\ d[1] = 0 /\ d[2] = 0 /\ d[3] # 0 => s = {3}
      /\ d[1] # 0 /\ d[2] # 0 /\ d[3] = 0 => s = {1, 2}
      /\ d[1] # 0 /\ d[2] = 0 /\ d[3] # 0 => s = {1, 3}
      /\ d[1] = 0 /\ d[2] # 0 /\ d[3] # 0 => s = {2, 3}
      /\ d[1] # 0 /\ d[2] # 0 /\ d[3] # 0 => s = {1, 2, 3}
  OBVIOUS
<1>3. Class(d) = Cardinality(s) BY DEF Class
<1> HIDE DEF s
<1> QED BY <1>1, <1>2, <1>3

LEMMA RowClass ==
  ASSUME NEW i \in 1 .. 26
  PROVE  /\ i \in Faces => Class(CommRecvRows[i]) = 1
         /\ i \in Edges => Class(CommRecvRows[i]) = 2
         /\ i \in Corners => Class(CommRecvRows[i]) = 3
<1> DEFINE d == CommRecvRows[i]
<1>1. d \in Vectors /\ Class(d) = (IF d[1] = 0 THEN 0 ELSE 1) + (IF d[2] = 0 THEN 0 ELSE 1) + (IF d[3] = 0 THEN 0 ELSE 1)
  BY RowTypes, ClassOf
<1>2. CASE i \in Faces
  <2>1. i \in {1, 2, 3, 4, 5, 6} BY <1>2 DEF Faces
  <2> QED BY <2>1, <1>1, <1>2, FaceEntries DEF Edges, Corners, Faces
<1>3. CASE i \in Edges
  <2>1. i \in {7, 8, 9, 10, 11, 12, 13, 14, 15, 16, 17, 18} BY <1>3 DEF Edges
  <2> QED BY <2>1, <1>1, <1>3, EdgeEntries DEF Edges, Corners, Faces
<1>4. CASE i \in Corners
  <2>1. i \in {19, 20, 21, 22, 23, 24, 25, 26} BY <1>4 DEF Corners
  <2> QED BY <2>1, <1>1, <1>4, CornerEntries DEF Edges, Corners, Faces
<1> QED BY <1>2, <1>3, <1>4, RowKinds

\* No two rows are the same direction.
LEMMA RowsDiffer ==
  ASSUME NEW i \in 1 .. 26, NEW j \in 1 .. 26, CommRecvRows[i] = CommRecvRows[j]
  PROVE  i = j
<1> DEFINE v(n) == CommRecvRows[n][1] + 3 * CommRecvRows[n][2] + 9 * CommRecvRows[n][3]
<1>1. v(1) = -9 /\ v(2) = 9 /\ v(3) = -3 /\ v(4) = 3 /\ v(5) = -1 /\ v(6) = 1
  BY FaceEntries
<1>2. /\ v(7) = -4 /\ v(8) = -12 /\ v(9) = -10 /\ v(10) = 4 /\ v(11) = 12 /\ v(12) = 10
      /\ v(13) = 2 /\ v(14) = 6 /\ v(15) = 8 /\ v(16) = -2 /\ v(17) = -6 /\ v(18) = -8
  BY EdgeEntries
<1>3. /\ v(19) = -13 /\ v(20) = 5 /\ v(21) = -11 /\ v(22) = 7
      /\ v(23) = -7 /\ v(24) = 11 /\ v(25) = -5 /\ v(26) = 13
  BY CornerEntries
<1>4. v(i) = v(j) OBVIOUS
<1> HIDE DEF v
<1> QED BY <1>1, <1>2, <1>3, <1>4

LEMMA Mirrored ==
  ASSUME NEW i \in 1 .. 26
  PROVE  /\ Mirror(i) \in 1 .. 26 /\ Mirror(Mirror(i)) = i
         /\ i \in Faces <=> Mirror(i) \in Faces
         /\ i \in Edges <=> Mirror(i) \in Edges
         /\ i \in Corners <=> Mirror(i) \in Corners
         /\ CommRecvRows[Mirror(i)][1] = 0 - CommRecvRows[i][1]
         /\ CommRecvRows[Mirror(i)][2] = 0 - CommRecvRows[i][2]
         /\ CommRecvRows[Mirror(i)][3] = 0 - CommRecvRows[i][3]
<1>1. /\ Mirror(i) \in 1 .. 26 /\ Mirror(Mirror(i)) = i
      /\ i \in Faces <=> Mirror(i) \in Faces
      /\ i \in Edges <=> Mirror(i) \in Edges
      /\ i \in Corners <=> Mirror(i) \in Corners
  BY DEF Mirror, Faces, Edges, Corners
<1> DEFINE R == CommRecvRows  opp(a, b) == b[1] = 0 - a[1] /\ b[2] = 0 - a[2] /\ b[3] = 0 - a[3]
<1>2. CASE i \in Faces
  <2>1. /\ opp(R[1], R[2]) /\ opp(R[3], R[4]) /\ opp(R[5], R[6])
        /\ opp(R[2], R[1]) /\ opp(R[4], R[3]) /\ opp(R[6], R[5])
    BY FaceEntries
  <2> HIDE DEF opp, R
  <2>2. i \in {1, 2, 3, 4, 5, 6} BY <1>2 DEF Faces
  <2>3. opp(R[i], R[Mirror(i)]) BY <2>1, <2>2 DEF Mirror
  <2> QED BY <1>1, <2>3 DEF opp, R
<1>3. CASE i \in Edges
  <2>1. /\ opp(R[7], R[10]) /\ opp(R[8], R[11]) /\ opp(R[9], R[12])
        /\ opp(R[10], R[7]) /\ opp(R[11], R[8]) /\ opp(R[12], R[9])
        /\ opp(R[13], R[16]) /\ opp(R[14], R[17]) /\ opp(R[15], R[18])
        /\ opp(R[16], R[13]) /\ opp(R[17], R[14]) /\ opp(R[18], R[15])
    BY EdgeEntries
  <2> HIDE DEF opp, R
  <2>2. i \in {7, 8, 9, 10, 11, 12, 13, 14, 15, 16, 17, 18} BY <1>3 DEF Edges
  <2>3. opp(R[i], R[Mirror(i)]) BY <2>1, <2>2 DEF Mirror
  <2> QED BY <1>1, <2>3 DEF opp, R
<1>4. CASE i \in Corners
  <2>1. /\ opp(R[19], R[26]) /\ opp(R[20], R[25]) /\ opp(R[21], R[24]) /\ opp(R[22], R[23])
        /\ opp(R[26], R[19]) /\ opp(R[25], R[20]) /\ opp(R[24], R[21]) /\ opp(R[23], R[22])
    BY CornerEntries
  <2> HIDE DEF opp, R
  <2>2. i \in {19, 20, 21, 22, 23, 24, 25, 26} BY <1>4 DEF Corners
  <2>3. opp(R[i], R[Mirror(i)]) BY <2>1, <2>2 DEF Mirror
  <2> QED BY <1>1, <2>3 DEF opp, R
<1> QED BY <1>2, <1>3, <1>4, RowKinds

LEMMA Negated ==
  ASSUME NEW d \in Vectors
  PROVE  Neg(d) \in Vectors /\ Neg(d)[1] = 0 - d[1] /\ Neg(d)[2] = 0 - d[2] /\ Neg(d)[3] = 0 - d[3]
<1>1. Neg(d) = [i \in 1 .. 3 |-> 0 - d[i]] BY DEF Neg, Vectors
<1> QED BY <1>1 DEF Vectors

LEMMA SameVector ==
  ASSUME NEW d \in Vectors, NEW e \in Vectors, d[1] = e[1], d[2] = e[2], d[3] = e[3]
  PROVE  d = e
<1>1. \A i \in 1 .. 3 : d[i] = e[i]
  OBVIOUS
<1> QED BY <1>1 DEF Vectors

LEMMA NegRow ==
  ASSUME NEW i \in 1 .. 26
  PROVE  Neg(CommRecvRows[i]) = CommRecvRows[Mirror(i)]
<1>1. CommRecvRows[i] \in Vectors /\ CommRecvRows[Mirror(i)] \in Vectors
  BY RowTypes, Mirrored
<1> QED BY <1>1, Mirrored, Negated, SameVector

\* What CommSendGpu passes to shmRecvOffset is the direction back.
LEMMA GpuFaceArgs ==
  /\ CommSendGpuFaces \in Seq(Vectors) /\ Len(CommSendGpuFaces) = 6
  /\ \A i \in Faces : CommSendGpuFaces[i] = CommRecvRows[Mirror(i)]
<1> DEFINE R == CommRecvRows  f == CommSendGpuFaces
<1>1. f[1] = R[2] /\ f[2] = R[1] /\ f[3] = R[4] /\ f[4] = R[3] /\ f[5] = R[6] /\ f[6] = R[5]
  BY FaceEntries DEF CommSendGpuFaces
<1>2. f \in Seq(Vectors) /\ Len(f) = 6
  BY DEF CommSendGpuFaces, Vectors
<1> HIDE DEF f, R
<1>3. ASSUME NEW i \in Faces PROVE f[i] = R[Mirror(i)]
  <2>1. i \in {1, 2, 3, 4, 5, 6} BY DEF Faces
  <2> QED BY <2>1, <1>1 DEF Mirror
<1> QED BY <1>2, <1>3, Zenon DEF f, R

LEMMA GpuEdgeArgs ==
  /\ CommSendGpuEdges \in Seq(Vectors) /\ Len(CommSendGpuEdges) = 12
  /\ \A i \in Edges : CommSendGpuEdges[i - 6] = CommRecvRows[Mirror(i)]
<1> DEFINE R == CommRecvRows  e == CommSendGpuEdges
<1>1. /\ e[1] = R[10] /\ e[2] = R[11] /\ e[3] = R[12] /\ e[4] = R[7] /\ e[5] = R[8] /\ e[6] = R[9]
      /\ e[7] = R[16] /\ e[8] = R[17] /\ e[9] = R[18] /\ e[10] = R[13] /\ e[11] = R[14] /\ e[12] = R[15]
  BY EdgeEntries DEF CommSendGpuEdges
<1>2. e \in Seq(Vectors) /\ Len(e) = 12
  BY DEF CommSendGpuEdges, Vectors
<1> HIDE DEF e, R
<1>3. ASSUME NEW i \in Edges PROVE e[i - 6] = R[Mirror(i)]
  <2>1. i \in {7, 8, 9, 10, 11, 12, 13, 14, 15, 16, 17, 18} BY DEF Edges
  <2> QED BY <2>1, <1>1 DEF Mirror
<1> QED BY <1>2, <1>3, Zenon DEF e, R

LEMMA GpuCornerArgs ==
  /\ CommSendGpuCorners \in Seq(Vectors) /\ Len(CommSendGpuCorners) = 8
  /\ \A i \in Corners : CommSendGpuCorners[i - 18] = CommRecvRows[Mirror(i)]
<1> DEFINE R == CommRecvRows  c == CommSendGpuCorners
<1>1. /\ c[1] = R[26] /\ c[2] = R[25] /\ c[3] = R[24] /\ c[4] = R[23]
      /\ c[5] = R[22] /\ c[6] = R[21] /\ c[7] = R[20] /\ c[8] = R[19]
  BY CornerEntries DEF CommSendGpuCorners
<1>2. c \in Seq(Vectors) /\ Len(c) = 8
  BY DEF CommSendGpuCorners, Vectors
<1> HIDE DEF c, R
<1>3. ASSUME NEW i \in Corners PROVE c[i - 18] = R[Mirror(i)]
  <2>1. i \in {19, 20, 21, 22, 23, 24, 25, 26} BY DEF Corners
  <2> QED BY <2>1, <1>1 DEF Mirror
<1> QED BY <1>2, <1>3, Zenon DEF c, R

\* The position CommSendGpu names in row i is that of the mirrored row.
LEMMA SendArgs ==
  ASSUME NEW i \in 1 .. 26
  PROVE  CommSendGpuArgs[i] = CommRecvRows[Mirror(i)]
<1> DEFINE f == CommSendGpuFaces  e == CommSendGpuEdges  c == CommSendGpuCorners  rows == CommSendGpuArgs
<1>1. Table(f, 6) /\ Table(e, 12) /\ Table(c, 8)
  BY GpuFaceArgs, GpuEdgeArgs, GpuCornerArgs, Zenon DEF Table
<1>2. rows = f \o e \o c
  BY Zenon DEF CommSendGpuArgs
<1> HIDE DEF f, e, c, rows
<1>3. /\ \A j \in Faces : rows[j] = f[j]
      /\ \A j \in Edges : rows[j] = e[j - 6]
      /\ \A j \in Corners : rows[j] = c[j - 18]
  <2>1. MadeOf(rows, f, e, c) BY <1>1, <1>2, Joined
  <2> QED BY <2>1, Zenon DEF MadeOf
<1>4. rows[i] = CommRecvRows[Mirror(i)]
  BY <1>3, RowKinds, GpuFaceArgs, GpuEdgeArgs, GpuCornerArgs, Zenon DEF f, e, c
<1> QED BY <1>4, Zenon DEF rows

-----------------------------------------------------------------------------
(* The rows a phase takes, and the lists of its unpack.                    *)

NumRows == Cardinality(Rows)
PhaseNames == {"mass", "sbn", "sync", "monoq"}

LEMMA RowCount ==
  /\ planeOnly => Rows = 1 .. 6 /\ NumRows = 6
  /\ ~planeOnly => Rows = 1 .. 26 /\ NumRows = 26
  /\ Rows = 1 .. NumRows /\ NumRows \in {6, 26} /\ Rows \subseteq 1 .. 26
<1>1. \A n \in Nat : Cardinality(1 .. n) = n
  <2>1. \A n \in Nat : Cardinality(1 .. n) = IF 1 > n THEN 0 ELSE n - 1 + 1
    BY FS_Interval
  <2> QED BY <2>1
<1>2. Cardinality(1 .. 6) = 6 /\ Cardinality(1 .. 26) = 26 BY <1>1
<1>3. (planeOnly => Rows = 1 .. 6) /\ (~planeOnly => Rows = 1 .. 26) BY DEF Rows
<1>4. (planeOnly => NumRows = 6) /\ (~planeOnly => NumRows = 26) BY <1>2, <1>3 DEF NumRows
<1> HIDE DEF NumRows
<1>5. CASE planeOnly BY <1>3, <1>4, <1>5
<1>6. CASE ~planeOnly BY <1>3, <1>4, <1>6
<1> QED BY <1>5, <1>6

\* Every unpack walks the rows of its receives.
LEMMA AsUnpackRows ==
  ASSUME ph \in PhaseNames, NEW i \in Rows
  PROVE  UnpackRows[i] = CommRecvRows[i]
<1>1. CASE ph = "monoq"
  <2>1. planeOnly /\ i \in Faces BY <1>1, RowCount DEF planeOnly, Faces
  <2>2. UnpackRows = CommRecvFaces BY <1>1, SameTables DEF UnpackRows
  <2> QED BY <2>1, <2>2, RowTable
<1>2. CASE ph # "monoq"
  <2>1. UnpackRows = CommRecvFaces \o CommRecvEdges \o CommRecvCorners
    BY <1>2, SameTables DEF UnpackRows, PhaseNames
  <2> QED BY <2>1 DEF CommRecvRows
<1> QED BY <1>1, <1>2

-----------------------------------------------------------------------------
(* Arithmetic.                                                             *)

LEMMA DivMod ==
  ASSUME NEW a \in Int, NEW b \in Nat \ {0}
  PROVE  a \div b \in Int /\ a % b \in 0 .. b - 1 /\ a = b * (a \div b) + (a % b)
<1>1. a % b \in 0 .. b - 1 OBVIOUS
<1>2. a \div b \in Int OBVIOUS
<1>3. a = b * (a \div b) + (a % b) OBVIOUS
<1> QED BY <1>1, <1>2, <1>3

LEMMA TimesMonotone ==
  ASSUME NEW a \in Int, NEW b \in Int, NEW c \in Nat, a <= b
  PROVE  c * a \in Int /\ c * b \in Int /\ c * a <= c * b
OBVIOUS

\* Quotient and remainder are unique.
LEMMA DivModUnique ==
  ASSUME NEW b \in Nat \ {0}, NEW q \in Int, NEW r \in 0 .. b - 1
  PROVE  (b * q + r) \div b = q /\ (b * q + r) % b = r
<1> DEFINE a == b * q + r  p == a \div b  s == a % b
<1>1. a \in Int /\ b * q \in Int
  <2>1. b * q \in Int OBVIOUS
  <2> QED BY <2>1
<1> HIDE DEF a
<1>2. p \in Int /\ s \in 0 .. b - 1 /\ a = b * p + s
  BY <1>1, DivMod
<1> HIDE DEF p, s
<1>3. b * p \in Int /\ b * p + s = b * q + r
  BY <1>1, <1>2 DEF a
<1>4. ~(p < q)
  <2> SUFFICES ASSUME p < q PROVE FALSE OBVIOUS
  <2>1. p + 1 \in Int /\ p + 1 <= q BY <1>2
  <2>2. b * (p + 1) <= b * q BY <2>1, TimesMonotone
  <2>3. b * (p + 1) = b * p + b BY <1>2
  <2> QED BY <1>1, <1>2, <1>3, <2>2, <2>3
<1>5. ~(q < p)
  <2> SUFFICES ASSUME q < p PROVE FALSE OBVIOUS
  <2>1. q + 1 \in Int /\ q + 1 <= p BY <1>2
  <2>2. b * (q + 1) <= b * p BY <2>1, <1>2, TimesMonotone
  <2>3. b * (q + 1) = b * q + b OBVIOUS
  <2> QED BY <1>1, <1>2, <1>3, <2>2, <2>3
<1>6. p = q BY <1>2, <1>4, <1>5
<1>7. s = r BY <1>1, <1>2, <1>3, <1>6
<1> QED BY <1>6, <1>7 DEF p, s, a

-----------------------------------------------------------------------------
(* A cube of n * n * n places: a number and its coordinates.               *)

LEMMA CubePlace ==
  ASSUME NEW n \in Nat \ {0}, NEW c \in 0 .. n - 1, NEW w \in 0 .. n - 1, NEW p \in 0 .. n - 1
  PROVE  LET r == c + n * w + n * n * p
         IN  r \in 0 .. n * n * n - 1 /\ r % n = c /\ (r \div n) % n = w /\ r \div (n * n) = p
<1> DEFINE r == c + n * w + n * n * p  tt == n * n  wp == n * p + w
<1>1. tt \in Nat \ {0} /\ n * p \in Nat /\ n * w \in Nat /\ tt * p \in Nat
  OBVIOUS
<1>2. wp \in Int /\ n * wp \in Int /\ n * wp = n * (n * p) + n * w
  OBVIOUS
<1>3. r = n * wp + c
  BY <1>2
<1>4. r % n = c /\ r \div n = wp
  BY <1>2, <1>3, DivModUnique
<1>5. wp % n = w
  BY <1>1, DivModUnique
<1>6. n * w + c \in 0 .. tt - 1
  <2>1. n * w <= n * (n - 1) BY TimesMonotone
  <2>2. n * (n - 1) = tt - n OBVIOUS
  <2> QED BY <1>1, <2>1, <2>2
<1>7. r = tt * p + (n * w + c)
  BY <1>1
<1>8. r \div tt = p
  <2> HIDE DEF tt
  <2>1. (tt * p + (n * w + c)) \div tt = p BY <1>1, <1>6, DivModUnique
  <2> QED BY <2>1, <1>7
<1>9. r \in 0 .. n * n * n - 1
  <2>1. tt * p <= tt * (n - 1) BY <1>1, TimesMonotone
  <2>2. tt * (n - 1) = tt * n - tt /\ tt * n \in Int OBVIOUS
  <2>3. r >= 0 /\ r <= tt * n - 1
    <3> HIDE DEF tt, r
    <3> QED BY <1>1, <1>6, <1>7, <2>1, <2>2
  <2> QED BY <1>1, <1>6, <1>7, <2>2, <2>3
<1>10. (r \div n) % n = w BY <1>4, <1>5
<1> QED BY <1>4, <1>8, <1>9, <1>10

LEMMA CubeCoords ==
  ASSUME NEW n \in Nat \ {0}, NEW r \in 0 .. n * n * n - 1
  PROVE  /\ r % n \in 0 .. n - 1 /\ (r \div n) % n \in 0 .. n - 1 /\ r \div (n * n) \in 0 .. n - 1
         /\ r = (r % n) + n * ((r \div n) % n) + n * n * (r \div (n * n))
<1> DEFINE tt == n * n  q == r \div n  c == r % n  w == q % n  v == q \div n  p == r \div tt
<1>1. tt \in Nat \ {0} /\ tt * n \in Nat OBVIOUS
<1>2. r \in Nat /\ r < tt * n BY <1>1
<1>3. q \in Int /\ c \in 0 .. n - 1 /\ r = n * q + c BY <1>2, DivMod
<1>4. v \in Int /\ w \in 0 .. n - 1 /\ q = n * v + w
  <2> HIDE DEF q
  <2> QED BY <1>3, DivMod
<1> HIDE DEF q, c, w, v
<1>5. r = tt * v + (n * w + c)
  <2>1. n * (n * v + w) = n * (n * v) + n * w BY <1>4
  <2>2. n * (n * v) = tt * v BY <1>4
  <2>3. n * (n * v) \in Int /\ n * w \in Int /\ tt * v \in Int BY <1>4
  <2> QED BY <1>2, <1>3, <1>4, <2>1, <2>2, <2>3
<1>6. n * w + c \in 0 .. tt - 1
  <2>1. n * w <= n * (n - 1) /\ n * w \in Nat BY <1>4, TimesMonotone
  <2>2. n * (n - 1) = tt - n OBVIOUS
  <2> QED BY <1>1, <1>3, <2>1, <2>2
<1>7. p = v
  <2> HIDE DEF tt
  <2> QED BY <1>1, <1>4, <1>5, <1>6, DivModUnique
<1>8. v \in 0 .. n - 1
  <2> HIDE DEF tt
  <2>1. tt * v \in Int BY <1>1, <1>4
  <2>2. ~(v < 0)
    <3> SUFFICES ASSUME v < 0 PROVE FALSE OBVIOUS
    <3>1. tt * v <= tt * (-1) BY <1>1, <1>4, TimesMonotone
    <3>2. tt * (-1) = 0 - tt BY <1>1
    <3> QED BY <1>1, <1>2, <1>5, <1>6, <2>1, <3>1, <3>2
  <2>3. ~(v > n - 1)
    <3> SUFFICES ASSUME v > n - 1 PROVE FALSE OBVIOUS
    <3>1. tt * n <= tt * v BY <1>1, <1>4, TimesMonotone
    <3> QED BY <1>1, <1>2, <1>5, <1>6, <2>1, <3>1
  <2> QED BY <1>4, <2>2, <2>3
<1>9. c + n * w + tt * v = r
  <2> HIDE DEF tt
  <2>1. tt * v \in Int /\ n * w \in Int BY <1>1, <1>4
  <2> QED BY <1>2, <1>3, <1>5, <2>1
<1>10. /\ r % n \in 0 .. n - 1 /\ (r \div n) % n \in 0 .. n - 1 /\ r \div (n * n) \in 0 .. n - 1
       /\ r % n = c /\ (r \div n) % n = w /\ r \div (n * n) = v
  BY <1>3, <1>4, <1>7, <1>8 DEF c, w, q
<1> QED BY <1>9, <1>10

-----------------------------------------------------------------------------
(* Ranks and their places in the cube.                                     *)

RankAt(c, w, p) == c + tp * w + tp * tp * p

LEMMA PlaceOfRank ==
  ASSUME tp \in Nat \ {0}, NEW c \in 0 .. tp - 1, NEW w \in 0 .. tp - 1, NEW p \in 0 .. tp - 1
  PROVE  RankAt(c, w, p) \in Rank /\ Loc(RankAt(c, w, p)) = <<c, w, p>>
<1> DEFINE r == RankAt(c, w, p)
<1>1. r \in Rank /\ r % tp = c /\ (r \div tp) % tp = w /\ r \div (tp * tp) = p
  BY CubePlace, Zenon DEF RankAt, Rank
<1> HIDE DEF r
<1>2. Loc(r) = <<c, w, p>> BY <1>1, Zenon DEF Loc
<1> QED BY <1>1, <1>2 DEF r

LEMMA LocTyped ==
  ASSUME tp \in Nat \ {0}, NEW r \in Rank
  PROVE  /\ Loc(r)[1] \in 0 .. tp - 1 /\ Loc(r)[2] \in 0 .. tp - 1 /\ Loc(r)[3] \in 0 .. tp - 1
         /\ r = RankAt(Loc(r)[1], Loc(r)[2], Loc(r)[3])
<1> DEFINE c == r % tp  w == (r \div tp) % tp  p == r \div (tp * tp)
<1>1. /\ c \in 0 .. tp - 1 /\ w \in 0 .. tp - 1 /\ p \in 0 .. tp - 1
      /\ r = c + tp * w + tp * tp * p
  BY CubeCoords, Zenon DEF Rank
<1> HIDE DEF c, w, p
<1>2. Loc(r)[1] = c /\ Loc(r)[2] = w /\ Loc(r)[3] = p BY DEF Loc, c, w, p
<1> QED BY <1>1, <1>2, Zenon DEF RankAt

\* A neighbour exists when the place next to mine is in the cube, and has that place.
LEMMA NbrPlace ==
  ASSUME tp \in Nat \ {0}, NEW r \in Rank, NEW d \in Vectors, HasNbr(r, d)
  PROVE  /\ r + Delta(d) \in Rank /\ Delta(d) \in Int
         /\ Loc(r + Delta(d))[1] = Loc(r)[1] + d[1]
         /\ Loc(r + Delta(d))[2] = Loc(r)[2] + d[2]
         /\ Loc(r + Delta(d))[3] = Loc(r)[3] + d[3]
<1> DEFINE a == Loc(r)[1]  b == Loc(r)[2]  c == Loc(r)[3]
<1>1. a \in 0 .. tp - 1 /\ b \in 0 .. tp - 1 /\ c \in 0 .. tp - 1 /\ r = RankAt(a, b, c)
  BY LocTyped
<1>2. d[1] \in Int /\ d[2] \in Int /\ d[3] \in Int BY DEF Vectors
<1>3. a + d[1] \in 0 .. tp - 1 /\ b + d[2] \in 0 .. tp - 1 /\ c + d[3] \in 0 .. tp - 1
  BY DEF HasNbr
<1> HIDE DEF a, b, c
<1>4. r + Delta(d) = RankAt(a + d[1], b + d[2], c + d[3])
  <2>1. tp * (b + d[2]) = tp * b + tp * d[2] BY <1>1, <1>2
  <2>2. (tp * tp) * (c + d[3]) = (tp * tp) * c + (tp * tp) * d[3] BY <1>1, <1>2
  <2>3. /\ tp * b \in Int /\ tp * d[2] \in Int /\ (tp * tp) * c \in Int /\ (tp * tp) * d[3] \in Int
    BY <1>1, <1>2
  <2> QED BY <1>1, <1>2, <2>1, <2>2, <2>3 DEF RankAt, Delta
<1>5. Delta(d) \in Int
  <2>1. tp * d[2] \in Int /\ (tp * tp) * d[3] \in Int BY <1>2
  <2> QED BY <1>2, <2>1 DEF Delta
<1>6. r + Delta(d) \in Rank /\ Loc(r + Delta(d)) = <<a + d[1], b + d[2], c + d[3]>>
  BY <1>3, <1>4, PlaceOfRank
<1> QED BY <1>5, <1>6 DEF a, b, c

LEMMA HasNbrIs ==
  ASSUME NEW r, NEW d
  PROVE  HasNbr(r, d) <=> /\ Loc(r)[1] + d[1] \in 0 .. tp - 1 /\ Loc(r)[2] + d[2] \in 0 .. tp - 1
                          /\ Loc(r)[3] + d[3] \in 0 .. tp - 1
BY DEF HasNbr

LEMMA DeltaNeg ==
  ASSUME tp \in Nat \ {0}, NEW d \in Vectors
  PROVE  Delta(Neg(d)) = 0 - Delta(d) /\ Delta(d) \in Int
<1> DEFINE n == Neg(d)
<1>1. n[1] = 0 - d[1] /\ n[2] = 0 - d[2] /\ n[3] = 0 - d[3] BY Negated
<1>2. d[1] \in Int /\ d[2] \in Int /\ d[3] \in Int BY DEF Vectors
<1> HIDE DEF n
<1>3. tp * n[2] = 0 - tp * d[2] /\ tp * d[2] \in Int BY <1>1, <1>2
<1>4. (tp * tp) * n[3] = 0 - (tp * tp) * d[3] /\ (tp * tp) * d[3] \in Int BY <1>1, <1>2
<1>5. Delta(n) = 0 - Delta(d) /\ Delta(d) \in Int
  BY <1>1, <1>2, <1>3, <1>4 DEF Delta
<1> QED BY <1>5 DEF n

\* Seen from the neighbour I am in the opposite direction.
LEMMA NbrOfNbr ==
  ASSUME tp \in Nat \ {0}, NEW r \in Rank, NEW d \in Vectors, HasNbr(r, d)
  PROVE  /\ HasNbr(r + Delta(d), Neg(d))
         /\ (r + Delta(d)) + Delta(Neg(d)) = r
<1> DEFINE q == r + Delta(d)
<1>1. q \in Rank /\ Loc(q)[1] = Loc(r)[1] + d[1] /\ Loc(q)[2] = Loc(r)[2] + d[2] /\ Loc(q)[3] = Loc(r)[3] + d[3]
  BY NbrPlace
<1>2. Loc(r)[1] \in 0 .. tp - 1 /\ Loc(r)[2] \in 0 .. tp - 1 /\ Loc(r)[3] \in 0 .. tp - 1
  BY LocTyped
<1>3. d[1] \in Int /\ d[2] \in Int /\ d[3] \in Int BY DEF Vectors
<1>4. q + Delta(Neg(d)) = r
  BY DeltaNeg DEF Rank
<1> HIDE DEF q
<1>5. HasNbr(q, Neg(d))
  BY <1>1, <1>2, <1>3, Negated, HasNbrIs
<1> QED BY <1>4, <1>5 DEF q

\* A rank tells its neighbours apart, and itself from them.
LEMMA NbrsDiffer ==
  ASSUME tp \in Nat \ {0}, NEW r \in Rank, NEW d \in Vectors, NEW e \in Vectors,
         HasNbr(r, d), HasNbr(r, e), Delta(d) = Delta(e)
  PROVE  d = e
<1>1. /\ Loc(r)[1] + d[1] = Loc(r)[1] + e[1]
      /\ Loc(r)[2] + d[2] = Loc(r)[2] + e[2]
      /\ Loc(r)[3] + d[3] = Loc(r)[3] + e[3]
  BY NbrPlace
<1>2. Loc(r)[1] \in Int /\ Loc(r)[2] \in Int /\ Loc(r)[3] \in Int
  BY LocTyped
<1>3. d[1] \in Int /\ d[2] \in Int /\ d[3] \in Int /\ e[1] \in Int /\ e[2] \in Int /\ e[3] \in Int
  BY DEF Vectors
<1> QED BY <1>1, <1>2, <1>3, SameVector

\* A neighbour is another rank, even where the distances between rows and
\* between planes are equal.
LEMMA NbrIsAnother ==
  ASSUME tp \in Nat \ {0}, NEW r \in Rank, NEW i \in 1 .. 26, HasNbr(r, CommRecvRows[i])
  PROVE  Delta(CommRecvRows[i]) # 0
<1> DEFINE d == CommRecvRows[i]  z == [n \in 1 .. 3 |-> 0]
<1>1. d \in Vectors BY RowTypes
<1>2. z \in Vectors /\ z[1] = 0 /\ z[2] = 0 /\ z[3] = 0 BY DEF Vectors
<1>3. Class(d) # 0 BY RowClass, RowKinds
<1>4. ~(d[1] = 0 /\ d[2] = 0 /\ d[3] = 0) BY <1>1, <1>3, ClassOf
<1> HIDE DEF d, z
<1>5. HasNbr(r, d) BY DEF d
<1>6. Loc(r)[1] \in 0 .. tp - 1 /\ Loc(r)[2] \in 0 .. tp - 1 /\ Loc(r)[3] \in 0 .. tp - 1
  BY LocTyped
<1>7. HasNbr(r, z) BY <1>2, <1>6, HasNbrIs
<1>8. Delta(z) = 0
  <2>1. tp * z[2] = 0 /\ (tp * tp) * z[3] = 0 BY <1>2
  <2> QED BY <2>1, <1>2 DEF Delta
<1>9. Delta(d) # 0 BY <1>1, <1>2, <1>4, <1>5, <1>7, <1>8, NbrsDiffer
<1> QED BY <1>9 DEF d

\* The ranks commRecvBegin and the direct sends name are the neighbours.
LEMMA DeltaIs ==
  ASSUME tp \in Nat \ {0}, NEW d \in Vectors
  PROVE  /\ tp2 \in Int
         /\ Delta(d) = d[1] + (IF d[2] = 0 THEN 0 ELSE IF d[2] = 1 THEN tp ELSE 0 - tp)
                          + (IF d[3] = 0 THEN 0 ELSE IF d[3] = 1 THEN tp2 ELSE 0 - tp2)
<1> DEFINE b == tp * tp
<1>1. b \in Int OBVIOUS
<1>2. d[1] \in -1 .. 1 /\ d[2] \in -1 .. 1 /\ d[3] \in -1 .. 1 BY DEF Vectors
<1>3. tp * d[2] = IF d[2] = 0 THEN 0 ELSE IF d[2] = 1 THEN tp ELSE 0 - tp
  BY <1>2
<1> HIDE DEF b
<1>4. b * d[3] = IF d[3] = 0 THEN 0 ELSE IF d[3] = 1 THEN b ELSE 0 - b
  BY <1>1, <1>2
<1>5. Delta(d) = d[1] + tp * d[2] + b * d[3] BY DEF Delta, b
<1>6. tp2 = b BY DEF tp2, b
<1> QED BY <1>1, <1>3, <1>4, <1>5, <1>6

\* The distances commRecvBegin writes out are those of its guards.
LEMMA DeltaTable ==
  ASSUME tp \in Nat \ {0}, NEW i \in 1 .. 26
  PROVE  Deltas[i] = Delta(CommRecvRows[i])
<1> DEFINE R == CommRecvRows  D == Deltas
           val(d) == d[1] + (IF d[2] = 0 THEN 0 ELSE IF d[2] = 1 THEN tp ELSE 0 - tp)
                          + (IF d[3] = 0 THEN 0 ELSE IF d[3] = 1 THEN tp2 ELSE 0 - tp2)
<1>1. tp2 \in Int /\ R[i] \in Vectors /\ Delta(R[i]) = val(R[i])
  BY RowTypes, DeltaIs
<1>2. CASE i \in Faces
  <2>1. i \in {1, 2, 3, 4, 5, 6} BY <1>2 DEF Faces
  <2>2. /\ D[1] = 0 - tp2 /\ D[2] = tp2 /\ D[3] = 0 - tp /\ D[4] = tp /\ D[5] = 0 - 1 /\ D[6] = 1
    BY <1>1 DEF Deltas
  <2>3. /\ val(R[1]) = 0 - tp2 /\ val(R[2]) = tp2 /\ val(R[3]) = 0 - tp /\ val(R[4]) = tp
        /\ val(R[5]) = 0 - 1 /\ val(R[6]) = 1
    BY <1>1, FaceEntries
  <2> HIDE DEF D, val, R
  <2>4. D[i] = val(R[i]) BY <2>1, <2>2, <2>3
  <2> QED BY <1>1, <2>4 DEF D, R
<1>3. CASE i \in Edges
  <2>1. i \in {7, 8, 9, 10, 11, 12, 13, 14, 15, 16, 17, 18} BY <1>3 DEF Edges
  <2>2. /\ D[7] = 0 - tp - 1 /\ D[8] = 0 - tp2 - tp /\ D[9] = 0 - tp2 - 1
        /\ D[10] = tp + 1 /\ D[11] = tp2 + tp /\ D[12] = tp2 + 1
        /\ D[13] = tp - 1 /\ D[14] = tp2 - tp /\ D[15] = tp2 - 1
        /\ D[16] = 0 - tp + 1 /\ D[17] = 0 - tp2 + tp /\ D[18] = 0 - tp2 + 1
    BY <1>1 DEF Deltas
  <2>3. /\ val(R[7]) = 0 - tp - 1 /\ val(R[8]) = 0 - tp2 - tp /\ val(R[9]) = 0 - tp2 - 1
        /\ val(R[10]) = tp + 1 /\ val(R[11]) = tp2 + tp /\ val(R[12]) = tp2 + 1
        /\ val(R[13]) = tp - 1 /\ val(R[14]) = tp2 - tp /\ val(R[15]) = tp2 - 1
        /\ val(R[16]) = 0 - tp + 1 /\ val(R[17]) = 0 - tp2 + tp /\ val(R[18]) = 0 - tp2 + 1
    BY <1>1, EdgeEntries
  <2> HIDE DEF D, val, R
  <2>4. D[i] = val(R[i]) BY <2>1, <2>2, <2>3
  <2> QED BY <1>1, <2>4 DEF D, R
<1>4. CASE i \in Corners
  <2>1. i \in {19, 20, 21, 22, 23, 24, 25, 26} BY <1>4 DEF Corners
  <2>2. /\ D[19] = 0 - tp2 - tp - 1 /\ D[20] = tp2 - tp - 1 /\ D[21] = 0 - tp2 - tp + 1 /\ D[22] = tp2 - tp + 1
        /\ D[23] = 0 - tp2 + tp - 1 /\ D[24] = tp2 + tp - 1 /\ D[25] = 0 - tp2 + tp + 1 /\ D[26] = tp2 + tp + 1
    BY <1>1 DEF Deltas
  <2>3. /\ val(R[19]) = 0 - tp2 - tp - 1 /\ val(R[20]) = tp2 - tp - 1
        /\ val(R[21]) = 0 - tp2 - tp + 1 /\ val(R[22]) = tp2 - tp + 1
        /\ val(R[23]) = 0 - tp2 + tp - 1 /\ val(R[24]) = tp2 + tp - 1
        /\ val(R[25]) = 0 - tp2 + tp + 1 /\ val(R[26]) = tp2 + tp + 1
    BY <1>1, CornerEntries
  <2> HIDE DEF D, val, R
  <2>4. D[i] = val(R[i]) BY <2>1, <2>2, <2>3
  <2> QED BY <1>1, <2>4 DEF D, R
<1> QED BY <1>2, <1>3, <1>4, RowKinds

-----------------------------------------------------------------------------
(* The counters of a walk that takes the rows of a set T.                  *)

Taken(T, i, c) == {j \in 1 .. i - 1 : j \in T /\ Class(CommRecvRows[j]) = c}
CntOf(T, i) == [p |-> Cardinality(Taken(T, i, 1)), e |-> Cardinality(Taken(T, i, 2)),
                c |-> Cardinality(Taken(T, i, 3))]
Counters == [p : Nat, e : Nat, c : Nat]
AtMost(n, m) == n.p <= m.p /\ n.e <= m.e /\ n.c <= m.c

LEMMA TakenFinite ==
  ASSUME NEW T, NEW i \in 1 .. 27, NEW c
  PROVE  IsFiniteSet(Taken(T, i, c)) /\ Cardinality(Taken(T, i, c)) \in Nat
<1>1. IsFiniteSet(1 .. i - 1) BY FS_Interval
<1>2. Taken(T, i, c) \subseteq 1 .. i - 1 BY DEF Taken
<1>3. IsFiniteSet(Taken(T, i, c)) BY <1>1, <1>2, FS_Subset
<1> QED BY <1>3, FS_CardinalityType

LEMMA CntTyped ==
  ASSUME NEW T, NEW i \in 1 .. 27
  PROVE  /\ CntOf(T, i) \in Counters
         /\ CntOf(T, i).p \in 0 .. 6 /\ CntOf(T, i).e \in 0 .. 12 /\ CntOf(T, i).c \in 0 .. 8
<1>1. \A c : Cardinality(Taken(T, i, c)) \in Nat BY TakenFinite
<1>2. Taken(T, i, 1) \subseteq Faces /\ Taken(T, i, 2) \subseteq Edges /\ Taken(T, i, 3) \subseteq Corners
  <2> SUFFICES ASSUME NEW j \in 1 .. i - 1
               PROVE  /\ Class(CommRecvRows[j]) = 1 => j \in Faces
                      /\ Class(CommRecvRows[j]) = 2 => j \in Edges
                      /\ Class(CommRecvRows[j]) = 3 => j \in Corners
    BY DEF Taken
  <2>1. j \in 1 .. 26 OBVIOUS
  <2> QED BY <2>1, RowClass, RowKinds
<1>3. /\ IsFiniteSet(Faces) /\ Cardinality(Faces) = 6
      /\ IsFiniteSet(Edges) /\ Cardinality(Edges) = 12
      /\ IsFiniteSet(Corners) /\ Cardinality(Corners) = 8
  <2>1. ASSUME NEW a \in Int, NEW b \in Int, a <= b
        PROVE  IsFiniteSet(a .. b) /\ Cardinality(a .. b) = b - a + 1
    BY <2>1, FS_Interval
  <2> DEFINE a1 == 1  b1 == 6  a2 == 7  b2 == 18  a3 == 19  b3 == 26
  <2>2. /\ a1 \in Int /\ b1 \in Int /\ a1 <= b1 /\ b1 - a1 + 1 = 6
        /\ a2 \in Int /\ b2 \in Int /\ a2 <= b2 /\ b2 - a2 + 1 = 12
        /\ a3 \in Int /\ b3 \in Int /\ a3 <= b3 /\ b3 - a3 + 1 = 8
    OBVIOUS
  <2>3. Faces = a1 .. b1 /\ Edges = a2 .. b2 /\ Corners = a3 .. b3
    BY DEF Faces, Edges, Corners
  <2> HIDE DEF a1, b1, a2, b2, a3, b3
  <2> QED BY <2>1, <2>2, <2>3
<1>4. /\ Cardinality(Taken(T, i, 1)) <= 6 /\ Cardinality(Taken(T, i, 2)) <= 12
      /\ Cardinality(Taken(T, i, 3)) <= 8
  BY <1>2, <1>3, FS_Subset
<1> QED BY <1>1, <1>4 DEF CntOf, Counters

LEMMA CntStart == \A T : CntOf(T, 1) = NoCnt
<1> SUFFICES ASSUME NEW T PROVE CntOf(T, 1) = NoCnt OBVIOUS
<1>1. \A c : Taken(T, 1, c) = {} BY DEF Taken
<1>2. Cardinality({}) = 0 BY FS_EmptySet
<1> QED BY <1>1, <1>2 DEF CntOf, NoCnt

\* One row further, the count of its class grows if the row is taken.
LEMMA TakenStep ==
  ASSUME NEW T, NEW i \in 1 .. 26, NEW c
  PROVE  Cardinality(Taken(T, i + 1, c)) =
           Cardinality(Taken(T, i, c)) + (IF i \in T /\ Class(CommRecvRows[i]) = c THEN 1 ELSE 0)
<1>1. IsFiniteSet(Taken(T, i, c)) /\ Cardinality(Taken(T, i, c)) \in Nat BY TakenFinite
<1>2. CASE i \in T /\ Class(CommRecvRows[i]) = c
  <2>1. Taken(T, i + 1, c) = Taken(T, i, c) \cup {i} BY <1>2 DEF Taken
  <2>2. i \notin Taken(T, i, c) BY DEF Taken
  <2> QED BY <1>1, <1>2, <2>1, <2>2, FS_AddElement
<1>3. CASE ~(i \in T /\ Class(CommRecvRows[i]) = c)
  <2>1. Taken(T, i + 1, c) = Taken(T, i, c) BY <1>3 DEF Taken
  <2> QED BY <1>1, <1>3, <2>1
<1> QED BY <1>2, <1>3

\* A row that is taken counts once, under its class.
LEMMA CntStep ==
  ASSUME NEW T, NEW i \in 1 .. 26
  PROVE  /\ i \in T => CntOf(T, i + 1) = Bump(CntOf(T, i), CommRecvRows[i])
         /\ i \notin T => CntOf(T, i + 1) = CntOf(T, i)
<1> DEFINE n == CntOf(T, i)  m == CntOf(T, i + 1)  d == CommRecvRows[i]
<1>1. /\ m.p = n.p + (IF i \in T /\ Class(d) = 1 THEN 1 ELSE 0)
      /\ m.e = n.e + (IF i \in T /\ Class(d) = 2 THEN 1 ELSE 0)
      /\ m.c = n.c + (IF i \in T /\ Class(d) = 3 THEN 1 ELSE 0)
  BY TakenStep DEF CntOf
<1>2. n \in Counters /\ m \in Counters
  <2>1. i \in 1 .. 27 /\ i + 1 \in 1 .. 27 OBVIOUS
  <2> QED BY <2>1, CntTyped
<1>3. Class(d) \in {1, 2, 3} BY RowClass, RowKinds
<1> HIDE DEF n, m, d
<1>4. i \in T => m = Bump(n, d)
  <2>1. ASSUME i \in T, Class(d) = 1 PROVE m = [n EXCEPT !.p = @ + 1]
    BY <1>1, <1>2, <2>1 DEF Counters
  <2>2. ASSUME i \in T, Class(d) = 2 PROVE m = [n EXCEPT !.e = @ + 1]
    BY <1>1, <1>2, <2>2 DEF Counters
  <2>3. ASSUME i \in T, Class(d) = 3 PROVE m = [n EXCEPT !.c = @ + 1]
    BY <1>1, <1>2, <2>3 DEF Counters
  <2> QED BY <1>3, <2>1, <2>2, <2>3 DEF Bump
<1>5. i \notin T => m = n BY <1>1, <1>2 DEF Counters
<1> QED BY <1>4, <1>5 DEF n, m, d

\* Counters only grow along a walk.
LEMMA CntMonotone ==
  ASSUME NEW T, NEW i \in 1 .. 27, NEW j \in 1 .. 27, i <= j
  PROVE  AtMost(CntOf(T, i), CntOf(T, j))
<1>1. ASSUME NEW c PROVE Cardinality(Taken(T, i, c)) <= Cardinality(Taken(T, j, c))
  <2>1. Taken(T, i, c) \subseteq Taken(T, j, c) BY DEF Taken
  <2> QED BY <2>1, TakenFinite, FS_Subset
<1> QED BY <1>1 DEF CntOf, AtMost

-----------------------------------------------------------------------------
(* The sizes of the buffers and the offsets in them.                       *)

Ctx == tp \in Nat \ {0} /\ nx \in Nat \ {0} /\ ph \in PhaseNames

LEMMA CacheAligned ==
  ASSUME NEW n \in Nat
  PROVE  CacheAlign(n) \in Nat /\ n <= CacheAlign(n)
<1>1. (n + PAD - 1) \in Int /\ PAD \in Nat \ {0} /\ PAD = 16 BY DEF PAD
<1> DEFINE q == (n + PAD - 1) \div PAD  r == (n + PAD - 1) % PAD
<1>2. q \in Int /\ r \in 0 .. PAD - 1 /\ n + PAD - 1 = PAD * q + r BY <1>1, DivMod
<1>3. CacheAlign(n) = q * PAD BY DEF CacheAlign
<1> HIDE DEF q, r
<1> QED BY <1>1, <1>2, <1>3

LEMMA CacheAlignMonotone ==
  ASSUME NEW n \in Nat, NEW m \in Nat, n <= m
  PROVE  CacheAlign(n) <= CacheAlign(m)
<1>1. PAD = 16 BY DEF PAD
<1> DEFINE a == n + PAD - 1  b == m + PAD - 1  q == a \div PAD  s == b \div PAD
<1>2. a \in Int /\ b \in Int /\ a <= b /\ PAD \in Nat \ {0} BY <1>1
<1>3. /\ q \in Int /\ a % PAD \in 0 .. PAD - 1 /\ a = PAD * q + (a % PAD)
      /\ s \in Int /\ b % PAD \in 0 .. PAD - 1 /\ b = PAD * s + (b % PAD)
  BY <1>2, DivMod
<1>4. CacheAlign(n) = q * PAD /\ CacheAlign(m) = s * PAD BY DEF CacheAlign
<1> DEFINE t == a % PAD  u == b % PAD
<1> HIDE DEF a, b, q, s, t, u
<1>5. q <= s BY <1>1, <1>2, <1>3 DEF t, u
<1> QED BY <1>1, <1>3, <1>4, <1>5

LEMMA Sizes ==
  ASSUME Ctx
  PROVE  /\ xferFields \in 1 .. 6 /\ dx \in 1 .. nx + 1
         /\ maxPlaneSize \in Nat /\ maxEdgeSize \in Nat /\ maxEdgeSize <= maxPlaneSize
         /\ dx * dx \in Nat \ {0} /\ dx * dx <= maxPlaneSize /\ dx <= maxEdgeSize
<1>1. xferFields \in 1 .. 6 BY DEF Ctx, PhaseNames, xferFields
<1>2. dx \in 1 .. nx + 1 BY DEF dx, Ctx
<1> DEFINE w == nx + 1
<1>3. w \in Nat /\ w >= 1 /\ w <= w * w /\ w * w \in Nat BY DEF Ctx
<1>4. /\ maxPlaneSize \in Nat /\ w * w <= maxPlaneSize /\ maxEdgeSize \in Nat /\ w <= maxEdgeSize
      /\ maxEdgeSize <= maxPlaneSize
  BY <1>3, CacheAligned, CacheAlignMonotone DEF maxPlaneSize, maxEdgeSize
<1> HIDE DEF w
<1>5. dx <= w /\ dx \in Nat \ {0} BY <1>2 DEF w, Ctx
<1>6. dx * dx \in Nat \ {0} /\ dx * dx <= w * w
  <2> DEFINE v == dx
  <2> HIDE DEF v
  <2>1. v \in Nat \ {0} /\ v <= w BY <1>5 DEF v
  <2>2. v * v <= v * w /\ v * w <= w * w /\ v * v \in Nat \ {0} /\ v * w \in Int
    BY <2>1, <1>3
  <2>3. v * v \in Nat \ {0} /\ v * v <= w * w BY <2>2, <1>3
  <2> QED BY <2>3 DEF v
<1> QED BY <1>1, <1>2, <1>3, <1>4, <1>5, <1>6

\* The words of the message of a row.
Length(i) == xferFields * Count(CommRecvRows[i])

\* A message is no longer than the room the counters leave for its class.
LEMMA Lengths ==
  ASSUME Ctx, NEW i \in 1 .. 26
  PROVE  /\ Length(i) \in Nat \ {0}
         /\ i \in Faces => Length(i) <= xferFields * maxPlaneSize
         /\ i \in Edges => Length(i) <= xferFields * maxEdgeSize
         /\ i \in Corners => Length(i) <= PAD
<1> DEFINE x == xferFields  d == CommRecvRows[i]
<1>1. x \in 1 .. 6 /\ maxPlaneSize \in Nat /\ maxEdgeSize \in Nat /\ dx \in Nat \ {0}
      /\ dx * dx \in Nat \ {0} /\ dx * dx <= maxPlaneSize /\ dx <= maxEdgeSize
  BY Sizes
<1>2. Length(i) = x * Count(d) BY DEF Length
<1> HIDE DEF x
<1>3. CASE i \in Faces
  <2>1. Count(d) = dx * dx BY <1>3, RowClass DEF Count
  <2>2. x * (dx * dx) \in Nat \ {0} /\ x * (dx * dx) <= x * maxPlaneSize
    <3> DEFINE y == dx * dx
    <3> HIDE DEF y
    <3>1. y \in Nat \ {0} /\ y <= maxPlaneSize BY <1>1 DEF y
    <3>2. x * y \in Nat \ {0} /\ x * y <= x * maxPlaneSize BY <1>1, <3>1, TimesMonotone
    <3> QED BY <3>2 DEF y
  <2> QED BY <1>2, <1>3, <2>1, <2>2 DEF Faces, Edges, Corners, x
<1>4. CASE i \in Edges
  <2>1. Count(d) = dx BY <1>4, RowClass DEF Count
  <2>2. x * dx \in Nat \ {0} /\ x * dx <= x * maxEdgeSize BY <1>1, TimesMonotone
  <2> QED BY <1>2, <1>4, <2>1, <2>2 DEF Faces, Edges, Corners, x
<1>5. CASE i \in Corners
  <2>1. Count(d) = 1 BY <1>5, RowClass DEF Count
  <2> QED BY <1>1, <1>2, <1>5, <2>1 DEF Faces, Edges, Corners, PAD
<1> QED BY <1>3, <1>4, <1>5, RowKinds

LEMMA OffsetForm ==
  ASSUME Ctx, NEW n \in Counters
  PROVE  /\ xferFields * maxPlaneSize \in Nat /\ xferFields * maxEdgeSize \in Nat
         /\ Offset(n) = n.p * (xferFields * maxPlaneSize) + n.e * (xferFields * maxEdgeSize) + n.c * 16
         /\ Offset(n) \in Nat /\ SlotOf(n) \in Nat
<1> DEFINE x == xferFields  P == maxPlaneSize  E == maxEdgeSize
<1>1. x \in Nat /\ P \in Nat /\ E \in Nat BY Sizes
<1>2. n.p \in Nat /\ n.e \in Nat /\ n.c \in Nat BY DEF Counters
<1>3. Offset(n) = n.p * x * P + n.e * x * E + n.c * 16 BY DEF Offset, PAD
<1> HIDE DEF x, P, E
<1>4. (n.p * x) * P = n.p * (x * P) /\ n.p * (x * P) \in Nat /\ x * P \in Nat BY <1>1, <1>2
<1>5. (n.e * x) * E = n.e * (x * E) /\ n.e * (x * E) \in Nat /\ x * E \in Nat BY <1>1, <1>2
<1> QED BY <1>2, <1>3, <1>4, <1>5 DEF SlotOf, x, P, E

\* Offsets and requests grow with the counters.
LEMMA OffsetMonotone ==
  ASSUME Ctx, NEW n \in Counters, NEW m \in Counters, AtMost(n, m)
  PROVE  Offset(n) <= Offset(m) /\ SlotOf(n) <= SlotOf(m)
<1> DEFINE P == xferFields * maxPlaneSize  E == xferFields * maxEdgeSize
<1>1. P \in Nat /\ E \in Nat BY OffsetForm
<1>2. /\ Offset(n) = n.p * P + n.e * E + n.c * 16 /\ Offset(m) = m.p * P + m.e * E + m.c * 16
  BY OffsetForm
<1> HIDE DEF P, E
<1>3. /\ n.p \in Nat /\ n.e \in Nat /\ n.c \in Nat /\ m.p \in Nat /\ m.e \in Nat /\ m.c \in Nat
      /\ n.p <= m.p /\ n.e <= m.e /\ n.c <= m.c
  BY DEF Counters, AtMost
<1>4. P * n.p <= P * m.p /\ P * n.p \in Int /\ P * m.p \in Int BY <1>1, <1>3, TimesMonotone
<1>5. E * n.e <= E * m.e /\ E * n.e \in Int /\ E * m.e \in Int BY <1>1, <1>3, TimesMonotone
<1>6. n.p * P = P * n.p /\ m.p * P = P * m.p /\ n.e * E = E * n.e /\ m.e * E = E * m.e
  BY <1>1, <1>3
<1>7. Offset(n) <= Offset(m) BY <1>2, <1>3, <1>4, <1>5, <1>6
<1> QED BY <1>3, <1>7 DEF SlotOf

\* The place after a message leaves room for it, and the next request is free.
LEMMA OffsetBump ==
  ASSUME Ctx, NEW n \in Counters, NEW i \in 1 .. 26
  PROVE  /\ Bump(n, CommRecvRows[i]) \in Counters
         /\ Offset(n) + Length(i) <= Offset(Bump(n, CommRecvRows[i]))
         /\ SlotOf(Bump(n, CommRecvRows[i])) = SlotOf(n) + 1
<1> DEFINE P == xferFields * maxPlaneSize  E == xferFields * maxEdgeSize  b == Bump(n, CommRecvRows[i])
<1>1. P \in Nat /\ E \in Nat /\ Offset(n) = n.p * P + n.e * E + n.c * 16 BY OffsetForm
<1>2. n.p \in Nat /\ n.e \in Nat /\ n.c \in Nat BY DEF Counters
<1>3. n.p * P \in Nat /\ n.e * E \in Nat BY <1>1, <1>2
<1>4. Length(i) \in Nat /\ (i \in Faces => Length(i) <= P) /\ (i \in Edges => Length(i) <= E)
      /\ (i \in Corners => Length(i) <= 16)
  BY Lengths DEF PAD
<1>5. b \in Counters => Offset(b) = b.p * P + b.e * E + b.c * 16
  BY OffsetForm
<1> HIDE DEF P, E
<1>6. CASE i \in Faces
  <2>1. b = [n EXCEPT !.p = @ + 1] BY <1>6, RowClass DEF Bump
  <2>2. b \in Counters /\ b.p = n.p + 1 /\ b.e = n.e /\ b.c = n.c BY <2>1, <1>2 DEF Counters
  <2>3. (n.p + 1) * P = n.p * P + P BY <1>1, <1>2
  <2> HIDE DEF b
  <2>4. Offset(n) + Length(i) <= Offset(b) BY <1>1, <1>2, <1>3, <1>4, <1>5, <1>6, <2>2, <2>3
  <2>5. SlotOf(b) = SlotOf(n) + 1 BY <1>2, <2>2 DEF SlotOf
  <2> QED BY <2>2, <2>4, <2>5 DEF b
<1>7. CASE i \in Edges
  <2>1. b = [n EXCEPT !.e = @ + 1] BY <1>7, RowClass DEF Bump
  <2>2. b \in Counters /\ b.p = n.p /\ b.e = n.e + 1 /\ b.c = n.c BY <2>1, <1>2 DEF Counters
  <2>3. (n.e + 1) * E = n.e * E + E BY <1>1, <1>2
  <2> HIDE DEF b
  <2>4. Offset(n) + Length(i) <= Offset(b) BY <1>1, <1>2, <1>3, <1>4, <1>5, <1>7, <2>2, <2>3
  <2>5. SlotOf(b) = SlotOf(n) + 1 BY <1>2, <2>2 DEF SlotOf
  <2> QED BY <2>2, <2>4, <2>5 DEF b
<1>8. CASE i \in Corners
  <2>1. b = [n EXCEPT !.c = @ + 1] BY <1>8, RowClass DEF Bump
  <2>2. b \in Counters /\ b.p = n.p /\ b.e = n.e /\ b.c = n.c + 1 BY <2>1, <1>2 DEF Counters
  <2> HIDE DEF b
  <2>4. Offset(n) + Length(i) <= Offset(b) BY <1>1, <1>2, <1>3, <1>4, <1>5, <1>8, <2>2
  <2>5. SlotOf(b) = SlotOf(n) + 1 BY <1>2, <2>2 DEF SlotOf
  <2> QED BY <2>2, <2>4, <2>5 DEF b
<1> QED BY <1>6, <1>7, <1>8, RowKinds

\* Of two rows taken, the message of the first ends before that of the second.
LEMMA InOrder ==
  ASSUME Ctx, NEW T, NEW i \in T \cap (1 .. 26), NEW j \in 1 .. 27, i < j
  PROVE  /\ Offset(CntOf(T, i)) + Length(i) <= Offset(CntOf(T, j))
         /\ SlotOf(CntOf(T, i)) + 1 <= SlotOf(CntOf(T, j))
         /\ Offset(CntOf(T, i)) \in Nat /\ Offset(CntOf(T, j)) \in Nat
         /\ SlotOf(CntOf(T, i)) \in Nat /\ SlotOf(CntOf(T, j)) \in Nat
<1> DEFINE n == CntOf(T, i)  b == CntOf(T, i + 1)  m == CntOf(T, j)
<1>1. i \in 1 .. 26 /\ i \in 1 .. 27 /\ i + 1 \in 1 .. 27 /\ i + 1 <= j OBVIOUS
<1>2. n \in Counters /\ b \in Counters /\ m \in Counters BY <1>1, CntTyped
<1>3. b = Bump(n, CommRecvRows[i]) BY <1>1, CntStep
<1>4. AtMost(b, m) BY <1>1, CntMonotone
<1>5. /\ Offset(n) \in Nat /\ Offset(b) \in Nat /\ Offset(m) \in Nat
      /\ SlotOf(n) \in Nat /\ SlotOf(b) \in Nat /\ SlotOf(m) \in Nat
  BY <1>2, OffsetForm
<1>6. Length(i) \in Nat BY <1>1, Lengths
<1> HIDE DEF n, b, m
<1>7. Offset(n) + Length(i) <= Offset(b) /\ SlotOf(b) = SlotOf(n) + 1
  BY <1>1, <1>2, <1>3, OffsetBump
<1>8. Offset(b) <= Offset(m) /\ SlotOf(b) <= SlotOf(m) BY <1>2, <1>4, OffsetMonotone
<1>9. Offset(n) + Length(i) <= Offset(m) /\ SlotOf(n) + 1 <= SlotOf(m)
  BY <1>5, <1>6, <1>7, <1>8
<1> QED BY <1>5, <1>9 DEF n, m

-----------------------------------------------------------------------------
(* The size SetupCommBuffers gives a buffer covers every walk.             *)

LEMMA VectorsFinite == IsFiniteSet(Vectors)
<1> DEFINE v(d) == (d[1] + 1) + 3 * (d[2] + 1) + 9 * (d[3] + 1)
           f == [d \in Vectors |-> v(d)]
<1>1. ASSUME NEW d \in Vectors
      PROVE  d[1] \in -1 .. 1 /\ d[2] \in -1 .. 1 /\ d[3] \in -1 .. 1
  BY DEF Vectors
<1>2. \A d \in Vectors : v(d) \in 0 .. 26 BY <1>1
<1>3. ASSUME NEW d \in Vectors, NEW e \in Vectors, v(d) = v(e) PROVE d = e
  <2>1. d[1] = e[1] /\ d[2] = e[2] /\ d[3] = e[3] BY <1>1, <1>3
  <2> QED BY <2>1, SameVector
<1> HIDE DEF v
<1>4. f \in [Vectors -> 0 .. 26] /\ \A d, e \in DOMAIN f : f[d] = f[e] => d = e
  BY <1>2, <1>3
<1>5. f \in Injection(Vectors, 0 .. 26) BY <1>4 DEF Injection, IsInjective
<1>6. IsFiniteSet(0 .. 26)
  <2> DEFINE a == 0  b == 26
  <2>1. a \in Int /\ b \in Int OBVIOUS
  <2> HIDE DEF a, b
  <2>2. IsFiniteSet(a .. b) BY <2>1, FS_Interval
  <2> QED BY <2>2 DEF a, b
<1> HIDE DEF f
<1> QED BY <1>5, <1>6, FS_Injection

\* A walk takes no more rows of a class than there are neighbours.
LEMMA TakenWithinNbrs ==
  ASSUME NEW r, NEW T, \A i \in T \cap (1 .. 26) : HasNbr(r, CommRecvRows[i]), NEW c \in 1 .. 3
  PROVE  Cardinality(Taken(T, 27, c)) <= Nbrs(r, c) /\ Nbrs(r, c) \in Nat
<1> DEFINE N == {d \in Directions : Class(d) = c /\ HasNbr(r, d)}
           S == Taken(T, 27, c)
           f == [i \in S |-> CommRecvRows[i]]
<1>1. N \subseteq Vectors BY DEF Directions, Vectors
<1>2. IsFiniteSet(N) /\ Cardinality(N) \in Nat
  BY <1>1, VectorsFinite, FS_Subset, FS_CardinalityType
<1>3. S \subseteq 1 .. 26 /\ S \subseteq T /\ \A i \in S : Class(CommRecvRows[i]) = c
  BY DEF Taken
<1>4. \A i \in S : CommRecvRows[i] \in N
  <2> SUFFICES ASSUME NEW i \in S PROVE CommRecvRows[i] \in N OBVIOUS
  <2>1. i \in 1 .. 26 /\ HasNbr(r, CommRecvRows[i]) /\ Class(CommRecvRows[i]) = c BY <1>3
  <2>2. CommRecvRows[i] \in Vectors BY <2>1, RowTypes
  <2> QED BY <2>1, <2>2 DEF Directions, Vectors
<1> HIDE DEF N, S
<1>5. f \in [S -> N] /\ \A i, j \in DOMAIN f : f[i] = f[j] => i = j
  BY <1>3, <1>4, RowsDiffer
<1>6. f \in Injection(S, N) BY <1>5 DEF Injection, IsInjective
<1> HIDE DEF f
<1>7. Cardinality(S) <= Cardinality(N) BY <1>2, <1>6, FS_Injection
<1> QED BY <1>2, <1>7 DEF S, N, Nbrs

\* A whole walk stays within the buffer SetupCommBuffers allocates.
LEMMA WalkFits ==
  ASSUME Ctx, NEW r, NEW T, \A i \in T \cap (1 .. 26) : HasNbr(r, CommRecvRows[i])
  PROVE  Offset(CntOf(T, 27)) <= comBufSize(r) /\ comBufSize(r) \in Nat
<1> DEFINE m == CntOf(T, 27)  x == xferFields  P == maxPlaneSize  E == maxEdgeSize
           n1 == Nbrs(r, 1)  n2 == Nbrs(r, 2)  n3 == Nbrs(r, 3)
<1>1. m \in Counters /\ m.p <= n1 /\ m.e <= n2 /\ m.c <= n3 /\ n1 \in Nat /\ n2 \in Nat /\ n3 \in Nat
  <2>1. 27 \in 1 .. 27 /\ 1 \in 1 .. 3 /\ 2 \in 1 .. 3 /\ 3 \in 1 .. 3 OBVIOUS
  <2>2. /\ Cardinality(Taken(T, 27, 1)) <= n1 /\ n1 \in Nat
        /\ Cardinality(Taken(T, 27, 2)) <= n2 /\ n2 \in Nat
        /\ Cardinality(Taken(T, 27, 3)) <= n3 /\ n3 \in Nat
    BY <2>1, TakenWithinNbrs
  <2>3. m \in Counters BY <2>1, CntTyped
  <2> QED BY <2>2, <2>3 DEF CntOf
<1>2. x \in 1 .. 6 /\ P \in Nat /\ E \in Nat /\ E <= P BY Sizes
<1>3. Offset(m) = m.p * (x * P) + m.e * (x * E) + m.c * 16 BY <1>1, OffsetForm
<1> DEFINE b0 == (n1 + n2) * P * 6 + n3 * 16
<1>4. comBufSize(r) = IF b0 = 0 THEN 1 ELSE b0 BY DEF comBufSize, AtLeastOne, PAD, MAX_FIELDS
<1> HIDE DEF m, x, P, E, n1, n2, n3
<1>5. m.p \in Nat /\ m.e \in Nat /\ m.c \in Nat BY <1>1 DEF Counters
<1> DEFINE w == 6 * P
<1>6. w \in Nat /\ x * P \in Nat /\ x * E \in Nat /\ x * P <= w /\ x * E <= w
  <2>1. P * x <= P * 6 /\ x * E <= x * P BY <1>2, TimesMonotone
  <2>2. x * P \in Nat /\ x * E \in Nat /\ P * x = x * P /\ P * 6 = 6 * P BY <1>2
  <2> QED BY <1>2, <2>1, <2>2
<1> HIDE DEF w
<1> DEFINE a == x * P  b == x * E
<1> HIDE DEF a, b
<1>7. a \in Nat /\ b \in Nat /\ a <= w /\ b <= w BY <1>6 DEF a, b
<1>8. m.p * a <= n1 * w /\ m.p * a \in Nat /\ n1 * w \in Nat
  <2>1. m.p * a <= m.p * w /\ w * m.p <= w * n1 BY <1>1, <1>5, <1>6, <1>7, TimesMonotone
  <2>2. m.p * w = w * m.p /\ n1 * w = w * n1 /\ m.p * a \in Nat /\ w * n1 \in Nat /\ w * m.p \in Nat
    BY <1>1, <1>5, <1>6, <1>7
  <2> QED BY <2>1, <2>2
<1>9. m.e * b <= n2 * w /\ m.e * b \in Nat /\ n2 * w \in Nat
  <2>1. m.e * b <= m.e * w /\ w * m.e <= w * n2 BY <1>1, <1>5, <1>6, <1>7, TimesMonotone
  <2>2. m.e * w = w * m.e /\ n2 * w = w * n2 /\ m.e * b \in Nat /\ w * n2 \in Nat /\ w * m.e \in Nat
    BY <1>1, <1>5, <1>6, <1>7
  <2> QED BY <2>1, <2>2
<1>10. (n1 + n2) * P * 6 = n1 * w + n2 * w
  <2>1. (n1 + n2) * P \in Nat /\ (n1 + n2) * P * 6 = (n1 + n2) * (P * 6) BY <1>1, <1>2
  <2>2. (n1 + n2) * (P * 6) = (n1 + n2) * w BY <1>2 DEF w
  <2>3. (n1 + n2) * w = n1 * w + n2 * w BY <1>1, <1>6
  <2> QED BY <2>1, <2>2, <2>3
<1>11. Offset(m) = m.p * a + m.e * b + m.c * 16 BY <1>3 DEF a, b
<1>12. Offset(m) \in Nat /\ Offset(m) <= b0 /\ b0 \in Nat
  BY <1>1, <1>5, <1>8, <1>9, <1>10, <1>11
<1> HIDE DEF b0
<1>13. Offset(m) <= comBufSize(r) /\ comBufSize(r) \in Nat BY <1>4, <1>12
<1> QED BY <1>13 DEF m

-----------------------------------------------------------------------------
(* The walks of the code, by the rows they take.                           *)

Expected(r) == {i \in 1 .. 26 : Expects(r, CommRecvRows[i])}
Sent(r) == {i \in 1 .. 26 : SendsTo(r, CommRecvRows[i])}

LEMMA CntAtIs ==
  ASSUME NEW i \in 1 .. 27
  PROVE  CntAt(i) = CntOf(Expected(me), i)
<1>1. ASSUME NEW c
      PROVE  {j \in 1 .. i - 1 : Class(CommRecvRows[j]) = c /\ Expects(me, CommRecvRows[j])}
               = Taken(Expected(me), i, c)
  <2>1. \A j \in 1 .. i - 1 : j \in 1 .. 26 OBVIOUS
  <2> QED BY <2>1 DEF Taken, Expected
<1> QED BY <1>1 DEF CntAt, CntOf, Before

LEMMA ExpectedIs ==
  /\ ExpectedRows = Expected(me) \cap Rows /\ ExpectedRows \subseteq 1 .. 26
  /\ \A i \in Expected(me) : i \in 1 .. 26 /\ HasNbr(me, CommRecvRows[i])
BY RowCount DEF ExpectedRows, Expected, Expects

\* What shmRecvOffset answers for a direction in which r expects a message.
LEMMA ShmOffset ==
  ASSUME Ctx, NEW r, NEW i \in Rows, Expects(r, CommRecvRows[i])
  PROVE  shmRecvOffset(r, CommRecvRows[i]) = Offset(CntOf(Expected(r), i))
<1> DEFINE d == CommRecvRows[i]  n == CHOOSE j \in 1 .. 26 : shmRecvOffsetRows[j] = d
<1>1. i \in 1 .. 26 /\ (planeOnly => i <= 6) BY RowCount
<1>2. n = i
  <2>1. n \in 1 .. 26 /\ shmRecvOffsetRows[n] = d BY <1>1, AsOffsetRows
  <2> HIDE DEF n
  <2>2. CommRecvRows[n] = CommRecvRows[i] BY <2>1, AsOffsetRows
  <2> QED BY <1>1, <2>1, <2>2, RowsDiffer
<1>3. shmRecvOffset(r, d) = Offset(Before(shmRecvOffsetRows, i, LAMBDA e : Expects(r, e)))
  BY <1>1, <1>2 DEF shmRecvOffset
<1>4. ASSUME NEW c
      PROVE  {j \in 1 .. i - 1 : Class(shmRecvOffsetRows[j]) = c /\ Expects(r, shmRecvOffsetRows[j])}
               = Taken(Expected(r), i, c)
  <2>1. \A j \in 1 .. i - 1 : j \in 1 .. 26 /\ shmRecvOffsetRows[j] = CommRecvRows[j]
    BY <1>1, AsOffsetRows
  <2> QED BY <2>1 DEF Taken, Expected
<1>5. Before(shmRecvOffsetRows, i, LAMBDA e : Expects(r, e)) = CntOf(Expected(r), i)
  BY <1>4 DEF Before, CntOf
<1> QED BY <1>3, <1>5

LEMMA PackIs ==
  ASSUME NEW r, NEW i \in 1 .. 26
  PROVE  PackOffset(r, i) = Offset(CntOf(Sent(r), i))
<1>1. ASSUME NEW c
      PROVE  {j \in 1 .. i - 1 : Class(CommSendRows[j]) = c /\ SendsTo(r, CommSendRows[j])}
               = Taken(Sent(r), i, c)
  <2>1. \A j \in 1 .. i - 1 : j \in 1 .. 26 OBVIOUS
  <2> QED BY <2>1, AsSendRows DEF Taken, Sent
<1>2. Before(CommSendRows, i, LAMBDA e : SendsTo(r, e)) = CntOf(Sent(r), i)
  BY <1>1 DEF Before, CntOf
<1> QED BY <1>2 DEF PackOffset

-----------------------------------------------------------------------------
(* A message and its receive.                                              *)

LEMMA SendRankIs ==
  ASSUME Ctx, NEW r, NEW i \in 1 .. 26
  PROVE  SendRank(r, i) = r + Delta(CommRecvRows[i])
BY AsSendRows, DeltaTable DEF SendRank, Ctx

LEMMA SenderPosIs ==
  ASSUME NEW i \in 1 .. 26
  PROVE  SenderPos(i) = CommRecvRows[Mirror(i)]
BY AsSendRows, NegRow, SendArgs DEF SenderPos

\* The mirror of a row of the phase is one, of the same class.
LEMMA MirrorRows ==
  ASSUME NEW i \in Rows
  PROVE  i \in 1 .. 26 /\ Mirror(i) \in Rows /\ Class(CommRecvRows[Mirror(i)]) = Class(CommRecvRows[i])
<1>1. i \in 1 .. 26 /\ Mirror(i) \in 1 .. 26 BY RowCount, Mirrored
<1>2. Mirror(i) \in Rows
  <2>1. CASE planeOnly
    <3>1. i \in Faces BY <2>1, RowCount DEF Faces
    <3>2. Mirror(i) \in Faces BY <1>1, <3>1, Mirrored
    <3> QED BY <2>1, <3>2, RowCount DEF Faces
  <2>2. CASE ~planeOnly BY <1>1, <2>2, RowCount
  <2> QED BY <2>1, <2>2
<1>3. Class(CommRecvRows[Mirror(i)]) = Class(CommRecvRows[i])
  BY <1>1, RowClass, RowKinds, Mirrored
<1> QED BY <1>1, <1>2, <1>3

\* What a rank sends me I expect, in the opposite direction.
LEMMA SentIsExpected ==
  ASSUME Ctx, me \in Rank, NEW q \in Rank, NEW i \in Sends(q), SendRank(q, i) = me
  PROVE  /\ i \in Rows /\ i \in 1 .. 26 /\ Mirror(i) \in ExpectedRows
         /\ me + Delta(CommRecvRows[Mirror(i)]) = q
         /\ xferFields * Count(CommSendRows[i]) = Length(Mirror(i))
         /\ SenderPos(i) = CommRecvRows[Mirror(i)]
<1> DEFINE d == CommRecvRows[i]  n == CommRecvRows[Mirror(i)]
<1>1. i \in Rows /\ i \in 1 .. 26 /\ Mirror(i) \in Rows /\ Class(n) = Class(d)
  BY MirrorRows DEF Sends
<1>2. HasNbr(q, d) /\ (~Lower(d) => bothWays) BY AsSendRows DEF Sends, SendsTo
<1>3. d \in Vectors /\ n = Neg(d) BY <1>1, RowTypes, NegRow
<1>4. me = q + Delta(d) BY <1>1, SendRankIs
<1>5. HasNbr(me, n) /\ me + Delta(n) = q BY <1>2, <1>3, <1>4, NbrOfNbr DEF Ctx
<1>6. Lower(n) => bothWays BY <1>2, <1>3, DeltaNeg DEF Ctx, Lower
<1>7. Mirror(i) \in ExpectedRows BY <1>1, <1>5, <1>6 DEF ExpectedRows, Expects
<1>8. xferFields * Count(CommSendRows[i]) = Length(Mirror(i))
  BY <1>1, AsSendRows DEF Length, Count
<1> QED BY <1>1, <1>5, <1>7, <1>8, SenderPosIs

\* And what I expect is sent.
LEMMA ExpectedIsSent ==
  ASSUME Ctx, me \in Rank, NEW i \in ExpectedRows
  PROVE  LET q == me + Delta(CommRecvRows[i]) IN
         q \in Rank /\ Mirror(i) \in Sends(q) /\ SendRank(q, Mirror(i)) = me
<1> DEFINE d == CommRecvRows[i]  n == CommRecvRows[Mirror(i)]  q == me + Delta(d)
<1>1. i \in Rows /\ i \in 1 .. 26 /\ Mirror(i) \in Rows /\ Mirror(i) \in 1 .. 26
  BY MirrorRows, RowCount DEF ExpectedRows
<1>2. HasNbr(me, d) /\ (Lower(d) => bothWays) BY DEF ExpectedRows, Expects
<1>3. d \in Vectors /\ n = Neg(d) BY <1>1, RowTypes, NegRow
<1>4. q \in Rank BY <1>2, <1>3, NbrPlace DEF Ctx
<1>5. HasNbr(q, n) /\ q + Delta(n) = me BY <1>2, <1>3, NbrOfNbr DEF Ctx
<1>6. Delta(d) # 0 /\ Delta(d) \in Int /\ Delta(n) = 0 - Delta(d)
  BY <1>1, <1>2, <1>3, NbrIsAnother, DeltaNeg DEF Ctx
<1>7. ~Lower(n) => bothWays BY <1>2, <1>6 DEF Lower
<1>8. Mirror(i) \in Sends(q) BY <1>1, <1>5, <1>7, AsSendRows DEF Sends, SendsTo
<1>9. SendRank(q, Mirror(i)) = me BY <1>1, <1>5, SendRankIs
<1> QED BY <1>4, <1>8, <1>9

\* Different rows bring messages of different ranks.
LEMMA OneRowPerRank ==
  ASSUME Ctx, me \in Rank, NEW i \in ExpectedRows, NEW j \in ExpectedRows,
         me + Delta(CommRecvRows[i]) = me + Delta(CommRecvRows[j])
  PROVE  i = j
<1> DEFINE d == CommRecvRows[i]  e == CommRecvRows[j]
<1>1. i \in 1 .. 26 /\ j \in 1 .. 26 /\ HasNbr(me, d) /\ HasNbr(me, e) BY ExpectedIs
<1>2. d \in Vectors /\ e \in Vectors BY <1>1, RowTypes
<1>3. Delta(d) \in Int /\ Delta(e) \in Int /\ me \in Int
  BY <1>2, DeltaNeg DEF Ctx, Rank
<1>4. Delta(d) = Delta(e)
  <2>1. \A a, b, m \in Int : m + a = m + b => a = b OBVIOUS
  <2> QED BY <1>3, <2>1
<1> QED BY <1>1, <1>2, <1>4, NbrsDiffer, RowsDiffer DEF Ctx

-----------------------------------------------------------------------------
(* Steps leave the inputs alone, so the rows and the counters stay.        *)

LEMMA Frozen ==
  ASSUME inputs' = inputs
  PROVE  /\ tp' = tp /\ nx' = nx /\ ph' = ph /\ path' = path /\ me' = me
         /\ Rank' = Rank /\ Rows' = Rows /\ ExpectedRows' = ExpectedRows
         /\ \A i : CntAt(i)' = CntAt(i)
         /\ \A ps, n : PostedBefore(ps, n)' <=> PostedBefore(ps, n)
<1>0. tp' = tp /\ nx' = nx /\ ph' = ph /\ path' = path /\ me' = me BY DEF inputs
<1>1. \A r, d : Expects(r, d)' <=> Expects(r, d)
  BY <1>0 DEF Expects, HasNbr, Lower, Delta, Loc, bothWays
<1>2. Rows' = Rows /\ Rank' = Rank BY <1>0 DEF Rows, planeOnly, Rank
<1>3. ExpectedRows' = ExpectedRows BY <1>0, <1>1, <1>2 DEF ExpectedRows
<1>4. \A i : CntAt(i)' = CntAt(i) BY <1>0, <1>1 DEF CntAt, Before
<1>5. \A n : Offset(n)' = Offset(n)
  BY <1>0 DEF Offset, xferFields, maxPlaneSize, maxEdgeSize
<1>6. \A i : Posted(i)' = Posted(i) /\ PlaceOf(i)' = PlaceOf(i)
  BY <1>0, <1>4, <1>5 DEF Posted, PlaceOf, SlotOf, Delta, Count, dx, planeOnly, xferFields
<1>7. ASSUME NEW ps, NEW n PROVE PostedBefore(ps, n)' <=> PostedBefore(ps, n)
  BY <1>3, <1>4, <1>6 DEF PostedBefore, SlotOf
<1> QED BY <1>0, <1>2, <1>3, <1>4, <1>7

-----------------------------------------------------------------------------
(* The invariant.                                                          *)

LEMMA Context ==
  ASSUME TypeOK
  PROVE  Ctx /\ me \in Rank /\ path \in {"isend", "fallback", "put", "direct"}
<1>1. [tp |-> tp, nx |-> nx] \in [tp : Nat \ {0}, nx : Nat \ {0}] BY LayoutAssumption DEF TypeOK
<1>2. ph \in PhaseNames /\ path \in {"isend", "fallback", "put", "direct"}
  BY LayoutAssumption DEF TypeOK, PhaseNames
<1> QED BY <1>1, <1>2 DEF TypeOK, Ctx

LEMMA CntInTypes ==
  ASSUME NEW i \in 1 .. 27
  PROVE  CntAt(i) \in [{"p", "e", "c"} -> 0 .. 12] /\ CntAt(i) \in Counters /\ CntAt(1) = NoCnt
<1>1. CntAt(i) = CntOf(Expected(me), i) /\ CntAt(1) = CntOf(Expected(me), 1) BY CntAtIs
<1>2. /\ CntAt(i) \in Counters /\ CntAt(i).p \in 0 .. 12 /\ CntAt(i).e \in 0 .. 12 /\ CntAt(i).c \in 0 .. 12
  BY <1>1, CntTyped
<1>3. CntAt(i) \in [{"p", "e", "c"} -> 0 .. 12] BY <1>2 DEF Counters
<1>4. CntAt(1) = NoCnt BY <1>1, CntStart
<1> QED BY <1>2, <1>3, <1>4

\* Requests and offsets of the expected rows, in the order of the rows.
LEMMA RowsInOrder ==
  ASSUME Ctx, NEW i \in ExpectedRows, NEW j \in 1 .. 27, i < j
  PROVE  /\ Offset(CntAt(i)) + Length(i) <= Offset(CntAt(j)) /\ SlotOf(CntAt(i)) + 1 <= SlotOf(CntAt(j))
         /\ Offset(CntAt(i)) \in Nat /\ SlotOf(CntAt(i)) \in Nat
         /\ Offset(CntAt(j)) \in Nat /\ SlotOf(CntAt(j)) \in Nat
<1>1. i \in Expected(me) \cap (1 .. 26) /\ i \in 1 .. 27 BY ExpectedIs
<1>2. CntAt(i) = CntOf(Expected(me), i) /\ CntAt(j) = CntOf(Expected(me), j) BY <1>1, CntAtIs
<1> QED BY <1>1, <1>2, InOrder

\* There are requests enough.
LEMMA SlotBound ==
  ASSUME Ctx, NEW i \in ExpectedRows
  PROVE  SlotOf(CntAt(i)) \in 0 .. 25 /\ i \in 1 .. 26
<1>1. i \in 1 .. 26 BY ExpectedIs
<1>2. 27 \in 1 .. 27 /\ i < 27 BY <1>1
<1>3. SlotOf(CntAt(i)) + 1 <= SlotOf(CntAt(27)) /\ SlotOf(CntAt(i)) \in Nat /\ SlotOf(CntAt(27)) \in Nat
  BY <1>2, RowsInOrder
<1>4. SlotOf(CntAt(27)) <= 26
  <2>1. CntAt(27) = CntOf(Expected(me), 27) BY <1>2, CntAtIs
  <2>2. CntAt(27).p \in 0 .. 6 /\ CntAt(27).e \in 0 .. 12 /\ CntAt(27).c \in 0 .. 8
    BY <1>2, <2>1, CntTyped
  <2> QED BY <2>2 DEF SlotOf
<1> QED BY <1>1, <1>3, <1>4

LEMMA PostsTyped ==
  ASSUME Ctx, me \in Rank, NEW ps, NEW n, PostedBefore(ps, n), NEW j \in DOMAIN ps
  PROVE  ps[j].from \in Rank /\ ps[j].slot \in 0 .. 25
<1>1. PICK i \in ExpectedRows : i < n /\ PlaceOf(i) = j BY DEF PostedBefore
<1>2. ps[j] = Posted(i) BY <1>1 DEF PostedBefore
<1>3. i \in 1 .. 26 /\ HasNbr(me, CommRecvRows[i]) BY ExpectedIs
<1>4. me + Delta(CommRecvRows[i]) \in Rank BY <1>3, RowTypes, NbrPlace DEF Ctx
<1> QED BY <1>2, <1>4, SlotBound DEF Posted

\* One receive more.
LEMMA PostOne ==
  ASSUME Ctx, me \in Rank, NEW n \in Rows, NEW ps, PostedBefore(ps, n)
  PROVE  /\ n \in ExpectedRows => PostedBefore(Append(ps, Posted(n)), n + 1)
         /\ n \notin ExpectedRows => PostedBefore(ps, n + 1)
<1> DEFINE Rec == [from : Int, offset : Int, slot : Int, count : Int]
           qs == Append(ps, Posted(n))
<1>1. n \in 1 .. 26 /\ n \in 1 .. 27 /\ n + 1 \in 1 .. 27 BY RowCount
<1>2. CntAt(n) = CntOf(Expected(me), n) /\ CntAt(n + 1) = CntOf(Expected(me), n + 1) BY <1>1, CntAtIs
<1>3. n \in ExpectedRows <=> n \in Expected(me) BY ExpectedIs
<1>4. ps \in Seq(Rec) /\ Len(ps) = SlotOf(CntAt(n)) BY DEF PostedBefore
<1>5. ASSUME n \notin ExpectedRows PROVE PostedBefore(ps, n + 1)
  <2>1. CntAt(n + 1) = CntAt(n) BY <1>1, <1>2, <1>3, <1>5, CntStep
  <2>2. \A i \in ExpectedRows : i < n + 1 <=> i < n BY <1>1, <1>5, ExpectedIs
  <2> QED BY <2>1, <2>2 DEF PostedBefore
<1>6. ASSUME n \in ExpectedRows PROVE PostedBefore(qs, n + 1)
  <2>1. CntAt(n) \in Counters /\ SlotOf(CntAt(n + 1)) = SlotOf(CntAt(n)) + 1
    <3>1. CntAt(n) \in Counters BY <1>1, CntInTypes
    <3>2. CntAt(n + 1) = Bump(CntAt(n), CommRecvRows[n]) BY <1>1, <1>2, <1>3, <1>6, CntStep
    <3> QED BY <1>1, <3>1, <3>2, OffsetBump
  <2>2. Posted(n) \in Rec
    <3>1. Offset(CntAt(n)) \in Int /\ SlotOf(CntAt(n)) \in Int BY <2>1, OffsetForm
    <3>2. CommRecvRows[n] \in Vectors BY <1>1, RowTypes
    <3>3. me + Delta(CommRecvRows[n]) \in Int BY <3>2, DeltaNeg DEF Ctx, Rank
    <3>4. xferFields * Count(CommRecvRows[n]) \in Int BY <1>1, Lengths DEF Length
    <3> QED BY <3>1, <3>3, <3>4 DEF Posted
  <2> DEFINE p == Posted(n)
  <2> HIDE DEF p
  <2>3. /\ Append(ps, p) \in Seq(Rec) /\ Len(Append(ps, p)) = Len(ps) + 1 /\ Len(ps) \in Nat
        /\ \A j \in 1 .. Len(ps) : Append(ps, p)[j] = ps[j]
        /\ Append(ps, p)[Len(ps) + 1] = p
        /\ DOMAIN ps = 1 .. Len(ps) /\ DOMAIN Append(ps, p) = 1 .. Len(ps) + 1
    <3>1. p \in Rec BY <2>2 DEF p
    <3> HIDE DEF Rec
    <3> QED BY <1>4, <3>1
  <2>4. PlaceOf(n) = Len(ps) + 1 BY <1>4 DEF PlaceOf
  <2>5. ASSUME NEW i \in ExpectedRows, i < n + 1
        PROVE  PlaceOf(i) \in DOMAIN qs /\ qs[PlaceOf(i)] = Posted(i)
    <3>1. CASE i = n BY <2>3, <2>4, <3>1 DEF p
    <3>2. CASE i # n
      <4>1. i < n BY <1>1, <2>5, <3>2, ExpectedIs
      <4>2. PlaceOf(i) \in DOMAIN ps /\ ps[PlaceOf(i)] = Posted(i) BY <4>1 DEF PostedBefore
      <4> QED BY <2>3, <4>2 DEF p
    <3> QED BY <3>1, <3>2
  <2>6. ASSUME NEW j \in DOMAIN qs
        PROVE  \E i \in ExpectedRows : i < n + 1 /\ PlaceOf(i) = j
    <3>1. j \in 1 .. Len(ps) + 1 BY <2>3 DEF p
    <3>2. CASE j = Len(ps) + 1 BY <1>1, <1>6, <2>4, <3>2
    <3>3. CASE j # Len(ps) + 1
      <4>1. j \in DOMAIN ps BY <2>3, <3>1, <3>3
      <4>2. PICK i \in ExpectedRows : i < n /\ PlaceOf(i) = j BY <4>1 DEF PostedBefore
      <4>3. i < n + 1 BY <1>1, <4>2, ExpectedIs
      <4> QED BY <4>2, <4>3
    <3> QED BY <3>2, <3>3
  <2>7. qs \in Seq(Rec) /\ Len(qs) = SlotOf(CntAt(n + 1)) BY <1>4, <2>1, <2>3 DEF p
  <2> HIDE DEF qs
  <2> QED BY <2>5, <2>6, <2>7 DEF PostedBefore
<1> QED BY <1>5, <1>6

\* Before the first row nothing is posted.
LEMMA NothingPosted == Ctx => PostedBefore(<<>>, 1)
<1> SUFFICES ASSUME Ctx PROVE PostedBefore(<<>>, 1) OBVIOUS
<1>1. CntAt(1) = NoCnt
  <2>1. 1 \in 1 .. 27 OBVIOUS
  <2> QED BY <2>1, CntInTypes
<1>2. SlotOf(CntAt(1)) = 0 BY <1>1 DEF SlotOf, NoCnt
<1>3. \A i \in ExpectedRows : ~(i < 1) BY ExpectedIs
<1> QED BY <1>2, <1>3 DEF PostedBefore

LEMMA InitInv == Init => LayoutInv
<1> SUFFICES ASSUME Init PROVE LayoutInv OBVIOUS
<1>1. /\ [tp |-> tp, nx |-> nx] \in Shapes /\ ph \in Phases /\ path \in Paths /\ me \in Rank
      /\ k = 1 /\ cnt = NoCnt /\ posts = <<>> /\ buf = <<>>
      /\ step = (IF path = "direct" THEN "send" ELSE "post") /\ todo \subseteq Rank
  <2>1. PICK s \in Shapes : tp = s.tp /\ nx = s.nx BY DEF Init
  <2>2. s \in [tp : Nat \ {0}, nx : Nat \ {0}] BY LayoutAssumption
  <2>3. s = [tp |-> tp, nx |-> nx] BY <2>1, <2>2
  <2> QED BY <2>1, <2>3 DEF Init
<1>2. 1 \in 1 .. 27 /\ 1 \in Rows BY RowCount
<1>3. CntAt(1) = NoCnt /\ NoCnt \in [{"p", "e", "c"} -> 0 .. 12] BY <1>2, CntInTypes
<1>4. DOMAIN posts = {} /\ DOMAIN buf = {} BY <1>1
<1>5. TypeOK BY <1>1, <1>3, <1>4 DEF TypeOK
<1>6. path = "direct" => posts = <<>> /\ step # "post" BY <1>1
<1>7. path # "direct" => PostedBefore(posts, Passed)
  <2>1. path # "direct" => Passed = 1 BY <1>1 DEF Passed
  <2> QED BY <1>1, <1>5, <2>1, Context, NothingPosted
<1> QED BY <1>1, <1>2, <1>3, <1>5, <1>6, <1>7 DEF LayoutInv

\* The walk of a list: its row, and the counters before that row.
LEMMA WalkStep ==
  ASSUME Ctx, k \in Rows, cnt = CntAt(k), inputs' = inputs,
         NEW rows, rows[k] = CommRecvRows[k], NEW next, Walk(rows, next)
  PROVE  /\ k' \in Rows /\ k' \in 1 .. 26 /\ cnt' = CntAt(k') /\ cnt' \in [{"p", "e", "c"} -> 0 .. 12]
         /\ \/ k = NumRows /\ step' = next /\ k' = 1
            \/ k < NumRows /\ step' = step /\ k' = k + 1
<1>1. k \in 1 .. 26 /\ k \in 1 .. NumRows /\ NumRows \in {6, 26} /\ Rows = 1 .. NumRows BY RowCount
<1>2. CASE k = NumRows
  <2>1. step' = next /\ k' = 1 /\ cnt' = NoCnt BY <1>2 DEF Walk, NumRows
  <2>2. 1 \in 1 .. 27 /\ 1 \in Rows BY <1>1
  <2> QED BY <1>1, <1>2, <2>1, <2>2, CntInTypes
<1>3. CASE k # NumRows
  <2>1. step' = step /\ k' = k + 1 /\ cnt' = IF Expects(me, CommRecvRows[k]) THEN Bump(cnt, CommRecvRows[k]) ELSE cnt
    BY <1>3 DEF Walk, NumRows
  <2>2. k < NumRows /\ k + 1 \in Rows /\ k + 1 \in 1 .. 26 /\ k \in 1 .. 27 /\ k + 1 \in 1 .. 27
    <3>1. k \in Int /\ NumRows \in Int /\ 1 <= k /\ k < NumRows /\ NumRows <= 26 BY <1>1, <1>3
    <3>2. k + 1 \in 1 .. NumRows BY <3>1
    <3> QED BY <1>1, <3>1, <3>2
  <2>3. CntAt(k) = CntOf(Expected(me), k) /\ CntAt(k + 1) = CntOf(Expected(me), k + 1) BY <2>2, CntAtIs
  <2>4. k \in Expected(me) <=> Expects(me, CommRecvRows[k]) BY <1>1 DEF Expected
  <2>5. cnt' = CntAt(k + 1) BY <1>1, <2>1, <2>3, <2>4, CntStep
  <2>6. CntAt(k + 1) \in [{"p", "e", "c"} -> 0 .. 12] BY <2>2, CntInTypes
  <2> QED BY <2>1, <2>2, <2>5, <2>6
<1> QED BY <1>2, <1>3

LEMMA PostInv == LayoutInv /\ Post => LayoutInv'
<1> SUFFICES ASSUME LayoutInv, Post PROVE LayoutInv' OBVIOUS
<1>1. /\ inputs' = inputs /\ step = "post" /\ todo' = todo /\ buf' = buf /\ path # "direct"
      /\ k \in Rows /\ cnt = CntAt(k) /\ PostedBefore(posts, k) /\ TypeOK
      /\ Walk(CommRecvRows, "send")
  BY DEF Post, LayoutInv, Passed
<1>2. Ctx /\ me \in Rank BY <1>1, Context
<1>3. k \in 1 .. 26 /\ (k \in ExpectedRows <=> Expects(me, CommRecvRows[k]))
  BY <1>1, RowCount DEF ExpectedRows
<1>4. FromRank = me + Delta(CommRecvRows[k]) BY <1>2, <1>3, DeltaTable DEF FromRank, Ctx
<1>5. posts' = IF k \in ExpectedRows THEN Append(posts, Posted(k)) ELSE posts
  BY <1>1, <1>3, <1>4 DEF Post, Posted
<1>6. PostedBefore(posts', k + 1) BY <1>1, <1>2, <1>5, PostOne
<1>7. /\ k' \in Rows /\ k' \in 1 .. 26 /\ cnt' = CntAt(k') /\ cnt' \in [{"p", "e", "c"} -> 0 .. 12]
      /\ \/ k = NumRows /\ step' = "send" /\ k' = 1
         \/ k < NumRows /\ step' = step /\ k' = k + 1
  BY <1>1, <1>2, WalkStep
<1>8. Passed' = k + 1
  <2>1. Rows' = Rows BY <1>1, Frozen
  <2> QED BY <1>1, <1>7, <2>1 DEF Passed, NumRows
<1>9. TypeOK'
  <2>1. \A j \in DOMAIN posts' : posts'[j].from \in Rank /\ posts'[j].slot \in 0 .. 25
    BY <1>2, <1>6, PostsTyped
  <2>2. step' \in {"post", "send", "unpack", "done"} BY <1>1, <1>7
  <2> QED BY <1>1, <1>7, <2>1, <2>2, Frozen DEF TypeOK
<1>10. PostedBefore(posts, Passed)' BY <1>1, <1>6, <1>8, Frozen
<1>11. (cnt = CntAt(k))' BY <1>1, <1>7, Frozen
<1>12. (k \in Rows)' /\ (step' \in {"send", "done"} => k' = 1) BY <1>1, <1>7, Frozen
<1>13. path' # "direct" BY <1>1, Frozen
<1> QED BY <1>9, <1>10, <1>11, <1>12, <1>13 DEF LayoutInv

LEMMA UnpackInv == LayoutInv /\ Unpack => LayoutInv'
<1> SUFFICES ASSUME LayoutInv, Unpack PROVE LayoutInv' OBVIOUS
<1>1. /\ inputs' = inputs /\ step = "unpack" /\ posts' = posts /\ todo' = todo /\ buf' = buf
      /\ k \in Rows /\ cnt = CntAt(k) /\ TypeOK /\ Walk(UnpackRows, "done")
      /\ IF path = "direct" THEN posts = <<>> ELSE PostedBefore(posts, NumRows + 1)
  BY DEF Unpack, LayoutInv, Passed, NumRows
<1>2. Ctx /\ me \in Rank BY <1>1, Context
<1>3. UnpackRows[k] = CommRecvRows[k] BY <1>1, <1>2, AsUnpackRows DEF Ctx
<1>4. /\ k' \in Rows /\ k' \in 1 .. 26 /\ cnt' = CntAt(k') /\ cnt' \in [{"p", "e", "c"} -> 0 .. 12]
      /\ \/ k = NumRows /\ step' = "done" /\ k' = 1
         \/ k < NumRows /\ step' = step /\ k' = k + 1
  BY <1>1, <1>2, <1>3, WalkStep
<1>5. Passed' = NumRows + 1
  <2>1. Rows' = Rows BY <1>1, Frozen
  <2> QED BY <1>1, <1>4, <2>1 DEF Passed, NumRows
<1>6. TypeOK' BY <1>1, <1>4, Frozen DEF TypeOK
<1>7. IF path' = "direct" THEN posts' = <<>> ELSE PostedBefore(posts, Passed)' BY <1>1, <1>5, Frozen
<1>8. (cnt = CntAt(k))' BY <1>1, <1>4, Frozen
<1>9. (k \in Rows)' /\ (step' \in {"send", "done"} => k' = 1) /\ step' # "post" BY <1>1, <1>4, Frozen
<1> QED BY <1>6, <1>7, <1>8, <1>9 DEF LayoutInv

LEMMA ArrivedInv == LayoutInv /\ Arrived => LayoutInv'
<1> SUFFICES ASSUME LayoutInv, Arrived PROVE LayoutInv' OBVIOUS
<1>1. /\ inputs' = inputs /\ step = "send" /\ step' \in {"unpack", "done"} /\ k' = k /\ k = 1 /\ cnt' = cnt
      /\ posts' = posts /\ todo' = todo /\ buf' = buf /\ k \in Rows /\ cnt = CntAt(k) /\ TypeOK
      /\ IF path = "direct" THEN posts = <<>> ELSE PostedBefore(posts, NumRows + 1)
  BY DEF Arrived, LayoutInv, Passed, NumRows
<1>2. Passed' = NumRows + 1
  <2>1. Rows' = Rows BY <1>1, Frozen
  <2> QED BY <1>1, <2>1 DEF Passed, NumRows
<1>3. TypeOK' BY <1>1, Frozen DEF TypeOK
<1>4. IF path' = "direct" THEN posts' = <<>> ELSE PostedBefore(posts, Passed)' BY <1>1, <1>2, Frozen
<1>5. (cnt = CntAt(k))' /\ (k \in Rows)' BY <1>1, Frozen
<1> QED BY <1>1, <1>3, <1>4, <1>5 DEF LayoutInv

LEMMA SenderIsThere == ASSUME todo \subseteq Rank, todo # {} PROVE Sender \in todo
<1> DEFINE R == {ss \in Nat \X Nat : ss[1] < ss[2]}
<1>1. todo \subseteq Nat BY DEF Rank
<1>2. IsWellFoundedOn(R, Nat) BY NatLessThanWellFounded, Zenon DEF OpToRel
<1> HIDE DEF R
<1>3. PICK q \in todo : \A p \in todo : ~ (<<p, q>> \in R) BY <1>1, <1>2, WFMin
<1>4. ASSUME NEW p \in todo PROVE q <= p
  <2>1. p \in Nat /\ q \in Nat /\ <<p, q>> \notin R BY <1>1, <1>3
  <2>2. <<p, q>> \in Nat \X Nat /\ <<p, q>>[1] = p /\ <<p, q>>[2] = q BY <2>1
  <2>3. ~(p < q) BY <2>1, <2>2 DEF R
  <2> QED BY <2>1, <2>3
<1> QED BY <1>4 DEF Sender

LEMMA SendInv == LayoutInv /\ (\E i \in 1 .. 26 : Send(i)) => LayoutInv'
<1> SUFFICES ASSUME LayoutInv, NEW i \in 1 .. 26, Send(i) PROVE LayoutInv' OBVIOUS
<1>1. /\ inputs' = inputs /\ step = "send" /\ step' = step /\ k' = k /\ k = 1 /\ cnt' = cnt
      /\ posts' = posts /\ todo # {} /\ todo' \subseteq todo /\ k \in Rows /\ cnt = CntAt(k) /\ TypeOK
      /\ IF path = "direct" THEN posts = <<>> ELSE PostedBefore(posts, NumRows + 1)
  BY DEF Send, LayoutInv, Passed, NumRows
<1>2. Sender \in Rank BY <1>1, SenderIsThere DEF TypeOK
<1>3. \A a \in DOMAIN buf' : buf'[a].from \in Rank
  <2>1. CASE DirectFields
    <3>1. buf' = buf BY <2>1 DEF Send
    <3> QED BY <1>1, <3>1 DEF TypeOK
  <2>2. CASE ~DirectFields
    <3> DEFINE q == Sender  val(w) == [field |-> FieldOf(i, w), from |-> q, node |-> Idx(i, CellOf(i, w))]
    <3>1. buf' = [a \in Written(q, i) \cup DOMAIN buf |->
                    IF a \in Written(q, i) THEN val(a - Base(q, i)) ELSE buf[a]]
      BY <2>2 DEF Send
    <3>2. \A w : val(w).from = q OBVIOUS
    <3> HIDE DEF val, q
    <3>3. \A a \in DOMAIN buf' : buf'[a] = IF a \in Written(q, i) THEN val(a - Base(q, i)) ELSE buf[a]
      BY <3>1
    <3>4. DOMAIN buf' = Written(q, i) \cup DOMAIN buf BY <3>1
    <3> QED BY <1>1, <1>2, <3>2, <3>3, <3>4 DEF TypeOK, q
  <2> QED BY <2>1, <2>2
<1>4. Passed' = NumRows + 1
  <2>1. Rows' = Rows BY <1>1, Frozen
  <2> QED BY <1>1, <2>1 DEF Passed, NumRows
<1>5. TypeOK' BY <1>1, <1>3, Frozen DEF TypeOK
<1>6. IF path' = "direct" THEN posts' = <<>> ELSE PostedBefore(posts, Passed)' BY <1>1, <1>4, Frozen
<1>7. (cnt = CntAt(k))' /\ (k \in Rows)' BY <1>1, Frozen
<1> QED BY <1>1, <1>5, <1>6, <1>7 DEF LayoutInv

LEMMA StutterInv == LayoutInv /\ UNCHANGED vars => LayoutInv'
<1> SUFFICES ASSUME LayoutInv, UNCHANGED vars PROVE LayoutInv' OBVIOUS
<1>1. /\ inputs' = inputs /\ step' = step /\ k' = k /\ cnt' = cnt /\ posts' = posts /\ todo' = todo /\ buf' = buf
  BY DEF vars
<1>2. Rows' = Rows BY <1>1, Frozen
<1>3. Passed' = Passed BY <1>1, <1>2 DEF Passed
<1>4. TypeOK' BY <1>1, Frozen DEF TypeOK, LayoutInv
<1>5. (cnt = CntAt(k))' /\ (k \in Rows)' BY <1>1, Frozen DEF LayoutInv
<1>6. IF path' = "direct" THEN posts' = <<>> /\ step' # "post" ELSE PostedBefore(posts, Passed)'
  BY <1>1, <1>3, Frozen DEF LayoutInv
<1> QED BY <1>1, <1>4, <1>5, <1>6 DEF LayoutInv

\* Whatever the number of ranks per side and of elements per rank, in every
\* exchange and on every path, the counters of a walk and the receives posted
\* are those of the rows it has passed.
THEOREM LayoutInvariant == Spec => []LayoutInv
<1>1. Init => LayoutInv BY InitInv
<1>2. LayoutInv /\ [Next]_vars => LayoutInv'
  <2> SUFFICES ASSUME LayoutInv, [Next]_vars PROVE LayoutInv' OBVIOUS
  <2>1. CASE Post BY <2>1, PostInv
  <2>2. CASE \E i \in 1 .. 26 : Send(i) BY <2>2, SendInv
  <2>3. CASE Arrived BY <2>3, ArrivedInv
  <2>4. CASE Unpack BY <2>4, UnpackInv
  <2>5. CASE Terminated BY <2>5, StutterInv DEF Terminated
  <2>6. CASE UNCHANGED vars BY <2>6, StutterInv
  <2> QED BY <2>1, <2>2, <2>3, <2>4, <2>5, <2>6 DEF Next
<1> QED BY <1>1, <1>2, PTL DEF Spec

-----------------------------------------------------------------------------
(* What the invariant says of the receives.                                *)

LEMMA AllPosted ==
  ASSUME LayoutInv, path # "direct", step # "post"
  PROVE  /\ \A i \in ExpectedRows : PlaceOf(i) \in DOMAIN posts /\ posts[PlaceOf(i)] = Posted(i)
         /\ \A j \in DOMAIN posts : \E i \in ExpectedRows : PlaceOf(i) = j /\ posts[j] = Posted(i)
<1>1. PostedBefore(posts, NumRows + 1) BY DEF LayoutInv, Passed, NumRows
<1>2. ASSUME NEW i \in ExpectedRows PROVE i < NumRows + 1
  <2>1. i \in 1 .. NumRows /\ NumRows \in {6, 26} BY RowCount, ExpectedIs
  <2> QED BY <2>1
<1> QED BY <1>1, <1>2 DEF PostedBefore

\* Every receive is that of an expected row.
LEMMA OfRows ==
  ASSUME LayoutInv, NEW j \in DOMAIN posts
  PROVE  \E i \in ExpectedRows : PlaceOf(i) = j /\ posts[j] = Posted(i)
<1>1. path # "direct" BY DEF LayoutInv
<1>2. PostedBefore(posts, Passed) BY <1>1 DEF LayoutInv
<1>3. PICK i \in ExpectedRows : i < Passed /\ PlaceOf(i) = j BY <1>2 DEF PostedBefore
<1> QED BY <1>2, <1>3 DEF PostedBefore

LEMMA WaitHolds == LayoutInv => WaitCoversRead
<1> SUFFICES ASSUME LayoutInv, step = "unpack", path # "direct", Expects(me, UnpackRows[k])
             PROVE  \E j \in DOMAIN posts : /\ posts[j].slot = SlotOf(cnt) /\ posts[j].offset = Offset(cnt)
                                            /\ posts[j].from = me + Delta(UnpackRows[k])
  BY DEF WaitCoversRead
<1>1. k \in Rows /\ cnt = CntAt(k) /\ TypeOK BY DEF LayoutInv
<1>2. UnpackRows[k] = CommRecvRows[k] BY <1>1, Context, AsUnpackRows DEF Ctx
<1>3. k \in ExpectedRows BY <1>1, <1>2 DEF ExpectedRows
<1>4. PlaceOf(k) \in DOMAIN posts /\ posts[PlaceOf(k)] = Posted(k) BY <1>3, AllPosted
<1> QED BY <1>1, <1>2, <1>4 DEF Posted

LEMMA PutsHold == LayoutInv => PutsMatchPosts
<1> SUFFICES ASSUME LayoutInv, step = "send", path # "direct"
             PROVE  /\ \A q \in Rank : \A i \in Sends(q) : SendRank(q, i) = me =>
                         Cardinality({j \in DOMAIN posts :
                            /\ posts[j].from = q
                            /\ posts[j].count = xferFields * Count(CommSendRows[i])
                            /\ posts[j].offset = shmRecvOffset(me, SenderPos(i))}) = 1
                    /\ \A j \in DOMAIN posts : \E i \in Sends(posts[j].from) : SendRank(posts[j].from, i) = me
  BY DEF PutsMatchPosts
<1>1. Ctx /\ me \in Rank BY Context DEF LayoutInv
<1>2. ASSUME NEW q \in Rank, NEW i \in Sends(q), SendRank(q, i) = me
      PROVE  Cardinality({j \in DOMAIN posts :
                /\ posts[j].from = q
                /\ posts[j].count = xferFields * Count(CommSendRows[i])
                /\ posts[j].offset = shmRecvOffset(me, SenderPos(i))}) = 1
  <2> DEFINE m == Mirror(i)
             S == {j \in DOMAIN posts : /\ posts[j].from = q
                                        /\ posts[j].count = xferFields * Count(CommSendRows[i])
                                        /\ posts[j].offset = shmRecvOffset(me, SenderPos(i))}
  <2>1. /\ m \in ExpectedRows /\ me + Delta(CommRecvRows[m]) = q
        /\ xferFields * Count(CommSendRows[i]) = Length(m) /\ SenderPos(i) = CommRecvRows[m]
    BY <1>1, <1>2, SentIsExpected
  <2>2. shmRecvOffset(me, SenderPos(i)) = Offset(CntAt(m))
    <3>1. m \in Rows /\ m \in 1 .. 27 /\ Expects(me, CommRecvRows[m])
      BY <2>1, ExpectedIs DEF ExpectedRows
    <3> QED BY <1>1, <2>1, <3>1, ShmOffset, CntAtIs
  <2>3. PlaceOf(m) \in DOMAIN posts /\ posts[PlaceOf(m)] = Posted(m) BY <2>1, AllPosted
  <2>4. PlaceOf(m) \in S BY <2>1, <2>2, <2>3 DEF Posted, Length
  <2>5. ASSUME NEW j \in S PROVE j = PlaceOf(m)
    <3>1. j \in DOMAIN posts /\ posts[j].from = q OBVIOUS
    <3>2. PICK n \in ExpectedRows : PlaceOf(n) = j /\ posts[j] = Posted(n) BY <3>1, AllPosted
    <3>3. me + Delta(CommRecvRows[n]) = q BY <3>1, <3>2 DEF Posted
    <3>4. n = m BY <1>1, <2>1, <3>3, OneRowPerRank
    <3> QED BY <3>2, <3>4
  <2> HIDE DEF S
  <2>6. S = {PlaceOf(m)} BY <2>4, <2>5
  <2>7. Cardinality(S) = 1 BY <2>6, Cards
  <2> QED BY <2>7 DEF S
<1>3. ASSUME NEW j \in DOMAIN posts
      PROVE  \E i \in Sends(posts[j].from) : SendRank(posts[j].from, i) = me
  <2>1. PICK n \in ExpectedRows : PlaceOf(n) = j /\ posts[j] = Posted(n) BY AllPosted
  <2>2. posts[j].from = me + Delta(CommRecvRows[n]) BY <2>1 DEF Posted
  <2> QED BY <1>1, <2>2, ExpectedIsSent
<1> QED BY <1>2, <1>3

LEMMA NoOverlap ==
  ASSUME NEW a \in Nat, NEW n \in Nat, NEW b \in Nat, NEW m \in Nat, a + n <= b
  PROVE  ~Overlap(a, n, b, m) /\ ~Overlap(b, m, a, n)
BY DEF Overlap

LEMMA PostsFit ==
  ASSUME LayoutInv, NEW j \in DOMAIN posts
  PROVE  /\ posts[j].offset + posts[j].count <= comBufSize(me)
         /\ \A l \in DOMAIN posts : l # j =>
              /\ ~Overlap(posts[j].offset, posts[j].count, posts[l].offset, posts[l].count)
              /\ posts[j].slot # posts[l].slot
<1>1. Ctx /\ me \in Rank BY Context DEF LayoutInv
<1>2. PICK i \in ExpectedRows : PlaceOf(i) = j /\ posts[j] = Posted(i) BY OfRows
<1>3. i \in 1 .. 26 /\ Length(i) \in Nat /\ posts[j].offset = Offset(CntAt(i)) /\ posts[j].count = Length(i)
      /\ posts[j].slot = SlotOf(CntAt(i))
  BY <1>1, <1>2, ExpectedIs, Lengths DEF Posted, Length
<1>4. Offset(CntAt(i)) + Length(i) <= comBufSize(me)
  <2>1. 27 \in 1 .. 27 /\ i < 27 BY <1>3
  <2>2. /\ Offset(CntAt(i)) + Length(i) <= Offset(CntAt(27)) /\ Offset(CntAt(i)) \in Nat
        /\ Offset(CntAt(27)) \in Nat
    BY <1>1, <2>1, RowsInOrder
  <2>3. CntAt(27) = CntOf(Expected(me), 27) BY <2>1, CntAtIs
  <2>4. Offset(CntAt(27)) <= comBufSize(me) /\ comBufSize(me) \in Nat
    <3>1. \A n \in Expected(me) \cap (1 .. 26) : HasNbr(me, CommRecvRows[n]) BY ExpectedIs
    <3> QED BY <1>1, <2>3, <3>1, WalkFits
  <2> QED BY <1>3, <2>2, <2>4
<1>5. ASSUME NEW l \in DOMAIN posts, l # j
      PROVE  /\ ~Overlap(posts[j].offset, posts[j].count, posts[l].offset, posts[l].count)
             /\ posts[j].slot # posts[l].slot
  <2>1. PICK n \in ExpectedRows : PlaceOf(n) = l /\ posts[l] = Posted(n) BY OfRows
  <2>2. n \in 1 .. 26 /\ n \in 1 .. 27 /\ i \in 1 .. 27 /\ Length(n) \in Nat /\ posts[l].offset = Offset(CntAt(n))
        /\ posts[l].count = Length(n) /\ posts[l].slot = SlotOf(CntAt(n))
    BY <1>1, <1>3, <2>1, ExpectedIs, Lengths DEF Posted, Length
  <2>3. i # n BY <1>2, <2>1, <1>5
  <2>4. CASE i < n
    <3>1. /\ Offset(CntAt(i)) + Length(i) <= Offset(CntAt(n)) /\ SlotOf(CntAt(i)) + 1 <= SlotOf(CntAt(n))
          /\ Offset(CntAt(i)) \in Nat /\ SlotOf(CntAt(i)) \in Nat
          /\ Offset(CntAt(n)) \in Nat /\ SlotOf(CntAt(n)) \in Nat
      BY <1>1, <2>2, <2>4, RowsInOrder
    <3> QED BY <1>3, <2>2, <3>1, NoOverlap
  <2>5. CASE n < i
    <3>1. /\ Offset(CntAt(n)) + Length(n) <= Offset(CntAt(i)) /\ SlotOf(CntAt(n)) + 1 <= SlotOf(CntAt(i))
          /\ Offset(CntAt(i)) \in Nat /\ SlotOf(CntAt(i)) \in Nat
          /\ Offset(CntAt(n)) \in Nat /\ SlotOf(CntAt(n)) \in Nat
      BY <1>1, <2>2, <2>5, RowsInOrder
    <3> QED BY <1>3, <2>2, <3>1, NoOverlap
  <2> QED BY <1>3, <2>2, <2>3, <2>4, <2>5
<1> QED BY <1>3, <1>4, <1>5

LEMMA PacksFit ==
  ASSUME Ctx, NEW i \in Sends(me)
  PROVE  LET n == xferFields * Count(CommSendRows[i]) IN
         /\ PackOffset(me, i) + n <= comBufSize(me)
         /\ \A l \in Sends(me) : l # i =>
              ~Overlap(PackOffset(me, i), n, PackOffset(me, l), xferFields * Count(CommSendRows[l]))
<1> DEFINE T == Sent(me)  at(j) == Offset(CntOf(T, j))
<1>1. ASSUME NEW j \in Sends(me)
      PROVE  /\ j \in T \cap (1 .. 26) /\ j \in 1 .. 27 /\ PackOffset(me, j) = at(j)
             /\ xferFields * Count(CommSendRows[j]) = Length(j) /\ Length(j) \in Nat
  <2>1. j \in 1 .. 26 /\ SendsTo(me, CommRecvRows[j]) BY RowCount, AsSendRows DEF Sends
  <2> QED BY <2>1, AsSendRows, PackIs, Lengths DEF Sent, Length
<1>2. at(i) + Length(i) <= comBufSize(me)
  <2>1. 27 \in 1 .. 27 /\ i < 27 BY <1>1
  <2>2. at(i) + Length(i) <= at(27) /\ at(i) \in Nat /\ at(27) \in Nat BY <1>1, <2>1, InOrder
  <2>3. \A n \in T \cap (1 .. 26) : HasNbr(me, CommRecvRows[n]) BY DEF Sent, SendsTo
  <2>4. at(27) <= comBufSize(me) /\ comBufSize(me) \in Nat BY <2>3, WalkFits
  <2> QED BY <1>1, <2>2, <2>4
<1>3. ASSUME NEW l \in Sends(me), l # i
      PROVE  ~Overlap(at(i), Length(i), at(l), Length(l))
  <2>1. CASE i < l
    <3>1. at(i) + Length(i) <= at(l) /\ at(i) \in Nat /\ at(l) \in Nat BY <1>1, <2>1, InOrder
    <3> QED BY <1>1, <3>1, NoOverlap
  <2>2. CASE l < i
    <3>1. at(l) + Length(l) <= at(i) /\ at(i) \in Nat /\ at(l) \in Nat BY <1>1, <2>2, InOrder
    <3> QED BY <1>1, <3>1, NoOverlap
  <2> QED BY <1>1, <1>3, <2>1, <2>2
<1> HIDE DEF at
<1> QED BY <1>1, <1>2, <1>3

\* What is posted and what is packed fits.
LEMMA FitHolds == LayoutInv => BuffersFit
<1> SUFFICES ASSUME LayoutInv PROVE BuffersFit OBVIOUS
<1>1. Ctx BY Context DEF LayoutInv
<1> QED BY <1>1, PostsFit, PacksFit DEF BuffersFit

\* The values of the variables, the 26 requests among them (CommRecv).
THEOREM LayoutTyped == Spec => []TypeOK
<1>1. LayoutInv => TypeOK BY DEF LayoutInv
<1> QED BY <1>1, LayoutInvariant, PTL

\* No two receives, and no two packed messages, overlap or leave the buffer
\* SetupCommBuffers sized for them, whatever the sizes of the mesh.
THEOREM MessagesFit == Spec => []BuffersFit
<1> QED BY FitHolds, LayoutInvariant, PTL

\* Each peer finds exactly one receive for its message, of its length, where
\* shmRecvOffset says, and no receive is left over ("Mirrors the posting order
\* of CommRecv()").
THEOREM PutsAgree == Spec => []PutsMatchPosts
<1> QED BY PutsHold, LayoutInvariant, PTL

\* An unpack waits for the request of the message it reads.
THEOREM WaitsAgree == Spec => []WaitCoversRead
<1> QED BY WaitHolds, LayoutInvariant, PTL
=============================================================================

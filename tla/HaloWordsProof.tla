--------------------------- MODULE HaloWordsProof ---------------------------
(***************************************************************************)
(* Every word of an exchange arrives where it belongs, exactly once, for   *)
(* every number of ranks per side and of elements per rank.                *)
(***************************************************************************)
EXTENDS HaloLayoutProof

-----------------------------------------------------------------------------
(* The places of a message's words.                                        *)

Points == 0 .. dx * dx * dx - 1
At(x, y, z) == x + dx * y + dx * dx * z
CX(n) == n % dx
CY(n) == (n \div dx) % dx
CZ(n) == n \div (dx * dx)

\* Word t of row i lies at the end of each axis its direction leads along, and
\* runs along the others, the lower one first.
End(e) == IF e = -1 THEN 0 ELSE dx - 1
Low(i, t) == IF i \in Faces THEN t % dx ELSE t
High(i, t) == IF i \in Faces THEN t \div dx ELSE t
SX(i, t) == LET d == CommRecvRows[i] IN IF d[1] # 0 THEN End(d[1]) ELSE Low(i, t)
SY(i, t) == LET d == CommRecvRows[i] IN
            IF d[2] # 0 THEN End(d[2]) ELSE IF d[1] # 0 THEN Low(i, t) ELSE High(i, t)
SZ(i, t) == LET d == CommRecvRows[i] IN IF d[3] # 0 THEN End(d[3]) ELSE High(i, t)

\* The words of a row's message within one field.
Cells(i) == 0 .. Count(CommRecvRows[i]) - 1

\* A point is its coordinates.
LEMMA PointAt ==
  ASSUME Ctx, NEW x \in 0 .. dx - 1, NEW y \in 0 .. dx - 1, NEW z \in 0 .. dx - 1
  PROVE  /\ At(x, y, z) \in Points
         /\ CX(At(x, y, z)) = x /\ CY(At(x, y, z)) = y /\ CZ(At(x, y, z)) = z
<1> DEFINE r == x + dx * y + dx * dx * z
<1>1. dx \in Nat \ {0} BY Sizes
<1>2. r \in 0 .. dx * dx * dx - 1 /\ r % dx = x /\ (r \div dx) % dx = y /\ r \div (dx * dx) = z
  BY <1>1, CubePlace, Zenon
<1>3. At(x, y, z) = r BY DEF At
<1> HIDE DEF r
<1> QED BY <1>2, <1>3, Zenon DEF Points, CX, CY, CZ

LEMMA PointCoords ==
  ASSUME Ctx, NEW n \in Points
  PROVE  /\ CX(n) \in 0 .. dx - 1 /\ CY(n) \in 0 .. dx - 1 /\ CZ(n) \in 0 .. dx - 1
         /\ n = At(CX(n), CY(n), CZ(n))
<1>1. dx \in Nat \ {0} BY Sizes
<1> QED BY <1>1, CubeCoords, Zenon DEF At, Points, CX, CY, CZ

LEMMA CellCount ==
  ASSUME NEW i \in 1 .. 26
  PROVE  Count(CommRecvRows[i]) = IF i \in Faces THEN dx * dx ELSE IF i \in Edges THEN dx ELSE 1
<1>1. /\ i \in Faces => i \notin Edges /\ i \notin Corners
      /\ i \in Edges => i \notin Corners
  BY DEF Faces, Edges, Corners
<1> QED BY <1>1, RowClass, RowKinds DEF Count

\* Where the words of a row run.
LEMMA LowHigh ==
  ASSUME Ctx, NEW i \in 1 .. 26, NEW t \in Cells(i)
  PROVE  /\ Low(i, t) \in 0 .. dx - 1 /\ High(i, t) \in 0 .. dx - 1
         /\ i \in Faces => t = dx * High(i, t) + Low(i, t)
         /\ i \in Edges => Low(i, t) = t /\ High(i, t) = t
         /\ i \in Corners => t = 0 /\ Low(i, t) = 0 /\ High(i, t) = 0
<1>1. dx \in Nat \ {0} BY Sizes
<1>2. /\ i \in Faces => i \notin Edges /\ i \notin Corners
      /\ i \in Edges => i \notin Corners
  BY DEF Faces, Edges, Corners
<1>3. t \in Nat /\ t <= Count(CommRecvRows[i]) - 1
  <2>1. Count(CommRecvRows[i]) \in Nat BY <1>1, CellCount
  <2> QED BY <2>1 DEF Cells
<1>4. CASE i \in Faces
  <2> DEFINE h == t \div dx  b == t % dx
  <2>1. t < dx * dx /\ dx * dx \in Nat BY <1>1, <1>3, <1>4, CellCount
  <2>2. h \in Int /\ b \in 0 .. dx - 1 /\ t = dx * h + b BY <1>1, <1>3, DivMod
  <2> HIDE DEF h, b
  <2>3. h \in 0 .. dx - 1
    <3>1. dx * h \in Int BY <1>1, <2>2
    <3>2. ~(h < 0)
      <4> SUFFICES ASSUME h < 0 PROVE FALSE OBVIOUS
      <4>1. dx * h <= dx * (0 - 1) BY <1>1, <2>2, TimesMonotone
      <4>2. dx * (0 - 1) = 0 - dx BY <1>1
      <4> QED BY <1>1, <1>3, <2>2, <3>1, <4>1, <4>2
    <3>3. ~(h > dx - 1)
      <4> SUFFICES ASSUME h > dx - 1 PROVE FALSE OBVIOUS
      <4>1. dx * dx <= dx * h BY <1>1, <2>2, TimesMonotone
      <4> QED BY <1>1, <1>3, <2>1, <2>2, <3>1, <4>1
    <3> QED BY <1>1, <2>2, <3>2, <3>3
  <2>4. Low(i, t) = b /\ High(i, t) = h BY <1>4 DEF Low, High, h, b
  <2> QED BY <1>2, <1>4, <2>2, <2>3, <2>4
<1>5. CASE i \in Edges
  <2>1. t \in 0 .. dx - 1 BY <1>1, <1>2, <1>3, <1>5, CellCount
  <2> QED BY <1>2, <1>5, <2>1 DEF Low, High
<1>6. CASE i \in Corners
  <2>1. t = 0 BY <1>1, <1>2, <1>3, <1>6, CellCount
  <2> QED BY <1>1, <1>2, <1>6, <2>1 DEF Low, High
<1> QED BY <1>4, <1>5, <1>6, RowKinds

\* Word t of row i is at its place.
LEMMA FacePlaces ==
  ASSUME Ctx, NEW i \in Faces, NEW t \in Cells(i)
  PROVE  FaceIdx(i - 1, t) = At(SX(i, t), SY(i, t), SZ(i, t))
<1> DEFINE b == Low(i, t)  a == High(i, t)
<1>1. dx \in Nat \ {0} BY Sizes
<1>2. /\ i \in 1 .. 26 /\ b \in Nat /\ a \in Nat /\ t = dx * a + b
      /\ t \div dx = a /\ t % dx = b
  BY <1>1, LowHigh DEF Faces, Low, High
<1> DEFINE p == dx * dx * (dx - 1)  q == dx * (dx - 1)  u == a * dx * dx  v == b * dx
<1>3. /\ i = 1 => FaceIdx(i - 1, t) = t
      /\ i = 2 => FaceIdx(i - 1, t) = p + t
      /\ i = 3 => FaceIdx(i - 1, t) = u + b
      /\ i = 4 => FaceIdx(i - 1, t) = q + u + b
      /\ i = 5 => FaceIdx(i - 1, t) = u + v
      /\ i = 6 => FaceIdx(i - 1, t) = dx - 1 + u + v
  <2> HIDE DEF a, b
  <2> QED BY <1>1, <1>2 DEF FaceIdx
<1>4. /\ i = 1 => SX(i, t) = b /\ SY(i, t) = a /\ SZ(i, t) = 0
      /\ i = 2 => SX(i, t) = b /\ SY(i, t) = a /\ SZ(i, t) = dx - 1
      /\ i = 3 => SX(i, t) = b /\ SY(i, t) = 0 /\ SZ(i, t) = a
      /\ i = 4 => SX(i, t) = b /\ SY(i, t) = dx - 1 /\ SZ(i, t) = a
      /\ i = 5 => SX(i, t) = 0 /\ SY(i, t) = b /\ SZ(i, t) = a
      /\ i = 6 => SX(i, t) = dx - 1 /\ SY(i, t) = b /\ SZ(i, t) = a
  <2> HIDE DEF a, b
  <2> QED BY FaceEntries DEF SX, SY, SZ, End, a, b
<1> HIDE DEF a, b
<1>5. /\ dx * a \in Nat /\ u = dx * dx * a /\ v = dx * b /\ p = dx * dx * (dx - 1) /\ q = dx * (dx - 1)
      /\ dx * 0 = 0 /\ dx * dx * 0 = 0 /\ u \in Nat /\ v \in Nat /\ p \in Nat /\ q \in Nat
  BY <1>1, <1>2
<1>6. i \in {1, 2, 3, 4, 5, 6} BY DEF Faces
<1> HIDE DEF p, q, u, v
<1>7. /\ At(b, a, 0) = t /\ At(b, a, dx - 1) = p + t /\ At(b, 0, a) = u + b
      /\ At(b, dx - 1, a) = q + u + b /\ At(0, b, a) = u + v /\ At(dx - 1, b, a) = dx - 1 + u + v
  BY <1>1, <1>2, <1>5 DEF At
<1> DEFINE s == At(SX(i, t), SY(i, t), SZ(i, t))
<1>8. /\ i = 1 => s = At(b, a, 0)
      /\ i = 2 => s = At(b, a, dx - 1)
      /\ i = 3 => s = At(b, 0, a)
      /\ i = 4 => s = At(b, dx - 1, a)
      /\ i = 5 => s = At(0, b, a)
      /\ i = 6 => s = At(dx - 1, b, a)
  BY <1>4
<1> HIDE DEF s
<1> DEFINE f == FaceIdx(i - 1, t)
<1> HIDE DEF f
<1>9. /\ i = 1 => f = At(b, a, 0)
      /\ i = 2 => f = At(b, a, dx - 1)
      /\ i = 3 => f = At(b, 0, a)
      /\ i = 4 => f = At(b, dx - 1, a)
      /\ i = 5 => f = At(0, b, a)
      /\ i = 6 => f = At(dx - 1, b, a)
  BY <1>3, <1>7 DEF f
<1>10. f = s BY <1>6, <1>8, <1>9
<1> QED BY <1>10 DEF s, f

LEMMA EdgePlaces ==
  ASSUME Ctx, NEW i \in Edges, NEW t \in Cells(i)
  PROVE  EdgeIdx(i - 7, t) = At(SX(i, t), SY(i, t), SZ(i, t))
<1> DEFINE m == dx - 1  p == dx * dx * m  q == dx * m  u == t * dx * dx  v == t * dx
<1>1. dx \in Nat \ {0} BY Sizes
<1>2. i \in 1 .. 26 /\ t \in Nat /\ Low(i, t) = t /\ High(i, t) = t
  BY <1>1, LowHigh DEF Edges
<1>3. i \in {7, 8, 9, 10, 11, 12} \/ i \in {13, 14, 15, 16, 17, 18} BY DEF Edges
<1>4. /\ i = 7 => SX(i, t) = 0 /\ SY(i, t) = 0 /\ SZ(i, t) = t
      /\ i = 8 => SX(i, t) = t /\ SY(i, t) = 0 /\ SZ(i, t) = 0
      /\ i = 9 => SX(i, t) = 0 /\ SY(i, t) = t /\ SZ(i, t) = 0
      /\ i = 10 => SX(i, t) = m /\ SY(i, t) = m /\ SZ(i, t) = t
      /\ i = 11 => SX(i, t) = t /\ SY(i, t) = m /\ SZ(i, t) = m
      /\ i = 12 => SX(i, t) = m /\ SY(i, t) = t /\ SZ(i, t) = m
  BY <1>2, EdgeEntries DEF SX, SY, SZ, End
<1>5. /\ i = 13 => SX(i, t) = 0 /\ SY(i, t) = m /\ SZ(i, t) = t
      /\ i = 14 => SX(i, t) = t /\ SY(i, t) = 0 /\ SZ(i, t) = m
      /\ i = 15 => SX(i, t) = 0 /\ SY(i, t) = t /\ SZ(i, t) = m
      /\ i = 16 => SX(i, t) = m /\ SY(i, t) = 0 /\ SZ(i, t) = t
      /\ i = 17 => SX(i, t) = t /\ SY(i, t) = m /\ SZ(i, t) = 0
      /\ i = 18 => SX(i, t) = m /\ SY(i, t) = t /\ SZ(i, t) = 0
  BY <1>2, EdgeEntries DEF SX, SY, SZ, End
<1>6. /\ i = 7 => EdgeIdx(i - 7, t) = u
      /\ i = 8 => EdgeIdx(i - 7, t) = t
      /\ i = 9 => EdgeIdx(i - 7, t) = v
      /\ i = 10 => EdgeIdx(i - 7, t) = dx * dx - 1 + u
      /\ i = 11 => EdgeIdx(i - 7, t) = q + p + t
      /\ i = 12 => EdgeIdx(i - 7, t) = p + dx - 1 + v
  BY DEF EdgeIdx
<1>7. /\ i = 13 => EdgeIdx(i - 7, t) = q + u
      /\ i = 14 => EdgeIdx(i - 7, t) = p + t
      /\ i = 15 => EdgeIdx(i - 7, t) = p + v
      /\ i = 16 => EdgeIdx(i - 7, t) = dx - 1 + u
      /\ i = 17 => EdgeIdx(i - 7, t) = q + t
      /\ i = 18 => EdgeIdx(i - 7, t) = dx - 1 + v
  BY DEF EdgeIdx
<1>8. /\ u = dx * dx * t /\ v = dx * t /\ p = dx * dx * m /\ q = dx * m /\ q = dx * dx - dx /\ m = dx - 1
      /\ dx * 0 = 0 /\ dx * dx * 0 = 0 /\ u \in Nat /\ v \in Nat /\ p \in Nat /\ q \in Nat
      /\ dx * dx \in Nat /\ m \in Nat
  BY <1>1, <1>2
<1> HIDE DEF p, q, u, v, m
<1>9. /\ At(0, 0, t) = u /\ At(t, 0, 0) = t /\ At(0, t, 0) = v
      /\ At(m, m, t) = dx * dx - 1 + u /\ At(t, m, m) = q + p + t /\ At(m, t, m) = p + dx - 1 + v
      /\ At(0, m, t) = q + u /\ At(t, 0, m) = p + t /\ At(0, t, m) = p + v
      /\ At(m, 0, t) = dx - 1 + u /\ At(t, m, 0) = q + t /\ At(m, t, 0) = dx - 1 + v
  BY <1>1, <1>2, <1>8 DEF At
<1> DEFINE s == At(SX(i, t), SY(i, t), SZ(i, t))
<1>10. /\ i = 7 => s = At(0, 0, t)
       /\ i = 8 => s = At(t, 0, 0)
       /\ i = 9 => s = At(0, t, 0)
       /\ i = 10 => s = At(m, m, t)
       /\ i = 11 => s = At(t, m, m)
       /\ i = 12 => s = At(m, t, m)
  BY <1>4
<1>11. /\ i = 13 => s = At(0, m, t)
       /\ i = 14 => s = At(t, 0, m)
       /\ i = 15 => s = At(0, t, m)
       /\ i = 16 => s = At(m, 0, t)
       /\ i = 17 => s = At(t, m, 0)
       /\ i = 18 => s = At(m, t, 0)
  BY <1>5
<1> HIDE DEF s
<1> DEFINE f == EdgeIdx(i - 7, t)
<1> HIDE DEF f
<1>12. /\ i = 7 => f = At(0, 0, t)
       /\ i = 8 => f = At(t, 0, 0)
       /\ i = 9 => f = At(0, t, 0)
       /\ i = 10 => f = At(m, m, t)
       /\ i = 11 => f = At(t, m, m)
       /\ i = 12 => f = At(m, t, m)
  BY <1>6, <1>9 DEF f
<1>13. /\ i = 13 => f = At(0, m, t)
       /\ i = 14 => f = At(t, 0, m)
       /\ i = 15 => f = At(0, t, m)
       /\ i = 16 => f = At(m, 0, t)
       /\ i = 17 => f = At(t, m, 0)
       /\ i = 18 => f = At(m, t, 0)
  BY <1>7, <1>9 DEF f
<1>14. f = s BY <1>3, <1>10, <1>11, <1>12, <1>13
<1> QED BY <1>14 DEF s, f

LEMMA CornerPlaces ==
  ASSUME Ctx, NEW i \in Corners, NEW t \in Cells(i)
  PROVE  srcIdx[i - 18] = At(SX(i, t), SY(i, t), SZ(i, t))
<1> DEFINE m == dx - 1  p == dx * dx * m  q == dx * m
<1>1. dx \in Nat \ {0} BY Sizes
<1>2. i \in {19, 20, 21, 22, 23, 24, 25, 26} BY DEF Corners
<1>3. /\ i = 19 => SX(i, t) = 0 /\ SY(i, t) = 0 /\ SZ(i, t) = 0
      /\ i = 20 => SX(i, t) = 0 /\ SY(i, t) = 0 /\ SZ(i, t) = m
      /\ i = 21 => SX(i, t) = m /\ SY(i, t) = 0 /\ SZ(i, t) = 0
      /\ i = 22 => SX(i, t) = m /\ SY(i, t) = 0 /\ SZ(i, t) = m
      /\ i = 23 => SX(i, t) = 0 /\ SY(i, t) = m /\ SZ(i, t) = 0
      /\ i = 24 => SX(i, t) = 0 /\ SY(i, t) = m /\ SZ(i, t) = m
      /\ i = 25 => SX(i, t) = m /\ SY(i, t) = m /\ SZ(i, t) = 0
      /\ i = 26 => SX(i, t) = m /\ SY(i, t) = m /\ SZ(i, t) = m
  BY CornerEntries DEF SX, SY, SZ, End
<1>4. /\ srcIdx[1] = 0 /\ srcIdx[2] = p /\ srcIdx[3] = m /\ srcIdx[4] = p + dx - 1
      /\ srcIdx[5] = q /\ srcIdx[6] = p + q /\ srcIdx[7] = dx * dx - 1 /\ srcIdx[8] = dx * dx * dx - 1
  BY DEF srcIdx
<1>5. /\ q = dx * dx - dx /\ p = dx * dx * dx - dx * dx /\ m = dx - 1
      /\ p = dx * dx * m /\ q = dx * m /\ dx * 0 = 0 /\ dx * dx * 0 = 0
      /\ p \in Nat /\ q \in Nat /\ m \in Nat /\ dx * dx \in Nat /\ dx * dx * dx \in Nat
  BY <1>1
<1> HIDE DEF p, q, m
<1>6. /\ At(0, 0, 0) = 0 /\ At(0, 0, m) = p /\ At(m, 0, 0) = m /\ At(m, 0, m) = m + p
      /\ At(0, m, 0) = q /\ At(0, m, m) = q + p /\ At(m, m, 0) = m + q /\ At(m, m, m) = m + q + p
  BY <1>5 DEF At
<1> QED BY <1>1, <1>2, <1>3, <1>4, <1>5, <1>6

\* The index maps by place.
LEMMA Places ==
  ASSUME Ctx, NEW i \in 1 .. 26, NEW t \in Cells(i)
  PROVE  Idx(i, t) = At(SX(i, t), SY(i, t), SZ(i, t))
<1>1. /\ i \in Faces => Idx(i, t) = FaceIdx(i - 1, t)
      /\ i \in Edges => Idx(i, t) = EdgeIdx(i - 7, t)
      /\ i \in Corners => Idx(i, t) = srcIdx[i - 18]
  BY DEF Idx, Faces, Edges, Corners
<1> QED BY <1>1, RowKinds, FacePlaces, EdgePlaces, CornerPlaces

\* The place a direct send writes to is the place of the receiver's row.
LEMMA MirrorIdxIs ==
  ASSUME Ctx, NEW i \in 1 .. 26, NEW t
  PROVE  MirrorIdx(i, t) = Idx(Mirror(i), t)
<1>1. Mirror(i) \in 1 .. 26 /\ (i \in Faces <=> Mirror(i) \in Faces) /\ (i \in Edges <=> Mirror(i) \in Edges)
      /\ (i \in Corners <=> Mirror(i) \in Corners)
  BY Mirrored
<1>2. CASE i \in Faces
  <2>1. MirrorIdx(i, t) = FaceIdx(FaceRT[i], t) BY <1>2 DEF MirrorIdx, Faces
  <2>2. Idx(Mirror(i), t) = FaceIdx(Mirror(i) - 1, t) BY <1>1, <1>2 DEF Idx, Faces
  <2>3. FaceRT[i] = Mirror(i) - 1 BY <1>2 DEF FaceRT, Mirror, Faces
  <2> QED BY <2>1, <2>2, <2>3
<1>3. CASE i \in Edges
  <2>1. MirrorIdx(i, t) = EdgeIdx(EdgeRT[i - 6], t) BY <1>3 DEF MirrorIdx, Edges
  <2>2. Idx(Mirror(i), t) = EdgeIdx(Mirror(i) - 7, t) BY <1>1, <1>3 DEF Idx, Edges
  <2>3. i \in {7, 8, 9, 10, 11, 12} \/ i \in {13, 14, 15, 16, 17, 18} BY <1>3 DEF Edges
  <2>4. EdgeRT[i - 6] = Mirror(i) - 7 BY <2>3 DEF EdgeRT, Mirror
  <2> QED BY <2>1, <2>2, <2>4
<1>4. CASE i \in Corners
  <2>1. MirrorIdx(i, t) = dstIdx[i - 18] BY <1>4 DEF MirrorIdx, Corners
  <2>2. Idx(Mirror(i), t) = srcIdx[Mirror(i) - 18] BY <1>1, <1>4 DEF Idx, Corners
  <2>3. i \in {19, 20, 21, 22, 23, 24, 25, 26} BY <1>4 DEF Corners
  <2>4. Mirror(i) - 18 = 27 - i /\ 27 - i = 9 - (i - 18) BY <2>3 DEF Mirror
  <2>5. \A j \in {1, 2, 3, 4, 5, 6, 7, 8} : dstIdx[j] = srcIdx[9 - j]
    <3> DEFINE m == dx - 1  p == dx * dx * m  q == dx * m
    <3>1. dx \in Nat \ {0} BY Sizes
    <3>2. /\ srcIdx[1] = 0 /\ srcIdx[2] = p /\ srcIdx[3] = m /\ srcIdx[4] = p + dx - 1
          /\ srcIdx[5] = q /\ srcIdx[6] = p + q /\ srcIdx[7] = dx * dx - 1 /\ srcIdx[8] = dx * dx * dx - 1
      BY DEF srcIdx
    <3>3. /\ dstIdx[8] = 0 /\ dstIdx[7] = p /\ dstIdx[6] = m /\ dstIdx[5] = dx - 1 + p
          /\ dstIdx[4] = q /\ dstIdx[3] = q + p /\ dstIdx[2] = dx * dx - 1 /\ dstIdx[1] = dx * dx * dx - 1
      BY DEF dstIdx
    <3>4. p \in Nat /\ q \in Nat /\ dx - 1 + p = p + dx - 1 /\ q + p = p + q BY <3>1
    <3> HIDE DEF p, q, m
    <3> QED BY <3>2, <3>3, <3>4
  <2>6. i - 18 \in {1, 2, 3, 4, 5, 6, 7, 8} BY <2>3
  <2>7. dstIdx[i - 18] = srcIdx[9 - (i - 18)] BY <2>5, <2>6
  <2> QED BY <2>1, <2>2, <2>4, <2>7
<1> QED BY <1>2, <1>3, <1>4, RowKinds

-----------------------------------------------------------------------------
(* The words that have landed, and those that have been unpacked.          *)

Message(i) == {Delivered(i, w) : w \in Words(i)}

\* A message and the message of the opposite direction have the same words.
LEMMA SameWords ==
  ASSUME NEW i \in Rows
  PROVE  /\ Words(Mirror(i)) = Words(i)
         /\ \A w : FieldOf(Mirror(i), w) = FieldOf(i, w) /\ CellOf(Mirror(i), w) = CellOf(i, w)
<1>1. Count(CommSendRows[Mirror(i)]) = Count(CommSendRows[i]) BY MirrorRows, AsSendRows DEF Count
<1> QED BY <1>1 DEF Words, FieldOf, CellOf

\* The words of a row: those of each field are one after the other.
LEMMA WordOf ==
  ASSUME Ctx, NEW i \in 1 .. 26
  PROVE  /\ Words(i) = 0 .. Length(i) - 1
         /\ \A w \in Words(i) : FieldOf(i, w) \in 0 .. xferFields - 1 /\ CellOf(i, w) \in Cells(i)
         /\ \A f \in 0 .. xferFields - 1, t \in Cells(i) :
              \E w \in Words(i) : FieldOf(i, w) = f /\ CellOf(i, w) = t
         /\ \A v, w \in Words(i) : FieldOf(i, v) = FieldOf(i, w) /\ CellOf(i, v) = CellOf(i, w) => v = w
<1> DEFINE n == Count(CommRecvRows[i])  m == xferFields
<1>1. n \in Nat \ {0} /\ m \in Nat \ {0}
  <2>1. dx \in Nat \ {0} /\ dx * dx \in Nat \ {0} /\ m \in 1 .. 6 BY Sizes
  <2> QED BY <2>1, CellCount
<1>2. /\ Words(i) = 0 .. m * n - 1 /\ Cells(i) = 0 .. n - 1 /\ Length(i) = m * n
      /\ \A w : FieldOf(i, w) = w \div n /\ CellOf(i, w) = w % n
  BY AsSendRows DEF Words, Cells, Length, FieldOf, CellOf
<1> HIDE DEF n, m
<1>3. ASSUME NEW w \in 0 .. m * n - 1
      PROVE  w \div n \in 0 .. m - 1 /\ w % n \in 0 .. n - 1 /\ w = n * (w \div n) + (w % n)
  <2> DEFINE q == w \div n  r == w % n
  <2>1. w \in Int /\ m * n = n * m /\ n * m \in Int BY <1>1
  <2>2. q \in Int /\ r \in 0 .. n - 1 /\ w = n * q + r BY <1>1, <2>1, DivMod
  <2> HIDE DEF q, r
  <2>3. n * q \in Int BY <1>1, <2>2
  <2>4. ~(q < 0)
    <3> SUFFICES ASSUME q < 0 PROVE FALSE OBVIOUS
    <3>1. n * q <= n * (0 - 1) BY <1>1, <2>2, TimesMonotone
    <3>2. n * (0 - 1) = 0 - n BY <1>1
    <3> QED BY <1>1, <2>1, <2>2, <2>3, <3>1, <3>2
  <2>5. ~(q > m - 1)
    <3> SUFFICES ASSUME q > m - 1 PROVE FALSE OBVIOUS
    <3>1. n * m <= n * q BY <1>1, <2>2, TimesMonotone
    <3> QED BY <1>1, <2>1, <2>2, <2>3, <3>1
  <2>6. q \in 0 .. m - 1 /\ r \in 0 .. n - 1 /\ w = n * q + r BY <1>1, <2>2, <2>4, <2>5
  <2> QED BY <2>6 DEF q, r
<1>4. ASSUME NEW f \in 0 .. m - 1, NEW t \in 0 .. n - 1
      PROVE  \E w \in 0 .. m * n - 1 : w \div n = f /\ w % n = t
  <2> DEFINE w == n * f + t
  <2>1. w \div n = f /\ w % n = t BY <1>1, DivModUnique
  <2>2. n * f <= n * (m - 1) /\ n * f \in Int BY <1>1, TimesMonotone
  <2>3. n * (m - 1) = m * n - n /\ n * 0 = 0 /\ n * 0 <= n * f /\ m * n \in Int BY <1>1, TimesMonotone
  <2>4. w \in 0 .. m * n - 1
    <3> DEFINE nf == n * f  mn == m * n  z == n * 0
    <3>1. z = 0 /\ z <= nf /\ nf <= mn - n /\ nf \in Int /\ mn \in Int BY <2>2, <2>3
    <3> HIDE DEF nf, mn, z
    <3>2. nf + t \in 0 .. mn - 1 BY <1>1, <3>1
    <3> QED BY <3>2 DEF nf, mn
  <2> QED BY <2>1, <2>4
<1>5. \A v, w \in 0 .. m * n - 1 : v \div n = w \div n /\ v % n = w % n => v = w
  <2> TAKE v, w \in 0 .. m * n - 1
  <2> HAVE v \div n = w \div n /\ v % n = w % n
  <2>1. v = n * (v \div n) + (v % n) /\ w = n * (w \div n) + (w % n) BY <1>3
  <2> DEFINE a == v \div n  b == v % n
  <2>2. v = n * a + b /\ w = n * a + b BY <2>1
  <2> QED BY <2>2
<1>6. Words(i) = 0 .. Length(i) - 1 BY <1>2
<1>7. \A w \in Words(i) : FieldOf(i, w) \in 0 .. m - 1 /\ CellOf(i, w) \in Cells(i)
  BY <1>2, <1>3
<1>8. \A f \in 0 .. m - 1, t \in Cells(i) : \E w \in Words(i) : FieldOf(i, w) = f /\ CellOf(i, w) = t
  BY <1>2, <1>4
<1>9. \A v, w \in Words(i) : FieldOf(i, v) = FieldOf(i, w) /\ CellOf(i, v) = CellOf(i, w) => v = w
  BY <1>2, <1>5, Zenon
<1> QED BY <1>6, <1>7, <1>8, <1>9 DEF m

\* Steps leave the inputs alone, so the messages stay what they are.
LEMMA WordsFrozen ==
  ASSUME inputs' = inputs
  PROVE  /\ Peers' = Peers /\ DirectFields' = DirectFields
         /\ \A i : PeerOf(i)' = PeerOf(i) /\ Message(i)' = Message(i)
         /\ \A i : InBuffer(i)' <=> \A w \in Words(i) : LET a == Offset(CntAt(i)) + w
                                                       IN a \in DOMAIN buf' /\ buf'[a] = Packed(i, w)
<1>1. /\ tp' = tp /\ nx' = nx /\ ph' = ph /\ path' = path /\ me' = me
      /\ ExpectedRows' = ExpectedRows /\ \A i : CntAt(i)' = CntAt(i)
  BY Frozen
<1>2. \A i : PeerOf(i)' = PeerOf(i) BY <1>1 DEF PeerOf, Delta
<1>3. Peers' = Peers BY <1>1, <1>2 DEF Peers
<1>4. DirectFields' = DirectFields BY <1>1 DEF DirectFields, planeOnly
<1>5. planeOnly' = planeOnly /\ dx' = dx /\ xferFields' = xferFields
  BY <1>1 DEF planeOnly, dx, xferFields
<1>6. \A i : Words(i)' = Words(i) BY <1>5 DEF Words, Count
<1>7. \A i, w : FieldOf(i, w)' = FieldOf(i, w) /\ CellOf(i, w)' = CellOf(i, w)
  BY <1>5 DEF FieldOf, CellOf, Count
<1>8. \A i, t : Idx(i, t)' = Idx(i, t) BY <1>5 DEF Idx, FaceIdx, EdgeIdx, srcIdx
<1>9. \A i : ghostIdx(me, i)' = ghostIdx(me, i) BY <1>1 DEF ghostIdx, numElem, HasNbr, Loc
<1>10. \A i, t : Target(i, t)' = Target(i, t) BY <1>5, <1>8, <1>9 DEF Target
<1>11. \A i, w : Packed(i, w)' = Packed(i, w)
  BY <1>2, <1>7, <1>8 DEF Packed
<1>12. \A i, w : Delivered(i, w)' = Delivered(i, w)
  BY <1>2, <1>4, <1>7, <1>8, <1>10 DEF Delivered
<1>13. \A i : Message(i)' = Message(i) BY <1>6, <1>12 DEF Message
<1>14. \A n : Offset(n)' = Offset(n)
  BY <1>1, <1>5 DEF Offset, maxPlaneSize, maxEdgeSize
<1>15. ASSUME NEW i
       PROVE  InBuffer(i)' <=> \A w \in Words(i) : LET a == Offset(CntAt(i)) + w
                                                  IN a \in DOMAIN buf' /\ buf'[a] = Packed(i, w)
  BY <1>1, <1>6, <1>11, <1>14 DEF InBuffer
<1> QED BY <1>2, <1>3, <1>4, <1>13, <1>15

\* The ranks that will send are those a message is expected from.
LEMMA Senders ==
  ASSUME Ctx, me \in Rank
  PROVE  {q \in Rank : \E i \in Sends(q) : SendRank(q, i) = me} = Peers
<1>1. ASSUME NEW q \in Rank, NEW i \in Sends(q), SendRank(q, i) = me PROVE q \in Peers
  BY <1>1, SentIsExpected DEF Peers, PeerOf
<1>2. ASSUME NEW i \in ExpectedRows
      PROVE  PeerOf(i) \in Rank /\ \E j \in Sends(PeerOf(i)) : SendRank(PeerOf(i), j) = me
  BY ExpectedIsSent DEF PeerOf
<1>3. \A q \in Peers : q \in Rank /\ \E i \in Sends(q) : SendRank(q, i) = me BY <1>2 DEF Peers
<1> QED BY <1>1, <1>3

\* Nothing has landed or been unpacked before the first message.
LEMMA InitWords == Init => WordsInv
<1> SUFFICES ASSUME Init PROVE WordsInv OBVIOUS
<1>1. Ctx /\ me \in Rank BY InitInv, Context DEF LayoutInv
<1>2. /\ todo = Peers /\ got = {} /\ step = (IF path = "direct" THEN "send" ELSE "post")
  BY <1>1, Senders DEF Init
<1>3. \A i \in ExpectedRows : PeerOf(i) \in todo BY <1>2 DEF Peers
<1>4. Landed = {} /\ Placed = {} BY <1>2, <1>3 DEF Landed, Placed
<1>5. DirectFields => step \in {"send", "done"} BY <1>2 DEF DirectFields
<1> QED BY <1>2, <1>4, <1>5 DEF WordsInv

LEMMA PostWords == LayoutInv /\ WordsInv /\ Post => WordsInv'
<1> SUFFICES ASSUME LayoutInv, WordsInv, Post PROVE WordsInv' OBVIOUS
<1>1. /\ inputs' = inputs /\ step = "post" /\ todo' = todo /\ got' = got /\ path # "direct"
      /\ k \in Rows /\ cnt = CntAt(k) /\ TypeOK /\ Walk(CommRecvRows, "send")
  BY DEF Post, LayoutInv
<1>2. step' \in {"post", "send"} BY <1>1, Context, WalkStep
<1>3. ~DirectFields /\ ~DirectFields' BY <1>1, WordsFrozen DEF DirectFields
<1>4. todo' = Peers' BY <1>1, WordsFrozen DEF WordsInv
<1>5. \A i \in ExpectedRows : PeerOf(i) \in Peers BY DEF Peers
<1>6. Landed' = {} BY <1>1, <1>4, <1>5, Frozen, WordsFrozen DEF Landed
<1>7. Placed = {} /\ Placed' = {} BY <1>1, <1>2, <1>3 DEF Placed
<1>8. got = {} BY <1>7 DEF WordsInv
<1>9. (got = UNION {{Delivered(i, w) : w \in Words(i)} : i \in Placed})' BY <1>1, <1>7, <1>8
<1> QED BY <1>2, <1>3, <1>4, <1>6, <1>9 DEF WordsInv

\* The words that have their place, by message.
LEMMA GotIs ==
  (got = UNION {{Delivered(i, w) : w \in Words(i)} : i \in Placed}) <=> got = UNION {Message(i) : i \in Placed}
BY DEF Message

LEMMA GotNext ==
  ASSUME inputs' = inputs
  PROVE  (got = UNION {{Delivered(i, w) : w \in Words(i)} : i \in Placed})' <=>
           got' = UNION {Message(i) : i \in Placed'}
<1>1. \A i : Message(i)' = Message(i) BY WordsFrozen
<1>2. UNION {Message(i)' : i \in Placed'} = UNION {Message(i) : i \in Placed'} BY <1>1
<1>3. (UNION {{Delivered(i, w) : w \in Words(i)} : i \in Placed})' = UNION {Message(i)' : i \in Placed'}
  BY DEF Message
<1> QED BY <1>2, <1>3

LEMMA ArrivedWords == LayoutInv /\ WordsInv /\ Arrived => WordsInv'
<1> SUFFICES ASSUME LayoutInv, WordsInv, Arrived PROVE WordsInv' OBVIOUS
<1>1. /\ inputs' = inputs /\ step = "send" /\ todo = {} /\ todo' = todo /\ got' = got /\ buf' = buf
      /\ k' = k /\ k = 1 /\ step' = (IF DirectFields THEN "done" ELSE "unpack")
  BY DEF Arrived, LayoutInv
<1>2. /\ ExpectedRows' = ExpectedRows /\ DirectFields' = DirectFields
      /\ \A i : PeerOf(i)' = PeerOf(i) /\ (InBuffer(i)' <=> InBuffer(i))
  BY <1>1, Frozen, WordsFrozen DEF InBuffer
<1>3. Landed' = Landed BY <1>1, <1>2 DEF Landed
<1>4. Placed' = Placed
  <2>1. \A i \in ExpectedRows : ~(i < 1) BY ExpectedIs
  <2>2. CASE DirectFields BY <1>1, <1>2, <2>2 DEF Placed
  <2>3. CASE ~DirectFields
    <3>1. Placed = {} BY <1>1, <2>3 DEF Placed
    <3>2. Placed' = {} BY <1>1, <1>2, <2>1, <2>3 DEF Placed
    <3> QED BY <3>1, <3>2
  <2> QED BY <2>2, <2>3
<1>5. got' = UNION {Message(i) : i \in Placed'} BY <1>1, <1>4, GotIs DEF WordsInv
<1>6. (got = UNION {{Delivered(i, w) : w \in Words(i)} : i \in Placed})' BY <1>1, <1>5, GotNext
<1>7. (~DirectFields => \A i \in Landed : InBuffer(i))' BY <1>2, <1>3 DEF WordsInv
<1> QED BY <1>1, <1>2, <1>6, <1>7 DEF WordsInv

LEMMA StutterWords == WordsInv /\ UNCHANGED vars => WordsInv'
<1> SUFFICES ASSUME WordsInv, UNCHANGED vars PROVE WordsInv' OBVIOUS
<1>1. inputs' = inputs /\ step' = step /\ k' = k /\ todo' = todo /\ got' = got /\ buf' = buf BY DEF vars
<1>2. /\ ExpectedRows' = ExpectedRows /\ DirectFields' = DirectFields /\ Peers' = Peers
      /\ \A i : PeerOf(i)' = PeerOf(i) /\ (InBuffer(i)' <=> InBuffer(i))
  BY <1>1, Frozen, WordsFrozen DEF InBuffer
<1>3. Landed' = Landed /\ Placed' = Placed BY <1>1, <1>2 DEF Landed, Placed
<1>4. got' = UNION {Message(i) : i \in Placed'} BY <1>1, <1>3, GotIs DEF WordsInv
<1>5. (got = UNION {{Delivered(i, w) : w \in Words(i)} : i \in Placed})' BY <1>1, <1>4, GotNext
<1> QED BY <1>1, <1>2, <1>3, <1>5 DEF WordsInv

LEMMA UnpackWords == LayoutInv /\ WordsInv /\ Unpack => WordsInv'
<1> SUFFICES ASSUME LayoutInv, WordsInv, Unpack PROVE WordsInv' OBVIOUS
<1>1. /\ inputs' = inputs /\ step = "unpack" /\ todo' = todo /\ buf' = buf /\ todo = {} /\ ~DirectFields
      /\ k \in Rows /\ cnt = CntAt(k) /\ TypeOK /\ Walk(UnpackRows, "done")
  BY DEF Unpack, LayoutInv, WordsInv
<1>2. Ctx /\ me \in Rank BY <1>1, Context
<1>3. UnpackRows[k] = CommRecvRows[k] BY <1>1, <1>2, AsUnpackRows DEF Ctx
<1>4. \/ k = NumRows /\ step' = "done"
      \/ k < NumRows /\ step' = "unpack" /\ k' = k + 1
  BY <1>1, <1>2, <1>3, WalkStep
<1>5. /\ ExpectedRows' = ExpectedRows /\ DirectFields' = DirectFields
      /\ \A i : PeerOf(i)' = PeerOf(i) /\ (InBuffer(i)' <=> InBuffer(i))
  BY <1>1, Frozen, WordsFrozen DEF InBuffer
<1>6. Landed = ExpectedRows /\ Landed' = ExpectedRows BY <1>1, <1>4, <1>5 DEF Landed
<1>7. k \in ExpectedRows <=> Expects(me, CommRecvRows[k]) BY <1>1 DEF ExpectedRows
<1>8. ASSUME k \in ExpectedRows PROVE got' = got \cup Message(k)
  <2> DEFINE Val(w) == LET a == Offset(cnt) + w IN
                 [row |-> k, field |-> FieldOf(k, w), at |-> Target(k, CellOf(k, w)),
                  from |-> IF a \in DOMAIN buf /\ buf[a].field = FieldOf(k, w) THEN buf[a].from ELSE None,
                  node |-> IF a \in DOMAIN buf THEN buf[a].node ELSE None]
  <2>1. got' = got \cup {Val(w) : w \in Words(k)} BY <1>3, <1>7, <1>8 DEF Unpack
  <2>2. ASSUME NEW w \in Words(k) PROVE Val(w) = Delivered(k, w)
    <3> DEFINE a == Offset(CntAt(k)) + w
    <3>1. a \in DOMAIN buf /\ buf[a] = Packed(k, w) BY <1>1, <1>6, <1>8 DEF WordsInv, InBuffer
    <3>2. /\ Packed(k, w).field = FieldOf(k, w) /\ Packed(k, w).from = PeerOf(k)
          /\ Packed(k, w).node = Idx(Mirror(k), CellOf(k, w))
      BY DEF Packed
    <3> HIDE DEF a
    <3>3. Offset(cnt) + w = a BY <1>1 DEF a
    <3>4. Val(w) = [row |-> k, field |-> FieldOf(k, w), at |-> Target(k, CellOf(k, w)),
                       from |-> PeerOf(k), node |-> Idx(Mirror(k), CellOf(k, w))]
      BY <3>1, <3>2, <3>3
    <3> QED BY <1>1, <3>4 DEF Delivered
  <2> HIDE DEF Val
  <2>3. {Val(w) : w \in Words(k)} = {Delivered(k, w) : w \in Words(k)} BY <2>2
  <2> QED BY <2>1, <2>3 DEF Message
<1>9. k \notin ExpectedRows => got' = got BY <1>3, <1>7 DEF Unpack
<1>10. Placed' = IF k \in ExpectedRows THEN Placed \cup {k} ELSE Placed
  <2>1. Rows = 1 .. NumRows /\ NumRows \in {6, 26} BY RowCount
  <2>2. \A i \in ExpectedRows : i \in 1 .. NumRows BY <2>1 DEF ExpectedRows
  <2>3. Placed = {i \in ExpectedRows : i < k} BY <1>1 DEF Placed
  <2>4. CASE k = NumRows
    <3>1. Placed' = ExpectedRows BY <1>1, <1>4, <1>5, <2>4, <2>1 DEF Placed
    <3>2. \A i \in ExpectedRows : i < k \/ i = k BY <2>1, <2>2, <2>4
    <3> QED BY <2>3, <3>1, <3>2
  <2>5. CASE k < NumRows
    <3>1. step' = "unpack" /\ k' = k + 1 BY <1>4, <2>1, <2>5
    <3>2. Placed' = {i \in ExpectedRows : i < k + 1} BY <1>1, <1>5, <3>1 DEF Placed
    <3>3. \A i \in ExpectedRows : i < k + 1 <=> (i < k \/ i = k) BY <1>1, <2>1, <2>2
    <3> QED BY <2>3, <3>2, <3>3
  <2> QED BY <1>4, <2>4, <2>5
<1>11. got' = UNION {Message(i) : i \in Placed'}
  <2>1. got = UNION {Message(i) : i \in Placed} BY GotIs DEF WordsInv
  <2>2. CASE k \in ExpectedRows
    <3>1. {Message(i) : i \in Placed'} = {Message(i) : i \in Placed} \cup {Message(k)}
      BY <1>10, <2>2
    <3> QED BY <1>8, <2>1, <2>2, <3>1
  <2>3. CASE k \notin ExpectedRows BY <1>9, <1>10, <2>1, <2>3
  <2> QED BY <2>2, <2>3
<1>12. (got = UNION {{Delivered(i, w) : w \in Words(i)} : i \in Placed})' BY <1>1, <1>11, GotNext
<1>13. (~DirectFields => \A i \in Landed : InBuffer(i))' BY <1>1, <1>5, <1>6 DEF WordsInv
<1> QED BY <1>1, <1>4, <1>5, <1>12, <1>13 DEF WordsInv

\* Where the message of row i of rank q lands: at the place of its row among the
\* receives of me, wherever the sender has that place from.
LEMMA BaseIs ==
  ASSUME LayoutInv, step = "send", NEW q \in Rank, NEW i \in Sends(q), SendRank(q, i) = me
  PROVE  Base(q, i) = Offset(CntAt(Mirror(i))) /\ Base(q, i) \in Nat
<1>1. Ctx /\ me \in Rank BY Context DEF LayoutInv
<1> DEFINE m == Mirror(i)
<1>2. /\ m \in ExpectedRows /\ m \in 1 .. 26 /\ PeerOf(m) = q /\ SenderPos(i) = CommRecvRows[m]
  BY <1>1, SentIsExpected, ExpectedIs DEF PeerOf
<1>3. m \in 1 .. 27 /\ Offset(CntAt(m)) \in Nat
  <2>1. m \in 1 .. 27 BY <1>2
  <2> QED BY <1>1, <2>1, CntInTypes, OffsetForm
<1>4. CASE Twosided
  <2>1. path # "direct" BY <1>4 DEF Twosided
  <2> DEFINE j == CHOOSE l \in DOMAIN posts : posts[l].from = q
  <2>2. /\ \A l \in ExpectedRows : PlaceOf(l) \in DOMAIN posts /\ posts[PlaceOf(l)] = Posted(l)
        /\ \A l \in DOMAIN posts : \E n \in ExpectedRows : posts[l] = Posted(n)
    BY <2>1, AllPosted
  <2>3. \A l : Posted(l).from = PeerOf(l) /\ Posted(l).offset = Offset(CntAt(l)) BY DEF Posted, PeerOf
  <2>4. j \in DOMAIN posts /\ posts[j].from = q BY <1>2, <2>2, <2>3
  <2> HIDE DEF j
  <2>5. PICK n \in ExpectedRows : posts[j] = Posted(n) BY <2>2, <2>4
  <2>6. PeerOf(n) = PeerOf(m) BY <1>2, <2>3, <2>4, <2>5
  <2>7. n = m BY <1>1, <1>2, <2>6, OneRowPerRank DEF PeerOf
  <2>8. posts[j].offset = Offset(CntAt(m)) BY <2>3, <2>5, <2>7
  <2> QED BY <1>3, <1>4, <2>8 DEF Base, j
<1>5. CASE ~Twosided
  <2>1. m \in Rows /\ Expects(me, CommRecvRows[m]) BY <1>2 DEF ExpectedRows
  <2>2. shmRecvOffset(me, CommRecvRows[m]) = Offset(CntAt(m)) BY <1>1, <1>3, <2>1, ShmOffset, CntAtIs
  <2> QED BY <1>2, <1>3, <1>5, <2>2 DEF Base
<1> QED BY <1>4, <1>5

LEMMA SendWords == LayoutInv /\ WordsInv /\ (\E i \in 1 .. 26 : Send(i)) => WordsInv'
<1> SUFFICES ASSUME LayoutInv, WordsInv, NEW i \in 1 .. 26, Send(i) PROVE WordsInv' OBVIOUS
<1> DEFINE q == Sender  m == Mirror(i)
<1>1. /\ inputs' = inputs /\ step = "send" /\ step' = step /\ k' = k /\ todo # {} /\ todo' = todo \ {q}
      /\ i \in Sends(q) /\ SendRank(q, i) = me /\ TypeOK
  BY DEF Send, LayoutInv
<1>2. Ctx /\ me \in Rank BY <1>1, Context
<1>3. q \in Rank BY <1>1, SenderIsThere DEF TypeOK
<1>4. i \in Rows /\ m \in ExpectedRows /\ m \in Rows /\ PeerOf(m) = q
  BY <1>1, <1>2, <1>3, SentIsExpected DEF PeerOf, ExpectedRows
<1>5. Words(m) = Words(i) /\ \A w : FieldOf(m, w) = FieldOf(i, w) /\ CellOf(m, w) = CellOf(i, w)
  BY <1>4, SameWords
<1>6. Mirror(m) = i BY Mirrored
<1> HIDE DEF q, m
<1>7. /\ ExpectedRows' = ExpectedRows /\ DirectFields' = DirectFields
      /\ \A l : PeerOf(l)' = PeerOf(l)
  BY <1>1, Frozen, WordsFrozen
<1>8. \A l \in ExpectedRows : PeerOf(l) = q => l = m
  BY <1>2, <1>4, OneRowPerRank DEF PeerOf
<1>9. Landed' \subseteq Landed \cup {m} BY <1>1, <1>7, <1>8 DEF Landed
<1>10. CASE DirectFields
  <2> DEFINE val(w) == [row |-> i, field |-> FieldOf(i, w), at |-> MirrorIdx(i, CellOf(i, w)),
                        from |-> q, node |-> Idx(i, CellOf(i, w))]
  <2>1. got' = got \cup {val(w) : w \in Words(i)} /\ buf' = buf BY <1>10 DEF Send, q
  <2>2. ASSUME NEW w PROVE val(w) = Delivered(m, w)
    <3>1. MirrorIdx(i, CellOf(i, w)) = Idx(m, CellOf(i, w)) BY <1>2, MirrorIdxIs DEF m
    <3>2. Target(m, CellOf(i, w)) = Idx(m, CellOf(i, w)) BY <1>10 DEF Target, DirectFields
    <3> QED BY <1>4, <1>5, <1>6, <1>10, <3>1, <3>2 DEF Delivered
  <2> HIDE DEF val
  <2>3. got' = got \cup Message(m) BY <1>5, <2>1, <2>2 DEF Message
  <2>4. Placed' = Placed \cup {m} BY <1>1, <1>4, <1>7, <1>8, <1>10 DEF Placed
  <2>5. {Message(l) : l \in Placed'} = {Message(l) : l \in Placed} \cup {Message(m)} BY <2>4
  <2>6. got' = UNION {Message(l) : l \in Placed'} BY <2>3, <2>5, GotIs DEF WordsInv
  <2>7. (got = UNION {{Delivered(l, w) : w \in Words(l)} : l \in Placed})' BY <1>1, <2>6, GotNext
  <2>8. DirectFields' BY <1>7, <1>10
  <2> QED BY <1>1, <1>7, <2>7, <2>8 DEF WordsInv
<1>11. CASE ~DirectFields
  <2> DEFINE b == Base(q, i)
             val(w) == [field |-> FieldOf(i, w), from |-> q, node |-> Idx(i, CellOf(i, w))]
  <2>1. got' = got /\ buf' = [a \in Written(q, i) \cup DOMAIN buf |->
                                IF a \in Written(q, i) THEN val(a - b) ELSE buf[a]]
    BY <1>11 DEF Send, q
  <2>2. ASSUME NEW w PROVE val(w) = Packed(m, w) BY <1>4, <1>5, <1>6 DEF Packed
  <2> HIDE DEF val
  <2>3. /\ DOMAIN buf' = Written(q, i) \cup DOMAIN buf
        /\ \A a \in Written(q, i) : buf'[a] = val(a - b)
        /\ \A a \in DOMAIN buf : a \notin Written(q, i) => buf'[a] = buf[a]
    BY <2>1
  <2>4. b = Offset(CntAt(m)) /\ b \in Nat BY <1>1, <1>3, BaseIs DEF m
  <2> HIDE DEF b
  <2>5. Words(m) = 0 .. Length(m) - 1 /\ Length(m) \in Nat /\ m \in 1 .. 26
    BY <1>2, <1>4, ExpectedIs, WordOf, Lengths
  <2>6. Written(q, i) = {b + w : w \in Words(m)} BY <1>5 DEF Written, b
  <2>7. InBuffer(m)'
    <3>1. ASSUME NEW w \in Words(m)
          PROVE  b + w \in DOMAIN buf' /\ buf'[b + w] = Packed(m, w)
      <4>1. b + w \in Written(q, i) /\ (b + w) - b = w BY <2>4, <2>5, <2>6
      <4> QED BY <2>2, <2>3, <4>1
    <3> QED BY <1>1, <2>4, <3>1, WordsFrozen
  <2>8. ASSUME NEW l \in Landed, l # m PROVE InBuffer(l)'
    <3>1. l \in ExpectedRows /\ l \in 1 .. 26 /\ InBuffer(l) BY <1>11, <2>8, ExpectedIs DEF WordsInv, Landed
    <3> DEFINE c == Offset(CntAt(l))  n == Length(l)  h == Length(m)
    <3>2. c \in Nat /\ n \in Nat /\ (c + n <= b \/ b + h <= c) /\ Words(l) = 0 .. n - 1
      <4>1. Words(l) = 0 .. n - 1 /\ n \in Nat BY <1>2, <3>1, WordOf, Lengths
      <4>2. l \in 1 .. 27 /\ m \in 1 .. 27 BY <2>5, <3>1
      <4>3. c \in Nat BY <1>2, <4>2, CntInTypes, OffsetForm
      <4>4. l < m => c + n <= b
        <5> SUFFICES ASSUME l < m PROVE c + n <= b OBVIOUS
        <5> QED BY <1>2, <2>4, <3>1, <4>2, RowsInOrder
      <4>5. m < l => b + h <= c
        <5> SUFFICES ASSUME m < l PROVE b + h <= c OBVIOUS
        <5> QED BY <1>2, <1>4, <2>4, <4>2, RowsInOrder
      <4> QED BY <2>8, <4>1, <4>2, <4>3, <4>4, <4>5
    <3>3. h \in Nat /\ Words(m) = 0 .. h - 1 BY <2>5
    <3>4. ASSUME NEW w \in Words(l)
          PROVE  c + w \in DOMAIN buf' /\ buf'[c + w] = Packed(l, w)
      <4>1. c + w \in DOMAIN buf /\ buf[c + w] = Packed(l, w) BY <3>1 DEF InBuffer
      <4> HIDE DEF c, n, h
      <4>2. \A v \in 0 .. h - 1 : c + w # b + v BY <2>4, <3>2, <3>3
      <4>3. c + w \notin Written(q, i) BY <2>6, <3>3, <4>2
      <4> QED BY <2>3, <4>1, <4>3
    <3> QED BY <1>1, <3>4, WordsFrozen
  <2>9. (\A l \in Landed : InBuffer(l))' BY <1>9, <2>7, <2>8
  <2>10. Placed = {} /\ Placed' = {} BY <1>1, <1>7, <1>11 DEF Placed
  <2>11. got' = UNION {Message(l) : l \in Placed'} BY <2>1, <2>10, GotIs DEF WordsInv
  <2>12. (got = UNION {{Delivered(l, w) : w \in Words(l)} : l \in Placed})' BY <1>1, <2>11, GotNext
  <2>13. ~DirectFields' BY <1>7, <1>11
  <2> QED BY <1>1, <1>7, <2>9, <2>12, <2>13 DEF WordsInv
<1> QED BY <1>10, <1>11

\* In every exchange and on every path: what has been sent to me is in its
\* buffer, where the unpack of its row will read it, and the words that have
\* their place are those of the messages unpacked (or written directly) so far,
\* each complete, from its peer, at the place of its row.
THEOREM WordsInvariant == Spec => []WordsInv
<1>1. Init => WordsInv BY InitWords
<1>2. LayoutInv /\ WordsInv /\ [Next]_vars => WordsInv'
  <2> SUFFICES ASSUME LayoutInv, WordsInv, [Next]_vars PROVE WordsInv' OBVIOUS
  <2>1. CASE Post BY <2>1, PostWords
  <2>2. CASE \E i \in 1 .. 26 : Send(i) BY <2>2, SendWords
  <2>3. CASE Arrived BY <2>3, ArrivedWords
  <2>4. CASE Unpack BY <2>4, UnpackWords
  <2>5. CASE Terminated BY <2>5, StutterWords DEF Terminated
  <2>6. CASE UNCHANGED vars BY <2>6, StutterWords
  <2> QED BY <2>1, <2>2, <2>3, <2>4, <2>5, <2>6 DEF Next
<1> QED BY <1>1, <1>2, LayoutInvariant, PTL DEF Spec

\* In every exchange and on every path: a walk's counters and the receives posted
\* are fixed by the row the walk has come to, and with them what the buffer holds.
THEOREM ExchangeInvariant == Spec => []ExchangeInv
BY LayoutInvariant, WordsInvariant, PTL DEF ExchangeInv

-----------------------------------------------------------------------------
(* The places of a message, in the mesh of each rank.                      *)

LEMMA RowPlace ==
  ASSUME Ctx, NEW i \in 1 .. 26, NEW t \in Cells(i)
  PROVE  /\ SX(i, t) \in 0 .. dx - 1 /\ SY(i, t) \in 0 .. dx - 1 /\ SZ(i, t) \in 0 .. dx - 1
         /\ Idx(i, t) \in Points
         /\ CX(Idx(i, t)) = SX(i, t) /\ CY(Idx(i, t)) = SY(i, t) /\ CZ(Idx(i, t)) = SZ(i, t)
<1>1. dx \in Nat \ {0} BY Sizes
<1>2. Low(i, t) \in 0 .. dx - 1 /\ High(i, t) \in 0 .. dx - 1 BY LowHigh
<1>3. \A e : End(e) \in 0 .. dx - 1 BY <1>1 DEF End
<1>4. SX(i, t) \in 0 .. dx - 1 /\ SY(i, t) \in 0 .. dx - 1 /\ SZ(i, t) \in 0 .. dx - 1
  BY <1>2, <1>3 DEF SX, SY, SZ
<1> QED BY <1>4, Places, PointAt

\* A word has the same place along the axes its direction does not lead along,
\* and the opposite ends of the others, for the receiver and the sender.
LEMMA MirrorPlace ==
  ASSUME Ctx, NEW i \in 1 .. 26, NEW t \in Cells(i)
  PROVE  LET d == CommRecvRows[i]  m == Mirror(i) IN
         /\ m \in 1 .. 26 /\ t \in Cells(m)
         /\ d[1] = 0 => SX(m, t) = SX(i, t)
         /\ d[1] = 1 => SX(i, t) = dx - 1 /\ SX(m, t) = 0
         /\ d[1] = -1 => SX(i, t) = 0 /\ SX(m, t) = dx - 1
         /\ d[2] = 0 => SY(m, t) = SY(i, t)
         /\ d[2] = 1 => SY(i, t) = dx - 1 /\ SY(m, t) = 0
         /\ d[2] = -1 => SY(i, t) = 0 /\ SY(m, t) = dx - 1
         /\ d[3] = 0 => SZ(m, t) = SZ(i, t)
         /\ d[3] = 1 => SZ(i, t) = dx - 1 /\ SZ(m, t) = 0
         /\ d[3] = -1 => SZ(i, t) = 0 /\ SZ(m, t) = dx - 1
<1> DEFINE d == CommRecvRows[i]  m == Mirror(i)  e == CommRecvRows[m]
<1>1. /\ m \in 1 .. 26 /\ (i \in Faces <=> m \in Faces) /\ (i \in Edges <=> m \in Edges)
      /\ e[1] = 0 - d[1] /\ e[2] = 0 - d[2] /\ e[3] = 0 - d[3]
  BY Mirrored
<1>2. d[1] \in -1 .. 1 /\ d[2] \in -1 .. 1 /\ d[3] \in -1 .. 1 BY RowTypes
<1>3. Cells(m) = Cells(i) BY <1>1, CellCount DEF Cells
<1>4. Low(m, t) = Low(i, t) /\ High(m, t) = High(i, t) BY <1>1 DEF Low, High
<1>5. /\ SX(i, t) = IF d[1] # 0 THEN End(d[1]) ELSE Low(i, t)
      /\ SY(i, t) = IF d[2] # 0 THEN End(d[2]) ELSE IF d[1] # 0 THEN Low(i, t) ELSE High(i, t)
      /\ SZ(i, t) = IF d[3] # 0 THEN End(d[3]) ELSE High(i, t)
      /\ SX(m, t) = IF e[1] # 0 THEN End(e[1]) ELSE Low(i, t)
      /\ SY(m, t) = IF e[2] # 0 THEN End(e[2]) ELSE IF e[1] # 0 THEN Low(i, t) ELSE High(i, t)
      /\ SZ(m, t) = IF e[3] # 0 THEN End(e[3]) ELSE High(i, t)
  BY <1>4 DEF SX, SY, SZ
<1>6. End(-1) = 0 /\ End(1) = dx - 1 BY DEF End
<1>7. t \in Cells(m) BY <1>3
<1> HIDE DEF d, e, m
<1>8. /\ d[1] = 0 => SX(m, t) = SX(i, t)
      /\ d[1] = 1 => SX(i, t) = dx - 1 /\ SX(m, t) = 0
      /\ d[1] = -1 => SX(i, t) = 0 /\ SX(m, t) = dx - 1
  BY <1>1, <1>2, <1>5, <1>6
<1>9. /\ d[2] = 0 => SY(m, t) = SY(i, t)
      /\ d[2] = 1 => SY(i, t) = dx - 1 /\ SY(m, t) = 0
      /\ d[2] = -1 => SY(i, t) = 0 /\ SY(m, t) = dx - 1
  BY <1>1, <1>2, <1>5, <1>6
<1>10. /\ d[3] = 0 => SZ(m, t) = SZ(i, t)
       /\ d[3] = 1 => SZ(i, t) = dx - 1 /\ SZ(m, t) = 0
       /\ d[3] = -1 => SZ(i, t) = 0 /\ SZ(m, t) = dx - 1
  BY <1>1, <1>2, <1>5, <1>6
<1> QED BY <1>1, <1>7, <1>8, <1>9, <1>10 DEF d, m

\* Every place at the ends a direction leads to is that of a word of its row.
LEMMA PlaceOnto ==
  ASSUME Ctx, NEW i \in 1 .. 26,
         NEW x \in 0 .. dx - 1, NEW y \in 0 .. dx - 1, NEW z \in 0 .. dx - 1,
         LET d == CommRecvRows[i] IN
         /\ d[1] # 0 => x = End(d[1])
         /\ d[2] # 0 => y = End(d[2])
         /\ d[3] # 0 => z = End(d[3])
  PROVE  \E t \in Cells(i) : SX(i, t) = x /\ SY(i, t) = y /\ SZ(i, t) = z
<1> DEFINE d == CommRecvRows[i]
           b == IF d[1] = 0 THEN x ELSE IF d[2] = 0 THEN y ELSE z
           a == IF d[3] = 0 THEN z ELSE IF d[2] = 0 THEN y ELSE x
<1>1. dx \in Nat \ {0} /\ dx * dx \in Nat \ {0} BY Sizes
<1>2. d \in Vectors BY RowTypes
<1>3. /\ i \in Faces => Class(d) = 1
      /\ i \in Edges => Class(d) = 2
      /\ i \in Corners => Class(d) = 3
  BY RowClass
<1>4. Class(d) = (IF d[1] = 0 THEN 0 ELSE 1) + (IF d[2] = 0 THEN 0 ELSE 1) + (IF d[3] = 0 THEN 0 ELSE 1)
  BY <1>2, ClassOf
<1>5. a \in 0 .. dx - 1 /\ b \in 0 .. dx - 1 OBVIOUS
<1>6. /\ i \in Faces => i \notin Edges /\ i \notin Corners
      /\ i \in Edges => i \notin Corners
  BY DEF Faces, Edges, Corners
<1>7. CASE i \in Faces
  <2> DEFINE t == dx * a + b
  <2>1. Cells(i) = 0 .. dx * dx - 1 BY <1>7, CellCount DEF Cells
  <2>2. t \in Cells(i)
    <3>1. dx * a <= dx * (dx - 1) /\ dx * 0 <= dx * a /\ dx * a \in Int
      <4> HIDE DEF a, b
      <4> QED BY <1>1, <1>5, TimesMonotone
    <3>2. dx * (dx - 1) = dx * dx - dx /\ dx * 0 = 0 BY <1>1
    <3> DEFINE u == dx * a  v == dx * dx
    <3>3. u \in Int /\ 0 <= u /\ u <= v - dx /\ v \in Int BY <1>1, <3>1, <3>2
    <3> HIDE DEF u, v, a, b
    <3>4. u + b \in 0 .. v - 1 BY <1>1, <1>5, <3>3
    <3> QED BY <2>1, <3>4 DEF u, v
  <2>3. t % dx = b /\ t \div dx = a
    <3> HIDE DEF a, b
    <3> QED BY <1>1, <1>5, DivModUnique
  <2> HIDE DEF t
  <2>4. Low(i, t) = b /\ High(i, t) = a BY <1>7, <2>3 DEF Low, High
  <2>5. SX(i, t) = x /\ SY(i, t) = y /\ SZ(i, t) = z
    BY <1>3, <1>4, <1>7, <2>4 DEF SX, SY, SZ
  <2> QED BY <2>2, <2>5
<1>8. CASE i \in Edges
  <2>1. b \in Cells(i) BY <1>1, <1>5, <1>6, <1>8, CellCount DEF Cells
  <2>2. Low(i, b) = b /\ High(i, b) = b BY <1>6, <1>8 DEF Low, High
  <2>3. SX(i, b) = x /\ SY(i, b) = y /\ SZ(i, b) = z
    BY <1>3, <1>4, <1>8, <2>2 DEF SX, SY, SZ
  <2> QED BY <2>1, <2>3
<1>9. CASE i \in Corners
  <2>1. 0 \in Cells(i) BY <1>1, <1>6, <1>9, CellCount DEF Cells
  <2>2. SX(i, 0) = x /\ SY(i, 0) = y /\ SZ(i, 0) = z
    BY <1>3, <1>4, <1>9 DEF SX, SY, SZ
  <2> QED BY <2>1, <2>2
<1> QED BY <1>7, <1>8, <1>9, RowKinds

\* There is a row for every direction.
LEMMA RowOf ==
  ASSUME NEW d \in Vectors, d[1] # 0 \/ d[2] # 0 \/ d[3] # 0
  PROVE  \E i \in 1 .. 26 : CommRecvRows[i] = d
<1> DEFINE R == CommRecvRows
           Leads(i) == R[i][1] = d[1] /\ R[i][2] = d[2] /\ R[i][3] = d[3]
<1>1. d[1] \in {-1, 0, 1} /\ d[2] \in {-1, 0, 1} /\ d[3] \in {-1, 0, 1} BY DEF Vectors
<1>2. \E i \in {1, 2, 3, 4, 5, 6} \cup {7, 8, 9, 10, 11, 12} \cup {13, 14, 15, 16, 17, 18}
                \cup {19, 20, 21, 22, 23, 24, 25, 26} : Leads(i)
  <2>1. CASE d[1] = 0 /\ d[2] = 0
    <3>1. Leads(1) \/ Leads(2) BY <1>1, <2>1, FaceEntries
    <3> HIDE DEF Leads
    <3> QED BY <3>1
  <2>2. CASE d[1] = 0 /\ d[2] # 0 /\ d[3] = 0
    <3>1. Leads(3) \/ Leads(4) BY <1>1, <2>2, FaceEntries
    <3> HIDE DEF Leads
    <3> QED BY <3>1
  <2>3. CASE d[1] # 0 /\ d[2] = 0 /\ d[3] = 0
    <3>1. Leads(5) \/ Leads(6) BY <1>1, <2>3, FaceEntries
    <3> HIDE DEF Leads
    <3> QED BY <3>1
  <2>4. CASE d[1] = 0 /\ d[2] # 0 /\ d[3] # 0
    <3>1. Leads(8) \/ Leads(11) \/ Leads(14) \/ Leads(17) BY <1>1, <2>4, EdgeEntries
    <3> HIDE DEF Leads
    <3> QED BY <3>1
  <2>5. CASE d[1] # 0 /\ d[2] # 0 /\ d[3] = 0
    <3>1. Leads(7) \/ Leads(10) \/ Leads(13) \/ Leads(16) BY <1>1, <2>5, EdgeEntries
    <3> HIDE DEF Leads
    <3> QED BY <3>1
  <2>6. CASE d[1] # 0 /\ d[2] = 0 /\ d[3] # 0
    <3>1. Leads(9) \/ Leads(12) \/ Leads(15) \/ Leads(18) BY <1>1, <2>6, EdgeEntries
    <3> HIDE DEF Leads
    <3> QED BY <3>1
  <2>7. CASE d[1] # 0 /\ d[2] # 0 /\ d[3] # 0
    <3>1. CASE d[2] = -1
      <4>1. Leads(19) \/ Leads(20) \/ Leads(21) \/ Leads(22) BY <1>1, <2>7, <3>1, CornerEntries
      <4> HIDE DEF Leads
      <4> QED BY <4>1
    <3>2. CASE d[2] = 1
      <4>1. Leads(23) \/ Leads(24) \/ Leads(25) \/ Leads(26) BY <1>1, <2>7, <3>2, CornerEntries
      <4> HIDE DEF Leads
      <4> QED BY <4>1
    <3> QED BY <1>1, <2>7, <3>1, <3>2
  <2> QED BY <2>1, <2>2, <2>3, <2>4, <2>5, <2>6, <2>7
<1>3. PICK i \in 1 .. 26 : Leads(i)
  <2> HIDE DEF Leads
  <2> QED BY <1>2
<1>4. R[i] \in Vectors BY RowTypes
<1> QED BY <1>3, <1>4, SameVector

\* An index of a rank, in the whole mesh.
LEMMA GlobalIs ==
  ASSUME NEW r, NEW n
  PROVE  Global(r, n) = << Loc(r)[1] * nx + CX(n), Loc(r)[2] * nx + CY(n), Loc(r)[3] * nx + CZ(n) >>
BY DEF Global, CX, CY, CZ, dx

\* Two domains of n elements per side share the nodes of their common end.
LEMMA SharedEnd ==
  ASSUME NEW n \in Nat \ {0}, NEW p \in Int, NEW q \in Int, NEW a \in 0 .. n, NEW b \in 0 .. n,
         p * n + a = q * n + b
  PROVE  \/ q - p = 0 /\ a = b
         \/ q - p = 1 /\ a = n /\ b = 0
         \/ q - p = -1 /\ a = 0 /\ b = n
<1> DEFINE c == q - p
<1>1. c \in Int /\ n * c = a - b
  <2>1. n * (q - p) = q * n - p * n /\ q * n \in Int /\ p * n \in Int OBVIOUS
  <2> QED BY <2>1
<1> HIDE DEF c
<1>2. n * 2 = n + n /\ n * (0 - 2) = 0 - (n + n) /\ n * 1 = n /\ n * 0 = 0 /\ n * (-1) = 0 - n OBVIOUS
<1>3. ~(c >= 2)
  <2> SUFFICES ASSUME c >= 2 PROVE FALSE OBVIOUS
  <2>1. n * 2 <= n * c BY <1>1, TimesMonotone
  <2> QED BY <1>1, <1>2, <2>1
<1>4. ~(c <= 0 - 2)
  <2> SUFFICES ASSUME c <= 0 - 2 PROVE FALSE OBVIOUS
  <2>1. n * c <= n * (0 - 2) BY <1>1, TimesMonotone
  <2> QED BY <1>1, <1>2, <2>1
<1>5. c = 0 \/ c = 1 \/ c = -1 BY <1>1, <1>3, <1>4
<1>6. /\ c = 0 => a = b
      /\ c = 1 => a = n /\ b = 0
      /\ c = -1 => a = 0 /\ b = n
  BY <1>1, <1>2
<1>7. \/ c = 0 /\ a = b
      \/ c = 1 /\ a = n /\ b = 0
      \/ c = -1 /\ a = 0 /\ b = n
  BY <1>5, <1>6
<1> QED BY <1>7 DEF c

-----------------------------------------------------------------------------
(* The words of a nodal exchange are those of the nodes shared.            *)

\* The origin and the target of word t of row i, within one field.
Spot(i, t) == <<Target(i, t), PeerOf(i), Idx(Mirror(i), t)>>

LEMMA NodeWords ==
  ASSUME Ctx, me \in Rank, ~planeOnly, NEW i \in ExpectedRows, NEW t \in Cells(i)
  PROVE  Spot(i, t) \in SharedNodes
<1> DEFINE d == CommRecvRows[i]  m == Mirror(i)  q == PeerOf(i)
           L == Loc(me)  M == Loc(q)
<1>1. i \in 1 .. 26 /\ HasNbr(me, d) /\ (Lower(d) => bothWays) BY ExpectedIs DEF ExpectedRows, Expects
<1>2. d \in Vectors /\ d[1] \in -1 .. 1 /\ d[2] \in -1 .. 1 /\ d[3] \in -1 .. 1 BY <1>1, RowTypes
<1>3. /\ q \in Rank /\ Delta(d) \in Int /\ q = me + Delta(d)
      /\ M[1] = L[1] + d[1] /\ M[2] = L[2] + d[2] /\ M[3] = L[3] + d[3]
  BY <1>1, <1>2, NbrPlace DEF PeerOf, Ctx
<1>4. L[1] \in Int /\ L[2] \in Int /\ L[3] \in Int BY LocTyped DEF Ctx
<1>5. Delta(d) # 0 /\ me \in Int BY <1>1, NbrIsAnother DEF Ctx, Rank
<1>6. q \in Rank \ {me} /\ (bothWays \/ q > me) BY <1>1, <1>3, <1>5 DEF Lower
<1>7. Target(i, t) = Idx(i, t) BY DEF Target
<1>8. /\ Idx(i, t) \in Points /\ CX(Idx(i, t)) = SX(i, t) /\ CY(Idx(i, t)) = SY(i, t) /\ CZ(Idx(i, t)) = SZ(i, t)
      /\ SX(i, t) \in Int /\ SY(i, t) \in Int /\ SZ(i, t) \in Int
  BY <1>1, RowPlace
<1>9. m \in 1 .. 26 /\ t \in Cells(m) BY <1>1, MirrorPlace
<1>10. Idx(m, t) \in Points /\ CX(Idx(m, t)) = SX(m, t) /\ CY(Idx(m, t)) = SY(m, t) /\ CZ(Idx(m, t)) = SZ(m, t)
  BY <1>9, RowPlace
<1>11. dx - 1 = nx /\ nx \in Nat BY DEF dx, Ctx
<1>12. /\ d[1] = 0 => SX(m, t) = SX(i, t)
       /\ d[1] = 1 => SX(i, t) = nx /\ SX(m, t) = 0
       /\ d[1] = -1 => SX(i, t) = 0 /\ SX(m, t) = nx
       /\ d[2] = 0 => SY(m, t) = SY(i, t)
       /\ d[2] = 1 => SY(i, t) = nx /\ SY(m, t) = 0
       /\ d[2] = -1 => SY(i, t) = 0 /\ SY(m, t) = nx
       /\ d[3] = 0 => SZ(m, t) = SZ(i, t)
       /\ d[3] = 1 => SZ(i, t) = nx /\ SZ(m, t) = 0
       /\ d[3] = -1 => SZ(i, t) = 0 /\ SZ(m, t) = nx
  BY <1>1, <1>11, MirrorPlace
<1> HIDE DEF d, m, q, L, M
<1>13. \A l \in Int : (l + 1) * nx = l * nx + nx /\ (l + (-1)) * nx = l * nx - nx /\ (l + 0) * nx = l * nx /\ l * nx \in Int
  BY <1>11
<1>14. L[1] * nx + SX(i, t) = M[1] * nx + SX(m, t)
  BY <1>2, <1>3, <1>4, <1>8, <1>11, <1>12, <1>13
<1>15. L[2] * nx + SY(i, t) = M[2] * nx + SY(m, t)
  BY <1>2, <1>3, <1>4, <1>8, <1>11, <1>12, <1>13
<1>16. L[3] * nx + SZ(i, t) = M[3] * nx + SZ(m, t)
  BY <1>2, <1>3, <1>4, <1>8, <1>11, <1>12, <1>13
<1>17. Global(me, Idx(i, t)) = Global(q, Idx(m, t))
  BY <1>8, <1>10, <1>14, <1>15, <1>16, GlobalIs DEF L, M
<1> DEFINE z == Spot(i, t)
<1>18. z[1] = Idx(i, t) /\ z[2] = q /\ z[3] = Idx(m, t) /\ z = <<Idx(i, t), q, Idx(m, t)>>
  BY <1>7 DEF Spot, q, m
<1> HIDE DEF z
<1>19. z \in (0 .. dx*dx*dx - 1) \X (Rank \ {me}) \X (0 .. dx*dx*dx - 1)
  BY <1>6, <1>8, <1>10, <1>18 DEF Points
<1>20. z \in SharedNodes BY <1>6, <1>17, <1>18, <1>19 DEF SharedNodes
<1> QED BY <1>20 DEF z

LEMMA WordsOfNodes ==
  ASSUME Ctx, me \in Rank, ~planeOnly, NEW z \in SharedNodes
  PROVE  \E i \in ExpectedRows : \E t \in Cells(i) : z = Spot(i, t)
<1> DEFINE x == z[1]  q == z[2]  y == z[3]  L == Loc(me)  M == Loc(q)
<1>1. /\ z = <<x, q, y>> /\ x \in Points /\ y \in Points /\ q \in Rank /\ q # me /\ (bothWays \/ q > me)
      /\ Global(me, x) = Global(q, y)
  BY DEF SharedNodes, Points
<1> HIDE DEF x, q, y
<1>2. dx = nx + 1 /\ dx - 1 = nx /\ nx \in Nat \ {0} BY DEF dx, Ctx
<1>3. /\ CX(x) \in 0 .. nx /\ CY(x) \in 0 .. nx /\ CZ(x) \in 0 .. nx
      /\ CX(y) \in 0 .. nx /\ CY(y) \in 0 .. nx /\ CZ(y) \in 0 .. nx
      /\ x = At(CX(x), CY(x), CZ(x)) /\ y = At(CX(y), CY(y), CZ(y))
  BY <1>1, <1>2, PointCoords
<1>4. /\ L[1] \in 0 .. tp - 1 /\ L[2] \in 0 .. tp - 1 /\ L[3] \in 0 .. tp - 1 /\ me = RankAt(L[1], L[2], L[3])
      /\ M[1] \in 0 .. tp - 1 /\ M[2] \in 0 .. tp - 1 /\ M[3] \in 0 .. tp - 1 /\ q = RankAt(M[1], M[2], M[3])
  BY <1>1, LocTyped DEF Ctx
<1>5. /\ L[1] * nx + CX(x) = M[1] * nx + CX(y)
      /\ L[2] * nx + CY(x) = M[2] * nx + CY(y)
      /\ L[3] * nx + CZ(x) = M[3] * nx + CZ(y)
  BY <1>1, GlobalIs
<1> HIDE DEF L, M
<1> DEFINE d == [a \in 1 .. 3 |-> M[a] - L[a]]
<1>6. d[1] = M[1] - L[1] /\ d[2] = M[2] - L[2] /\ d[3] = M[3] - L[3] OBVIOUS
<1>7. /\ \/ d[1] = 0 /\ CX(x) = CX(y)
         \/ d[1] = 1 /\ CX(x) = nx /\ CX(y) = 0
         \/ d[1] = -1 /\ CX(x) = 0 /\ CX(y) = nx
      /\ \/ d[2] = 0 /\ CY(x) = CY(y)
         \/ d[2] = 1 /\ CY(x) = nx /\ CY(y) = 0
         \/ d[2] = -1 /\ CY(x) = 0 /\ CY(y) = nx
      /\ \/ d[3] = 0 /\ CZ(x) = CZ(y)
         \/ d[3] = 1 /\ CZ(x) = nx /\ CZ(y) = 0
         \/ d[3] = -1 /\ CZ(x) = 0 /\ CZ(y) = nx
  <2> HIDE DEF d
  <2>1. /\ M[1] \in Int /\ L[1] \in Int /\ M[2] \in Int /\ L[2] \in Int /\ M[3] \in Int /\ L[3] \in Int
    BY <1>4
  <2>2. ASSUME NEW l \in Int, NEW m \in Int, NEW a \in 0 .. nx, NEW b \in 0 .. nx, l * nx + a = m * nx + b
        PROVE  \/ m - l = 0 /\ a = b
               \/ m - l = 1 /\ a = nx /\ b = 0
               \/ m - l = -1 /\ a = 0 /\ b = nx
    <3>1. nx \in Nat \ {0} BY <1>2
    <3> QED BY <2>2, <3>1, SharedEnd
  <2>3. \/ M[1] - L[1] = 0 /\ CX(x) = CX(y)
        \/ M[1] - L[1] = 1 /\ CX(x) = nx /\ CX(y) = 0
        \/ M[1] - L[1] = -1 /\ CX(x) = 0 /\ CX(y) = nx
    BY <1>3, <1>5, <2>1, <2>2
  <2>4. \/ M[2] - L[2] = 0 /\ CY(x) = CY(y)
        \/ M[2] - L[2] = 1 /\ CY(x) = nx /\ CY(y) = 0
        \/ M[2] - L[2] = -1 /\ CY(x) = 0 /\ CY(y) = nx
    BY <1>3, <1>5, <2>1, <2>2
  <2>5. \/ M[3] - L[3] = 0 /\ CZ(x) = CZ(y)
        \/ M[3] - L[3] = 1 /\ CZ(x) = nx /\ CZ(y) = 0
        \/ M[3] - L[3] = -1 /\ CZ(x) = 0 /\ CZ(y) = nx
    BY <1>3, <1>5, <2>1, <2>2
  <2> QED BY <1>6, <2>3, <2>4, <2>5
<1>8. d \in Vectors
  <2>1. \A a \in 1 .. 3 : M[a] - L[a] \in {-1, 0, 1}
    <3>1. \A a \in 1 .. 3 : a = 1 \/ a = 2 \/ a = 3 OBVIOUS
    <3> QED BY <1>6, <1>7, <3>1
  <2> QED BY <2>1 DEF Vectors
<1> HIDE DEF d
<1>9. q = me + Delta(d) /\ M[1] = L[1] + d[1] /\ M[2] = L[2] + d[2] /\ M[3] = L[3] + d[3]
  <2>1. M[1] = L[1] + d[1] /\ M[2] = L[2] + d[2] /\ M[3] = L[3] + d[3] /\ d[1] \in Int /\ d[2] \in Int /\ d[3] \in Int
    BY <1>4, <1>6
  <2>2. \A a, b \in Int : tp * (a + b) = tp * a + tp * b /\ tp * a \in Int BY DEF Ctx
  <2>3. \A a, b \in Int : tp * tp * (a + b) = tp * tp * a + tp * tp * b /\ tp * tp * a \in Int BY DEF Ctx
  <2>4. /\ tp * M[2] = tp * L[2] + tp * d[2] /\ tp * tp * M[3] = tp * tp * L[3] + tp * tp * d[3]
        /\ tp * L[2] \in Int /\ tp * d[2] \in Int /\ tp * tp * L[3] \in Int /\ tp * tp * d[3] \in Int
    <3>1. L[2] \in Int /\ L[3] \in Int BY <1>4
    <3>2. tp * M[2] = tp * (L[2] + d[2]) /\ tp * tp * M[3] = tp * tp * (L[3] + d[3]) BY <2>1
    <3> QED BY <2>1, <2>2, <2>3, <3>1, <3>2, Zenon
  <2>5. q = M[1] + tp * M[2] + tp * tp * M[3] /\ me = L[1] + tp * L[2] + tp * tp * L[3]
        /\ Delta(d) = d[1] + tp * d[2] + tp * tp * d[3]
    BY <1>4 DEF RankAt, Delta
  <2>6. q = me + Delta(d) BY <1>4, <2>1, <2>4, <2>5
  <2> QED BY <2>1, <2>6
<1>10. d[1] # 0 \/ d[2] # 0 \/ d[3] # 0
  <2> SUFFICES ASSUME d[1] = 0 /\ d[2] = 0 /\ d[3] = 0 PROVE FALSE OBVIOUS
  <2>1. M[1] = L[1] /\ M[2] = L[2] /\ M[3] = L[3] BY <1>4, <1>9
  <2> QED BY <1>1, <1>4, <2>1
<1>11. PICK i \in 1 .. 26 : CommRecvRows[i] = d BY <1>8, <1>10, RowOf
<1>12. i \in ExpectedRows /\ PeerOf(i) = q
  <2>1. HasNbr(me, d) BY <1>4, <1>9, HasNbrIs DEF L
  <2>2. Lower(d) => bothWays
    <3>1. me \in Int /\ Delta(d) \in Int BY <1>8, DeltaNeg DEF Ctx, Rank
    <3> QED BY <1>1, <1>9, <3>1 DEF Lower
  <2>3. i \in Rows BY RowCount
  <2> QED BY <1>9, <1>11, <2>1, <2>2, <2>3 DEF ExpectedRows, Expects, PeerOf
<1>13. PICK t \in Cells(i) : SX(i, t) = CX(x) /\ SY(i, t) = CY(x) /\ SZ(i, t) = CZ(x)
  <2>1. End(1) = nx /\ End(-1) = 0 BY <1>2 DEF End
  <2>2. /\ d[1] # 0 => CX(x) = End(d[1])
        /\ d[2] # 0 => CY(x) = End(d[2])
        /\ d[3] # 0 => CZ(x) = End(d[3])
    BY <1>7, <2>1
  <2>3. CX(x) \in 0 .. dx - 1 /\ CY(x) \in 0 .. dx - 1 /\ CZ(x) \in 0 .. dx - 1 BY <1>2, <1>3
  <2>4. LET e == CommRecvRows[i] IN
        /\ e[1] # 0 => CX(x) = End(e[1])
        /\ e[2] # 0 => CY(x) = End(e[2])
        /\ e[3] # 0 => CZ(x) = End(e[3])
    BY <1>11, <2>2
  <2> QED BY <1>11, <2>3, <2>4, PlaceOnto, Zenon
<1> DEFINE m == Mirror(i)
<1>14. Idx(i, t) = x BY <1>3, <1>13, Places
<1>15. m \in 1 .. 26 /\ t \in Cells(m) BY <1>11, MirrorPlace
<1>16. SX(m, t) = CX(y) /\ SY(m, t) = CY(y) /\ SZ(m, t) = CZ(y)
  <2>1. /\ d[1] = 0 => SX(m, t) = CX(x)
        /\ d[1] = 1 => SX(m, t) = 0
        /\ d[1] = -1 => SX(m, t) = nx
        /\ d[2] = 0 => SY(m, t) = CY(x)
        /\ d[2] = 1 => SY(m, t) = 0
        /\ d[2] = -1 => SY(m, t) = nx
        /\ d[3] = 0 => SZ(m, t) = CZ(x)
        /\ d[3] = 1 => SZ(m, t) = 0
        /\ d[3] = -1 => SZ(m, t) = nx
    BY <1>2, <1>11, <1>13, MirrorPlace
  <2> HIDE DEF m
  <2> QED BY <1>7, <2>1
<1>17. Idx(m, t) = y BY <1>3, <1>15, <1>16, Places
<1>18. Target(i, t) = x BY <1>14 DEF Target
<1> QED BY <1>1, <1>12, <1>17, <1>18 DEF Spot

-----------------------------------------------------------------------------
(* The words of MonoQ are the elements behind the faces.                   *)

\* The element SetupConnectivityBC names for a ghost place is the one whose
\* word is sent to it.
LEMMA BoundaryIs ==
  ASSUME Ctx, planeOnly, NEW i \in Faces, NEW a \in 0 .. nx - 1, NEW b \in 0 .. nx - 1
  PROVE  a * nx + b \in Cells(i) /\ BoundaryElem(i, a, b) = Idx(i, a * nx + b)
<1> DEFINE t == a * nx + b
<1>1. dx = nx /\ nx \in Nat \ {0} /\ i \in 1 .. 26 BY DEF dx, Ctx, Faces
<1>2. t \div nx = a /\ t % nx = b
  <2>1. t = nx * a + b BY <1>1
  <2> QED BY <1>1, <2>1, DivModUnique
<1>3. t \in Cells(i)
  <2>1. nx * a <= nx * (nx - 1) /\ nx * 0 <= nx * a /\ nx * a \in Int BY <1>1, TimesMonotone
  <2>2. nx * (nx - 1) = nx * nx - nx /\ nx * 0 = 0 /\ nx * a = a * nx BY <1>1
  <2> DEFINE u == a * nx  v == nx * nx
  <2>3. u \in Int /\ 0 <= u /\ u <= v - nx /\ v \in Int BY <1>1, <2>1, <2>2
  <2>4. Cells(i) = 0 .. v - 1 BY <1>1, CellCount DEF Cells
  <2> HIDE DEF u, v
  <2>5. u + b \in 0 .. v - 1 BY <1>1, <2>3
  <2> QED BY <2>4, <2>5 DEF u
<1>4. Idx(i, t) = FaceIdx(i - 1, t) BY DEF Idx, Faces
<1>5. i \in {1, 2, 3, 4, 5, 6} BY DEF Faces
<1>6. /\ FaceIdx(0, t) = t
      /\ FaceIdx(1, t) = nx * nx * (nx - 1) + t
      /\ FaceIdx(2, t) = a * nx * nx + b
      /\ FaceIdx(3, t) = nx * (nx - 1) + a * nx * nx + b
      /\ FaceIdx(4, t) = a * nx * nx + b * nx
      /\ FaceIdx(5, t) = nx - 1 + a * nx * nx + b * nx
  <2> HIDE DEF t
  <2> QED BY <1>1, <1>2 DEF FaceIdx
<1>7. /\ BoundaryElem(1, a, b) = t
      /\ BoundaryElem(2, a, b) = t + nx * nx * nx - nx * nx
      /\ BoundaryElem(3, a, b) = a * nx * nx + b
      /\ BoundaryElem(4, a, b) = a * nx * nx + b + nx * nx - nx
      /\ BoundaryElem(5, a, b) = a * nx * nx + b * nx
      /\ BoundaryElem(6, a, b) = a * nx * nx + b * nx + nx - 1
  BY DEF BoundaryElem, numElem
<1>8. /\ nx * nx * (nx - 1) + t = t + nx * nx * nx - nx * nx
      /\ nx * (nx - 1) + a * nx * nx + b = a * nx * nx + b + nx * nx - nx
      /\ nx - 1 + a * nx * nx + b * nx = a * nx * nx + b * nx + nx - 1
  <2>1. /\ nx * nx * (nx - 1) = nx * nx * nx - nx * nx /\ nx * (nx - 1) = nx * nx - nx
        /\ nx * nx * nx \in Int /\ nx * nx \in Int /\ a * nx * nx \in Int /\ b * nx \in Int /\ t \in Int
    BY <1>1
  <2> DEFINE c == nx * nx * nx  s == nx * nx  u == a * nx * nx  v == b * nx
  <2>2. /\ nx * nx * (nx - 1) = c - s /\ nx * (nx - 1) = s - nx
        /\ c \in Int /\ s \in Int /\ u \in Int /\ v \in Int
    BY <2>1
  <2> HIDE DEF c, s, u, v, t
  <2>3. /\ (c - s) + t = t + c - s /\ (s - nx) + u + b = u + b + s - nx /\ nx - 1 + u + v = u + v + nx - 1
    BY <1>1, <2>1, <2>2
  <2> QED BY <2>2, <2>3 DEF c, s, u, v
<1>9. BoundaryElem(i, a, b) = FaceIdx(i - 1, t)
  <2> HIDE DEF t
  <2>1. i = 1 => BoundaryElem(i, a, b) = FaceIdx(i - 1, t) BY <1>6, <1>7
  <2>2. i = 2 => BoundaryElem(i, a, b) = FaceIdx(i - 1, t) BY <1>6, <1>7, <1>8
  <2>3. i = 3 => BoundaryElem(i, a, b) = FaceIdx(i - 1, t) BY <1>6, <1>7
  <2>4. i = 4 => BoundaryElem(i, a, b) = FaceIdx(i - 1, t) BY <1>6, <1>7, <1>8
  <2>5. i = 5 => BoundaryElem(i, a, b) = FaceIdx(i - 1, t) BY <1>6, <1>7
  <2>6. i = 6 => BoundaryElem(i, a, b) = FaceIdx(i - 1, t) BY <1>6, <1>7, <1>8
  <2> QED BY <1>5, <2>1, <2>2, <2>3, <2>4, <2>5, <2>6
<1> QED BY <1>3, <1>4, <1>9

\* An element of the whole mesh belongs to one rank.
LEMMA OneElement ==
  ASSUME Ctx, planeOnly, NEW q \in Rank, NEW r \in Rank, NEW x \in Points, NEW y \in Points,
         Global(q, x) = Global(r, y)
  PROVE  q = r /\ x = y
<1>1. dx = nx /\ nx \in Nat \ {0} BY DEF dx, Ctx
<1> DEFINE L == Loc(q)  M == Loc(r)
<1>2. /\ L[1] \in Int /\ L[2] \in Int /\ L[3] \in Int /\ q = RankAt(L[1], L[2], L[3])
      /\ M[1] \in Int /\ M[2] \in Int /\ M[3] \in Int /\ r = RankAt(M[1], M[2], M[3])
  BY LocTyped DEF Ctx
<1>3. /\ CX(x) \in 0 .. nx - 1 /\ CY(x) \in 0 .. nx - 1 /\ CZ(x) \in 0 .. nx - 1 /\ x = At(CX(x), CY(x), CZ(x))
      /\ CX(y) \in 0 .. nx - 1 /\ CY(y) \in 0 .. nx - 1 /\ CZ(y) \in 0 .. nx - 1 /\ y = At(CX(y), CY(y), CZ(y))
  BY <1>1, PointCoords
<1>4. /\ L[1] * nx + CX(x) = M[1] * nx + CX(y)
      /\ L[2] * nx + CY(x) = M[2] * nx + CY(y)
      /\ L[3] * nx + CZ(x) = M[3] * nx + CZ(y)
  BY GlobalIs
<1> HIDE DEF L, M
<1>5. ASSUME NEW l \in Int, NEW m \in Int, NEW a \in 0 .. nx - 1, NEW b \in 0 .. nx - 1, l * nx + a = m * nx + b
      PROVE  l = m /\ a = b
  <2>1. nx * l + a = nx * m + b BY <1>1, <1>5
  <2>2. (nx * l + a) \div nx = l /\ (nx * l + a) % nx = a BY <1>1, DivModUnique
  <2>3. (nx * m + b) \div nx = m /\ (nx * m + b) % nx = b BY <1>1, DivModUnique
  <2> QED BY <2>1, <2>2, <2>3, Zenon
<1>6. L[1] = M[1] /\ CX(x) = CX(y) BY <1>2, <1>3, <1>4, <1>5
<1>7. L[2] = M[2] /\ CY(x) = CY(y) BY <1>2, <1>3, <1>4, <1>5
<1>8. L[3] = M[3] /\ CZ(x) = CZ(y) BY <1>2, <1>3, <1>4, <1>5
<1>9. q = r BY <1>2, <1>6, <1>7, <1>8
<1>10. x = y
  <2>1. At(CX(x), CY(x), CZ(x)) = At(CX(y), CY(y), CZ(y)) BY <1>6, <1>7, <1>8
  <2> QED BY <1>3, <2>1
<1> QED BY <1>9, <1>10

\* The word that arrives for an element is its neighbour across the face.
LEMMA AcrossFace ==
  ASSUME Ctx, me \in Rank, planeOnly, NEW i \in ExpectedRows, NEW t \in Cells(i)
  PROVE  /\ PeerOf(i) \in Rank /\ Idx(Mirror(i), t) \in Points
         /\ Global(PeerOf(i), Idx(Mirror(i), t)) = Edge(Global(me, Idx(i, t)), CommRecvRows[i])
<1> DEFINE d == CommRecvRows[i]  m == Mirror(i)  q == PeerOf(i)  L == Loc(me)  M == Loc(q)
           x == Idx(i, t)  y == Idx(m, t)
<1>1. i \in 1 .. 26 /\ HasNbr(me, d) BY ExpectedIs DEF ExpectedRows, Expects
<1>2. d \in Vectors /\ d[1] \in -1 .. 1 /\ d[2] \in -1 .. 1 /\ d[3] \in -1 .. 1 BY <1>1, RowTypes
<1>3. /\ q \in Rank /\ M[1] = L[1] + d[1] /\ M[2] = L[2] + d[2] /\ M[3] = L[3] + d[3]
  BY <1>1, <1>2, NbrPlace DEF PeerOf, Ctx
<1>4. L[1] \in Int /\ L[2] \in Int /\ L[3] \in Int BY LocTyped DEF Ctx
<1>5. /\ CX(x) = SX(i, t) /\ CY(x) = SY(i, t) /\ CZ(x) = SZ(i, t)
      /\ SX(i, t) \in Int /\ SY(i, t) \in Int /\ SZ(i, t) \in Int
  BY <1>1, RowPlace
<1>6. m \in 1 .. 26 /\ t \in Cells(m) BY <1>1, MirrorPlace
<1>7. y \in Points /\ CX(y) = SX(m, t) /\ CY(y) = SY(m, t) /\ CZ(y) = SZ(m, t) BY <1>6, RowPlace
<1>8. dx - 1 = nx - 1 /\ nx \in Nat BY DEF dx, Ctx
<1>9. /\ d[1] = 0 => SX(m, t) = SX(i, t)
      /\ d[1] = 1 => SX(i, t) = nx - 1 /\ SX(m, t) = 0
      /\ d[1] = -1 => SX(i, t) = 0 /\ SX(m, t) = nx - 1
      /\ d[2] = 0 => SY(m, t) = SY(i, t)
      /\ d[2] = 1 => SY(i, t) = nx - 1 /\ SY(m, t) = 0
      /\ d[2] = -1 => SY(i, t) = 0 /\ SY(m, t) = nx - 1
      /\ d[3] = 0 => SZ(m, t) = SZ(i, t)
      /\ d[3] = 1 => SZ(i, t) = nx - 1 /\ SZ(m, t) = 0
      /\ d[3] = -1 => SZ(i, t) = 0 /\ SZ(m, t) = nx - 1
  BY <1>1, <1>8, MirrorPlace
<1>10. Global(q, y) = << M[1] * nx + CX(y), M[2] * nx + CY(y), M[3] * nx + CZ(y) >> BY GlobalIs
<1>11. Global(me, x) = << L[1] * nx + CX(x), L[2] * nx + CY(x), L[3] * nx + CZ(x) >> BY GlobalIs
<1> HIDE DEF d, m, q, L, M, x, y
<1>12. ASSUME NEW l \in Int, NEW e \in -1 .. 1, NEW a \in Int, NEW b \in Int,
              e = 0 => b = a, e = 1 => a = nx - 1 /\ b = 0, e = -1 => a = 0 /\ b = nx - 1
       PROVE  (l + e) * nx + b = (l * nx + a) + e
  <2>1. (l + 1) * nx = l * nx + nx /\ (l + (-1)) * nx = l * nx - nx /\ l * nx \in Int BY <1>8
  <2>2. e = 0 \/ e = 1 \/ e = -1 OBVIOUS
  <2>3. CASE e = 0 BY <1>12, <2>1, <2>3
  <2>4. CASE e = 1 BY <1>8, <1>12, <2>1, <2>4
  <2>5. CASE e = -1 BY <1>8, <1>12, <2>1, <2>5
  <2> QED BY <2>2, <2>3, <2>4, <2>5
<1>13. M[1] * nx + CX(y) = (L[1] * nx + CX(x)) + d[1]
  <2>1. SX(m, t) \in Int BY <1>6, RowPlace
  <2>2. (L[1] + d[1]) * nx + SX(m, t) = (L[1] * nx + SX(i, t)) + d[1]
    BY <1>2, <1>4, <1>5, <1>9, <1>12, <2>1
  <2> QED BY <1>3, <1>5, <1>7, <2>2
<1>14. M[2] * nx + CY(y) = (L[2] * nx + CY(x)) + d[2]
  <2>1. SY(m, t) \in Int BY <1>6, RowPlace
  <2>2. (L[2] + d[2]) * nx + SY(m, t) = (L[2] * nx + SY(i, t)) + d[2]
    BY <1>2, <1>4, <1>5, <1>9, <1>12, <2>1
  <2> QED BY <1>3, <1>5, <1>7, <2>2
<1>15. M[3] * nx + CZ(y) = (L[3] * nx + CZ(x)) + d[3]
  <2>1. SZ(m, t) \in Int BY <1>6, RowPlace
  <2>2. (L[3] + d[3]) * nx + SZ(m, t) = (L[3] * nx + SZ(i, t)) + d[3]
    BY <1>2, <1>4, <1>5, <1>9, <1>12, <2>1
  <2> QED BY <1>3, <1>5, <1>7, <2>2
<1> DEFINE g == Global(me, x)
<1>16. g[1] = L[1] * nx + CX(x) /\ g[2] = L[2] * nx + CY(x) /\ g[3] = L[3] * nx + CZ(x) BY <1>11
<1> HIDE DEF g
<1>17. Global(q, y) = << g[1] + d[1], g[2] + d[2], g[3] + d[3] >>
  BY <1>10, <1>13, <1>14, <1>15, <1>16
<1>18. << g[1] + d[1], g[2] + d[2], g[3] + d[3] >> = Edge(g, d) BY DEF Edge
<1>19. Global(q, y) = Edge(g, d) BY <1>17, <1>18
<1> QED BY <1>3, <1>7, <1>19 DEF d, m, q, x, y, g

LEMMA GhostIdxTyped ==
  ASSUME Ctx, NEW r, NEW i \in Faces
  PROVE  ghostIdx(r, i) \in Int
<1> DEFINE S == {j \in 1 .. i - 1 : HasNbr(r, CommRecvRows[j])}
<1>1. i - 1 \in Int BY DEF Faces
<1>2. IsFiniteSet(1 .. i - 1) BY <1>1, FS_Interval
<1>3. S \subseteq 1 .. i - 1 OBVIOUS
<1> HIDE DEF S
<1>4. IsFiniteSet(S) BY <1>2, <1>3, FS_Subset
<1>5. Cardinality(S) \in Nat BY <1>4, FS_CardinalityType
<1> DEFINE c == Cardinality(S)
<1>6. nx \in Nat /\ nx * nx \in Nat /\ nx * nx * nx \in Nat BY DEF Ctx
<1>7. ghostIdx(r, i) = numElem + nx * nx * c BY DEF ghostIdx, S
<1> HIDE DEF c
<1>8. nx * nx * c \in Nat /\ numElem \in Nat BY <1>5, <1>6 DEF numElem, c
<1> QED BY <1>7, <1>8

LEMMA GhostWords ==
  ASSUME Ctx, me \in Rank, planeOnly, NEW i \in ExpectedRows, NEW t \in Cells(i)
  PROVE  Spot(i, t) \in GhostElems
<1> DEFINE b == Low(i, t)  a == High(i, t)  q == PeerOf(i)  y == Idx(Mirror(i), t)
<1>1. i \in 1 .. 6 /\ i \in Faces /\ i \in 1 .. 26 /\ HasNbr(me, CommRecvRows[i])
  BY RowCount DEF ExpectedRows, Expects, Faces
<1>2. dx = nx /\ nx \in Nat /\ numElem = dx * dx * dx BY DEF dx, Ctx, numElem
<1>3. a \in 0 .. nx - 1 /\ b \in 0 .. nx - 1 /\ t = nx * a + b BY <1>1, <1>2, LowHigh
<1>4. /\ q \in Rank /\ y \in Points
      /\ Global(q, y) = Edge(Global(me, Idx(i, t)), CommRecvRows[i])
  BY AcrossFace
<1> HIDE DEF a, b, q, y
<1>5. t = a * nx + b BY <1>2, <1>3
<1>6. BoundaryElem(i, a, b) = Idx(i, t) BY <1>1, <1>3, <1>5, BoundaryIs
<1>7. Target(i, t) = ghostIdx(me, i) + a * nx + b
  <2>1. ghostIdx(me, i) \in Int /\ a * nx \in Int BY <1>1, <1>2, <1>3, GhostIdxTyped
  <2>2. Target(i, t) = ghostIdx(me, i) + (a * nx + b) BY <1>5 DEF Target
  <2> QED BY <1>2, <1>3, <2>1, <2>2
<1> DEFINE B(j) == {z \in (0 .. nx - 1) \X (0 .. nx - 1) \X Rank \X (0 .. numElem - 1) :
               Global(z[3], z[4]) = Edge(Global(me, BoundaryElem(j, z[1], z[2])), CommRecvRows[j])}
           G(j) == {<<ghostIdx(me, j) + z[1]*nx + z[2], z[3], z[4]>> : z \in B(j)}
           w == <<a, b, q, y>>
<1>8. w \in B(i)
  <2>1. w[1] = a /\ w[2] = b /\ w[3] = q /\ w[4] = y OBVIOUS
  <2>2. y \in 0 .. numElem - 1 BY <1>2, <1>4 DEF Points
  <2>3. w \in (0 .. nx - 1) \X (0 .. nx - 1) \X Rank \X (0 .. numElem - 1) BY <1>3, <1>4, <2>2
  <2> HIDE DEF w
  <2> QED BY <1>4, <1>6, <2>1, <2>3
<1>9. Spot(i, t) \in G(i)
  <2>1. Spot(i, t) = <<ghostIdx(me, i) + w[1]*nx + w[2], w[3], w[4]>> BY <1>7 DEF Spot, q, y
  <2> HIDE DEF B, w
  <2> QED BY <1>8, <2>1
<1>10. GhostElems = UNION {G(j) : j \in {l \in 1 .. 6 : HasNbr(me, CommRecvRows[l])}} BY DEF GhostElems
<1> HIDE DEF G
<1> QED BY <1>1, <1>9, <1>10

LEMMA WordsOfGhosts ==
  ASSUME Ctx, me \in Rank, planeOnly, NEW z \in GhostElems
  PROVE  \E i \in ExpectedRows : \E t \in Cells(i) : z = Spot(i, t)
<1> DEFINE B(j) == {y \in (0 .. nx - 1) \X (0 .. nx - 1) \X Rank \X (0 .. numElem - 1) :
               Global(y[3], y[4]) = Edge(Global(me, BoundaryElem(j, y[1], y[2])), CommRecvRows[j])}
           G(j) == {<<ghostIdx(me, j) + y[1]*nx + y[2], y[3], y[4]>> : y \in B(j)}
<1>1. GhostElems = UNION {G(j) : j \in {l \in 1 .. 6 : HasNbr(me, CommRecvRows[l])}} BY DEF GhostElems
<1>2. PICK i \in 1 .. 6 : HasNbr(me, CommRecvRows[i]) /\ z \in G(i)
  <2> HIDE DEF G
  <2> QED BY <1>1
<1>3. PICK w \in B(i) : z = <<ghostIdx(me, i) + w[1]*nx + w[2], w[3], w[4]>> BY <1>2
<1> DEFINE a == w[1]  b == w[2]  q == w[3]  y == w[4]  t == a * nx + b
<1>4. /\ a \in 0 .. nx - 1 /\ b \in 0 .. nx - 1 /\ q \in Rank /\ y \in 0 .. numElem - 1
      /\ Global(q, y) = Edge(Global(me, BoundaryElem(i, a, b)), CommRecvRows[i])
  OBVIOUS
<1> HIDE DEF a, b, q, y
<1>5. dx = nx /\ nx \in Nat /\ numElem = dx * dx * dx BY DEF dx, Ctx, numElem
<1>6. y \in Points BY <1>4, <1>5 DEF Points
<1>7. i \in Faces /\ i \in Rows BY RowCount DEF Faces
<1>8. bothWays BY DEF planeOnly, bothWays
<1>9. i \in ExpectedRows BY <1>2, <1>7, <1>8 DEF ExpectedRows, Expects
<1>10. t \in Cells(i) /\ BoundaryElem(i, a, b) = Idx(i, t) BY <1>4, <1>7, BoundaryIs
<1>11. /\ PeerOf(i) \in Rank /\ Idx(Mirror(i), t) \in Points
       /\ Global(PeerOf(i), Idx(Mirror(i), t)) = Edge(Global(me, Idx(i, t)), CommRecvRows[i])
  BY <1>9, <1>10, AcrossFace
<1>12. q = PeerOf(i) /\ y = Idx(Mirror(i), t)
  <2> DEFINE p == PeerOf(i)  x == Idx(Mirror(i), t)
  <2>1. p \in Rank /\ x \in Points /\ Global(q, y) = Global(p, x) BY <1>4, <1>10, <1>11
  <2> HIDE DEF p, x, t
  <2>2. q = p /\ y = x BY <1>4, <1>6, <2>1, OneElement
  <2> QED BY <2>2 DEF p, x
<1>13. Target(i, t) = ghostIdx(me, i) + a * nx + b
  <2>1. ghostIdx(me, i) \in Int /\ a * nx \in Int BY <1>4, <1>5, <1>7, GhostIdxTyped
  <2>2. Target(i, t) = ghostIdx(me, i) + (a * nx + b) BY DEF Target
  <2> QED BY <1>4, <1>5, <2>1, <2>2
<1>14. z = <<ghostIdx(me, i) + a * nx + b, q, y>> BY <1>3 DEF a, b, q, y
<1>15. z = Spot(i, t) BY <1>12, <1>13, <1>14 DEF Spot
<1> QED BY <1>9, <1>10, <1>15

-----------------------------------------------------------------------------
(* Every word arrives where it belongs, exactly once.                      *)

\* A word, but for the row that brought it.
Content(g) == [field |-> g.field, at |-> g.at, from |-> g.from, node |-> g.node]

\* A message is finite, and a row's words differ from those of the other rows.
LEMMA MessageFinite ==
  ASSUME Ctx, NEW i \in 1 .. 26
  PROVE  IsFiniteSet(Message(i))
<1> DEFINE W == Words(i)  f == [w \in W |-> Delivered(i, w)]
<1>1. IsFiniteSet(W)
  <2> DEFINE n == Length(i) - 1
  <2>1. W = 0 .. n /\ n \in Int
    <3>1. Length(i) \in Nat BY Lengths
    <3>2. Words(i) = 0 .. Length(i) - 1 BY WordOf, Zenon
    <3> QED BY <3>1, <3>2
  <2> HIDE DEF n, W
  <2>2. 0 \in Int OBVIOUS
  <2>3. IsFiniteSet(0 .. n) BY <2>1, <2>2, FS_Interval
  <2> QED BY <2>1, <2>3
<1>2. f \in Surjection(W, Message(i)) BY DEF Surjection, Message
<1> HIDE DEF f, W
<1> QED BY <1>1, <1>2, FS_Surjection

LEMMA RowsFinite == IsFiniteSet(ExpectedRows)
<1>1. IsFiniteSet(1 .. 26)
  <2> DEFINE n == 26
  <2>1. 1 \in Int /\ n \in Int OBVIOUS
  <2> HIDE DEF n
  <2>2. IsFiniteSet(1 .. n) BY <2>1, FS_Interval
  <2> QED BY <2>2 DEF n
<1> QED BY <1>1, ExpectedIs, FS_Subset

LEMMA MessagesFinite ==
  ASSUME Ctx
  PROVE  IsFiniteSet(UNION {Message(i) : i \in ExpectedRows})
<1> DEFINE S == {Message(i) : i \in ExpectedRows}  f == [i \in ExpectedRows |-> Message(i)]
<1>1. f \in Surjection(ExpectedRows, S) BY DEF Surjection
<1>2. \A T \in S : IsFiniteSet(T) BY ExpectedIs, MessageFinite
<1> HIDE DEF f, S
<1>3. IsFiniteSet(S) BY <1>1, RowsFinite, FS_Surjection
<1>4. IsFiniteSet(UNION S) BY <1>2, <1>3, FS_UNION
<1> QED BY <1>4 DEF S

\* No two words have the same content: a rank sends me one message.
LEMMA ContentTells ==
  ASSUME Ctx, me \in Rank, NEW i \in ExpectedRows, NEW j \in ExpectedRows, NEW v, NEW w,
         Content(Delivered(i, v)) = Content(Delivered(j, w))
  PROVE  Delivered(i, v) = Delivered(j, w)
<1>1. \A l, u : Content(Delivered(l, u)) =
        [field |-> FieldOf(l, u), at |-> Target(l, CellOf(l, u)), from |-> PeerOf(l),
         node |-> Idx(Mirror(l), CellOf(l, u))]
  BY DEF Content, Delivered
<1> DEFINE c == Content(Delivered(i, v))
<1>2. /\ c.field = FieldOf(i, v) /\ c.at = Target(i, CellOf(i, v)) /\ c.from = PeerOf(i)
      /\ c.node = Idx(Mirror(i), CellOf(i, v))
  BY <1>1
<1>3. /\ c.field = FieldOf(j, w) /\ c.at = Target(j, CellOf(j, w)) /\ c.from = PeerOf(j)
      /\ c.node = Idx(Mirror(j), CellOf(j, w))
  BY <1>1
<1> HIDE DEF c
<1>4. PeerOf(i) = PeerOf(j) BY <1>2, <1>3
<1>5. i = j BY <1>4, OneRowPerRank DEF PeerOf
<1> QED BY <1>2, <1>3, <1>5 DEF Delivered

\* What the phase wants is what its messages bring.
LEMMA SpotsAre ==
  ASSUME Ctx, me \in Rank
  PROVE  LET X == IF planeOnly THEN GhostElems ELSE SharedNodes IN
         /\ \A i \in ExpectedRows : \A t \in Cells(i) : Spot(i, t) \in X
         /\ \A z \in X : \E i \in ExpectedRows : \E t \in Cells(i) : z = Spot(i, t)
<1>1. CASE planeOnly
  <2>1. /\ \A i \in ExpectedRows : \A t \in Cells(i) : Spot(i, t) \in GhostElems
        /\ \A z \in GhostElems : \E i \in ExpectedRows : \E t \in Cells(i) : z = Spot(i, t)
    BY <1>1, GhostWords, WordsOfGhosts
  <2> QED BY <1>1, <2>1
<1>2. CASE ~planeOnly
  <2>1. /\ \A i \in ExpectedRows : \A t \in Cells(i) : Spot(i, t) \in SharedNodes
        /\ \A z \in SharedNodes : \E i \in ExpectedRows : \E t \in Cells(i) : z = Spot(i, t)
    BY <1>2, NodeWords, WordsOfNodes
  <2> QED BY <1>2, <2>1
<1> QED BY <1>1, <1>2

LEMMA ContentsWanted ==
  ASSUME Ctx, me \in Rank
  PROVE  {Content(g) : g \in UNION {Message(i) : i \in ExpectedRows}} = Wanted
<1> DEFINE X == IF planeOnly THEN GhostElems ELSE SharedNodes
           Word(f, z) == [field |-> f, at |-> z[1], from |-> z[2], node |-> z[3]]
           All == UNION {Message(i) : i \in ExpectedRows}
<1>1. Wanted = {Word(f, z) : f \in 0 .. xferFields - 1, z \in X} BY DEF Wanted
<1>2. \A i, w : Content(Delivered(i, w)) = Word(FieldOf(i, w), Spot(i, CellOf(i, w)))
  BY DEF Content, Delivered, Spot
<1>3. /\ \A i \in ExpectedRows : \A t \in Cells(i) : Spot(i, t) \in X
      /\ \A z \in X : \E i \in ExpectedRows : \E t \in Cells(i) : z = Spot(i, t)
  BY SpotsAre
<1>4. \A i \in ExpectedRows : i \in 1 .. 26 BY ExpectedIs
<1>5. \A g : g \in All <=> \E i \in ExpectedRows : \E w \in Words(i) : g = Delivered(i, w)
  BY DEF Message
<1> HIDE DEF X, Word, All
<1>6. ASSUME NEW g \in All PROVE Content(g) \in Wanted
  <2>1. PICK i \in ExpectedRows : \E w \in Words(i) : g = Delivered(i, w) BY <1>5
  <2>2. PICK w \in Words(i) : g = Delivered(i, w) BY <2>1
  <2>3. FieldOf(i, w) \in 0 .. xferFields - 1 /\ CellOf(i, w) \in Cells(i) BY <1>4, WordOf
  <2>4. Spot(i, CellOf(i, w)) \in X BY <1>3, <2>3
  <2> QED BY <1>1, <1>2, <2>2, <2>3, <2>4
<1>7. ASSUME NEW c \in Wanted PROVE \E g \in All : c = Content(g)
  <2>1. PICK f \in 0 .. xferFields - 1, z \in X : c = Word(f, z) BY <1>1
  <2>2. PICK i \in ExpectedRows : \E t \in Cells(i) : z = Spot(i, t) BY <1>3
  <2>3. PICK t \in Cells(i) : z = Spot(i, t) BY <2>2
  <2>4. PICK w \in Words(i) : FieldOf(i, w) = f /\ CellOf(i, w) = t BY <1>4, WordOf
  <2>5. Delivered(i, w) \in All BY <1>5
  <2>6. c = Content(Delivered(i, w)) BY <1>2, <2>1, <2>3, <2>4
  <2> QED BY <2>5, <2>6
<1>8. {Content(g) : g \in All} = Wanted BY <1>6, <1>7
<1> QED BY <1>8 DEF All

LEMMA Exact == LayoutInv /\ WordsInv => ExchangeExact
<1> SUFFICES ASSUME LayoutInv, WordsInv, step = "done" PROVE ExchangeExact BY DEF ExchangeExact
<1>1. Ctx /\ me \in Rank BY Context DEF LayoutInv
<1>2. todo = {} BY DEF WordsInv
<1>3. Placed = ExpectedRows BY <1>2 DEF Placed
<1>4. got = UNION {Message(i) : i \in ExpectedRows} BY <1>3, GotIs DEF WordsInv
<1> DEFINE words == {Content(g) : g \in got}  f == [g \in got |-> Content(g)]
<1>5. words = Wanted BY <1>1, <1>4, ContentsWanted
<1>6. IsFiniteSet(got) BY <1>1, <1>4, MessagesFinite
<1>7. \A g, h \in got : Content(g) = Content(h) => g = h
  <2> SUFFICES ASSUME NEW g \in got, NEW h \in got, Content(g) = Content(h) PROVE g = h OBVIOUS
  <2>1. \A u \in got : \E i \in ExpectedRows : \E w : u = Delivered(i, w) BY <1>4 DEF Message
  <2>2. PICK i \in ExpectedRows : \E w : g = Delivered(i, w) BY <2>1
  <2>3. PICK j \in ExpectedRows : \E w : h = Delivered(j, w) BY <2>1
  <2>4. PICK v : g = Delivered(i, v) BY <2>2
  <2>5. PICK w : h = Delivered(j, w) BY <2>3
  <2> QED BY <1>1, <2>4, <2>5, ContentTells
<1>8. f \in Surjection(got, words) /\ f \in Injection(got, words)
  BY <1>7 DEF Surjection, Injection, IsInjective
<1> HIDE DEF f
<1>9. Cardinality(got) = Cardinality(words)
  <2> HIDE DEF words
  <2> QED BY <1>6, <1>8, FS_Surjection
<1> QED BY <1>5, <1>9 DEF ExchangeExact, Content

\* For every number of ranks per side and of elements per rank, in every
\* exchange and on every path: once a rank has unpacked, each node it shares with
\* another rank has that rank's word for the same node, field by field, and each
\* ghost place the element on the other side of the face, each exactly once.
THEOREM WordsArrive == Spec => []ExchangeExact
<1>1. LayoutInv /\ WordsInv => ExchangeExact BY Exact
<1> QED BY <1>1, LayoutInvariant, WordsInvariant, PTL
=============================================================================

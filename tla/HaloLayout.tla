----------------------------- MODULE HaloLayout -----------------------------
(***************************************************************************)
(* Where the words of a LULESH halo exchange go: the order in which a rank *)
(* posts its receives (CommRecv, commRecvBegin), the place a peer computes *)
(* for a direct write (shmRecvOffset), the order of the packs and sends    *)
(* (CommSend, CommSendGpu, in both of its versions) and the order of the   *)
(* unpacks (CommSBN, CommSyncPosVel, CommMonoQ).  Each function walks a    *)
(* list of its own of the 26 neighbours with its own counters; nothing but *)
(* their agreement makes a word arrive at the node it belongs to.          *)
(*                                                                         *)
(* One exchange is followed from the side of one receiver, me: it posts,   *)
(* its neighbours send (what they pack was there before the exchange), it  *)
(* unpacks.  A word is abstracted to its origin: rank, field and index.    *)
(***************************************************************************)
EXTENDS Integers, Sequences, FiniteSets

CONSTANTS Shapes,  \* records [tp |-> ranks per side, nx |-> elements per side]
          Phases,  \* among "mass", "sbn", "sync", "monoq"
          Paths    \* among "isend", "fallback", "put", "direct"

ASSUME LayoutAssumption ==
  /\ Shapes \subseteq [tp : Nat \ {0}, nx : Nat \ {0}]
  /\ Phases \subseteq {"mass", "sbn", "sync", "monoq"}
  /\ Paths \subseteq {"isend", "fallback", "put", "direct"}

VARIABLES
  tp, nx,   \* the shape: the mesh is a cube of cubes
  ph,       \* the exchange
  path,     \* how the messages to me travel
  me,       \* the receiver
  step,     \* what the receiver does: post, send (its peers), unpack, done
  k,        \* the row of the walk, from 1
  cnt,      \* pmsg, emsg, cmsg
  posts,    \* the receives posted
  todo,     \* the ranks that have not sent yet
  buf,      \* the receive buffer of me, the words written so far
  got       \* the words unpacked: where they went and what they are

inputs == <<tp, nx, ph, path, me>>
vars == <<inputs, step, k, cnt, posts, todo, buf, got>>

-----------------------------------------------------------------------------
(* The decomposition (InitMeshDecomp) and the phases.                      *)

Rank == 0 .. tp * tp * tp - 1
Loc(r) == <<r % tp, (r \div tp) % tp, r \div (tp * tp)>>

\* A direction is <<column, row, plane>>, each -1, 0 or 1.
colMin == <<-1, 0, 0>>
colMax == <<1, 0, 0>>
rowMin == <<0, -1, 0>>
rowMax == <<0, 1, 0>>
planeMin == <<0, 0, -1>>
planeMax == <<0, 0, 1>>
Edge(d, e) == [i \in 1 .. 3 |-> d[i] + e[i]]
Corner(d, e, f) == Edge(Edge(d, e), f)
Neg(d) == [i \in 1 .. 3 |-> -d[i]]
Delta(d) == d[1] + tp * d[2] + tp * tp * d[3]
Lower(d) == Delta(d) < 0
Class(d) == Cardinality({i \in 1 .. 3 : d[i] # 0})   \* face 1, edge 2, corner 3

\* rowMin && colMin and the like: there is a domain in that direction.
HasNbr(r, d) == \A i \in 1 .. 3 : Loc(r)[i] + d[i] \in 0 .. tp - 1

xferFields == CASE ph = "mass" -> 1 [] ph \in {"sbn", "monoq"} -> 3 [] ph = "sync" -> 6
bothWays == ph # "sync"          \* doRecv and doSend
planeOnly == ph = "monoq"
dx == IF planeOnly THEN nx ELSE nx + 1

\* Guards of a receive and of a send: with doRecv = doSend = false data goes
\* from higher ranks to lower ones only.  In every walk the rows guarded by
\* doRecv are those of the lower ranks, and by doSend those of the higher.
Expects(r, d) == HasNbr(r, d) /\ (Lower(d) => bothWays)
SendsTo(r, d) == HasNbr(r, d) /\ (~Lower(d) => bothWays)

-----------------------------------------------------------------------------
(* The buffers (SetupCommBuffers).                                         *)

PAD == 16                  \* CACHE_COHERENCE_PAD_REAL
MAX_FIELDS == 6            \* MAX_FIELDS_PER_MPI_COMM
CacheAlign(n) == ((n + PAD - 1) \div PAD) * PAD
maxPlaneSize == CacheAlign((nx + 1) * (nx + 1))
maxEdgeSize == CacheAlign(nx + 1)

Directions == {d \in [1 .. 3 -> {-1, 0, 1}] : Class(d) > 0}
Nbrs(r, c) == Cardinality({d \in Directions : Class(d) = c /\ HasNbr(r, d)})
AtLeastOne(n) == IF n = 0 THEN 1 ELSE n      \* the job of one rank
comBufSize(r) ==
  AtLeastOne((Nbrs(r, 1) + Nbrs(r, 2)) * maxPlaneSize * MAX_FIELDS + Nbrs(r, 3) * PAD)

\* Offset and request slot of the next message, from the walk's counters.
NoCnt == [p |-> 0, e |-> 0, c |-> 0]
Bump(n, d) == CASE Class(d) = 1 -> [n EXCEPT !.p = @ + 1]
                [] Class(d) = 2 -> [n EXCEPT !.e = @ + 1]
                [] Class(d) = 3 -> [n EXCEPT !.c = @ + 1]
OffsetTight(n) == n.p * xferFields * maxPlaneSize + n.e * xferFields * maxEdgeSize + n.c
Offset(n) == n.p * xferFields * maxPlaneSize + n.e * xferFields * maxEdgeSize + n.c * PAD
SlotOf(n) == n.p + n.e + n.c
Count(d) == CASE Class(d) = 1 -> dx * dx [] Class(d) = 2 -> dx [] Class(d) = 3 -> 1

\* The counters before row i of a walk over rows that takes those with guard G.
Before(rows, i, G(_)) ==
  LET Taken(c) == Cardinality({j \in 1 .. i - 1 : Class(rows[j]) = c /\ G(rows[j])})
  IN [p |-> Taken(1), e |-> Taken(2), c |-> Taken(3)]

-----------------------------------------------------------------------------
(* The walks.  Each list is the order of one function, row by row.         *)

CommRecvFaces == << planeMin, planeMax, rowMin, rowMax, colMin, colMax >>
CommRecvEdges ==
  << Edge(rowMin, colMin), Edge(rowMin, planeMin), Edge(colMin, planeMin),
     Edge(rowMax, colMax), Edge(rowMax, planeMax), Edge(colMax, planeMax),
     Edge(rowMax, colMin), Edge(rowMin, planeMax), Edge(colMin, planeMax),
     Edge(rowMin, colMax), Edge(rowMax, planeMin), Edge(colMax, planeMin) >>
CommRecvCorners ==
  << Corner(rowMin, colMin, planeMin), Corner(rowMin, colMin, planeMax),
     Corner(rowMin, colMax, planeMin), Corner(rowMin, colMax, planeMax),
     Corner(rowMax, colMin, planeMin), Corner(rowMax, colMin, planeMax),
     Corner(rowMax, colMax, planeMin), Corner(rowMax, colMax, planeMax) >>
CommRecvRows == CommRecvFaces \o CommRecvEdges \o CommRecvCorners

\* commRecvBegin has the same guards in g, ge, gc, and the ranks apart from
\* them, in d, de, dc; the direct sends have this list of ranks too.
tp2 == tp * tp
Deltas ==
  << -tp2, tp2, -tp, tp, -1, 1,
     -tp - 1, -tp2 - tp, -tp2 - 1, tp + 1, tp2 + tp, tp2 + 1,
     tp - 1, tp2 - tp, tp2 - 1, -tp + 1, -tp2 + tp, -tp2 + 1,
     -tp2 - tp - 1, tp2 - tp - 1, -tp2 - tp + 1, tp2 - tp + 1,
     -tp2 + tp - 1, tp2 + tp - 1, -tp2 + tp + 1, tp2 + tp + 1 >>

shmRecvOffsetRows ==
  << <<0,0,-1>>, <<0,0,1>>, <<0,-1,0>>, <<0,1,0>>, <<-1,0,0>>, <<1,0,0>>,
     <<-1,-1,0>>, <<0,-1,-1>>, <<-1,0,-1>>, <<1,1,0>>, <<0,1,1>>, <<1,0,1>>,
     <<-1,1,0>>, <<0,-1,1>>, <<-1,0,1>>, <<1,-1,0>>, <<0,1,-1>>, <<1,0,-1>>,
     <<-1,-1,-1>>, <<-1,-1,1>>, <<1,-1,-1>>, <<1,-1,1>>,
     <<-1,1,-1>>, <<-1,1,1>>, <<1,1,-1>>, <<1,1,1>> >>

\* The guards of CommSend and CommSendGpu, so the direction a row sends in.
CommSendFaces == << planeMin, planeMax, rowMin, rowMax, colMin, colMax >>
CommSendEdges ==
  << Edge(rowMin, colMin), Edge(rowMin, planeMin), Edge(colMin, planeMin),
     Edge(rowMax, colMax), Edge(rowMax, planeMax), Edge(colMax, planeMax),
     Edge(rowMax, colMin), Edge(rowMin, planeMax), Edge(colMin, planeMax),
     Edge(rowMin, colMax), Edge(rowMax, planeMin), Edge(colMax, planeMin) >>
CommSendCorners ==
  << Corner(rowMin, colMin, planeMin), Corner(rowMin, colMin, planeMax),
     Corner(rowMin, colMax, planeMin), Corner(rowMin, colMax, planeMax),
     Corner(rowMax, colMin, planeMin), Corner(rowMax, colMin, planeMax),
     Corner(rowMax, colMax, planeMin), Corner(rowMax, colMax, planeMax) >>
CommSendRows == CommSendFaces \o CommSendEdges \o CommSendCorners

\* The position of the sender a row of CommSendGpu names to shmRecvOffset.
CommSendGpuFaces == << <<0,0,1>>, <<0,0,-1>>, <<0,1,0>>, <<0,-1,0>>, <<1,0,0>>, <<-1,0,0>> >>
CommSendGpuEdges ==
  << <<1,1,0>>, <<0,1,1>>, <<1,0,1>>, <<-1,-1,0>>, <<0,-1,-1>>, <<-1,0,-1>>,
     <<1,-1,0>>, <<0,1,-1>>, <<1,0,-1>>, <<-1,1,0>>, <<0,-1,1>>, <<-1,0,1>> >>
CommSendGpuCorners ==
  << <<1,1,1>>, <<1,1,-1>>, <<-1,1,1>>, <<-1,1,-1>>,
     <<1,-1,1>>, <<1,-1,-1>>, <<-1,-1,1>>, <<-1,-1,-1>> >>
CommSendGpuArgs == CommSendGpuFaces \o CommSendGpuEdges \o CommSendGpuCorners

\* The unpacks of the sums (of the forces on the GPU, of the masses on the host).
CommSBNFaces == << planeMin, planeMax, rowMin, rowMax, colMin, colMax >>
CommSBNEdges ==
  << Edge(rowMin, colMin), Edge(rowMin, planeMin), Edge(colMin, planeMin),
     Edge(rowMax, colMax), Edge(rowMax, planeMax), Edge(colMax, planeMax),
     Edge(rowMax, colMin), Edge(rowMin, planeMax), Edge(colMin, planeMax),
     Edge(rowMin, colMax), Edge(rowMax, planeMin), Edge(colMax, planeMin) >>
CommSBNCorners ==
  << Corner(rowMin, colMin, planeMin), Corner(rowMin, colMin, planeMax),
     Corner(rowMin, colMax, planeMin), Corner(rowMin, colMax, planeMax),
     Corner(rowMax, colMin, planeMin), Corner(rowMax, colMin, planeMax),
     Corner(rowMax, colMax, planeMin), Corner(rowMax, colMax, planeMax) >>

\* The unpack of positions and velocities.
CommSyncPosVelFaces == << planeMin, planeMax, rowMin, rowMax, colMin, colMax >>
CommSyncPosVelEdgesSwapped ==
  [CommRecvEdges EXCEPT ![7] = CommRecvEdges[8], ![8] = CommRecvEdges[7]]
CommSyncPosVelEdges ==
  << Edge(rowMin, colMin), Edge(rowMin, planeMin), Edge(colMin, planeMin),
     Edge(rowMax, colMax), Edge(rowMax, planeMax), Edge(colMax, planeMax),
     Edge(rowMax, colMin), Edge(rowMin, planeMax), Edge(colMin, planeMax),
     Edge(rowMin, colMax), Edge(rowMax, planeMin), Edge(colMax, planeMin) >>
CommSyncPosVelCorners ==
  << Corner(rowMin, colMin, planeMin), Corner(rowMin, colMin, planeMax),
     Corner(rowMin, colMax, planeMin), Corner(rowMin, colMax, planeMax),
     Corner(rowMax, colMin, planeMin), Corner(rowMax, colMin, planeMax),
     Corner(rowMax, colMax, planeMin), Corner(rowMax, colMax, planeMax) >>

\* The unpack of the gradients: faces only.
CommMonoQFaces == << planeMin, planeMax, rowMin, rowMax, colMin, colMax >>

UnpackRows ==
  CASE ph \in {"mass", "sbn"} -> CommSBNFaces \o CommSBNEdges \o CommSBNCorners
    [] ph = "sync" -> CommSyncPosVelFaces \o CommSyncPosVelEdges \o CommSyncPosVelCorners
    [] ph = "monoq" -> CommMonoQFaces

-----------------------------------------------------------------------------
(* Index maps.  The template argument of SendPlane, AddPlane, CopyPlane    *)
(* and of the edge kernels is the row's place among the faces or edges.    *)

FaceIdx(T, t) ==
  LET i == t \div dx  j == t % dx IN
  CASE T = 0 -> t                          [] T = 1 -> dx*dx*(dx-1) + t
    [] T = 2 -> i*dx*dx + j                [] T = 3 -> dx*(dx-1) + i*dx*dx + j
    [] T = 4 -> i*dx*dx + j*dx             [] T = 5 -> dx - 1 + i*dx*dx + j*dx

EdgeIdx(T, i) ==
  CASE T = 0 -> i*dx*dx                    [] T = 1 -> i
    [] T = 2 -> i*dx                       [] T = 3 -> dx*dx - 1 + i*dx*dx
    [] T = 4 -> dx*(dx-1) + dx*dx*(dx-1) + i
    [] T = 5 -> dx*dx*(dx-1) + dx - 1 + i*dx
    [] T = 6 -> dx*(dx-1) + i*dx*dx        [] T = 7 -> dx*dx*(dx-1) + i
    [] T = 8 -> dx*dx*(dx-1) + i*dx        [] T = 9 -> dx - 1 + i*dx*dx
    [] T = 10 -> dx*(dx-1) + i             [] T = 11 -> dx - 1 + i*dx

\* Places of the corners in the order of the rows.
srcIdx == << 0, dx*dx*(dx-1), dx-1, dx*dx*(dx-1) + dx-1,
             dx*(dx-1), dx*dx*(dx-1) + dx*(dx-1), dx*dx - 1, dx*dx*dx - 1 >>

\* Word t of the message of row i, as an index into a field.
Idx(i, t) == CASE i \in 1 .. 6   -> FaceIdx(i - 1, t)
               [] i \in 7 .. 18  -> EdgeIdx(i - 7, t)
               [] i \in 19 .. 26 -> srcIdx[i - 18]

\* The direct sends write at the mirrored place (RT, dstIdx).
FaceRT == <<1, 0, 3, 2, 5, 4>>
EdgeRTSame == <<0, 1, 2, 3, 4, 5, 6, 7, 8, 9, 10, 11>>
EdgeRT == <<3, 4, 5, 0, 1, 2, 9, 10, 11, 6, 7, 8>>
dstIdx == << dx*dx*dx - 1, dx*dx - 1, dx*(dx-1) + dx*dx*(dx-1), dx*(dx-1),
             dx-1 + dx*dx*(dx-1), dx-1, dx*dx*(dx-1), 0 >>
MirrorIdx(i, t) == CASE i \in 1 .. 6   -> FaceIdx(FaceRT[i], t)
                     [] i \in 7 .. 18  -> EdgeIdx(EdgeRT[i - 6], t)
                     [] i \in 19 .. 26 -> dstIdx[i - 18]

\* The ghost areas behind the elements (CommMonoQ), face after face, and the
\* element whose neighbour on that face they hold (SetupConnectivityBC).
numElem == nx * nx * nx
ghostIdx(r, i) == numElem + nx * nx * Cardinality({j \in 1 .. i - 1 : HasNbr(r, CommRecvRows[j])})
BoundaryElem(i, a, b) ==
  LET planeInc == a*nx*nx  rowInc == a*nx IN
  CASE i = 1 -> rowInc + b                  [] i = 2 -> rowInc + b + numElem - nx*nx
    [] i = 3 -> planeInc + b                [] i = 4 -> planeInc + b + nx*nx - nx
    [] i = 5 -> planeInc + b*nx             [] i = 6 -> planeInc + b*nx + nx - 1

-----------------------------------------------------------------------------
(* What a sender computes.                                                 *)

None == -1

\* shmRecvOffset: where rank r expects the message from direction d; it aborts
\* when r expects none.
shmRecvOffsetBoth(r, d) ==
  LET i == CHOOSE j \in 1 .. 26 : shmRecvOffsetRows[j] = d
  IN Offset(Before(shmRecvOffsetRows, i, LAMBDA e : HasNbr(r, e)))

shmRecvOffset(r, d) ==
  LET i == CHOOSE j \in 1 .. 26 : shmRecvOffsetRows[j] = d IN
  IF Expects(r, d) /\ (planeOnly => i <= 6)
  THEN Offset(Before(shmRecvOffsetRows, i, LAMBDA e : Expects(r, e)))
  ELSE None

\* Where rank r packs the message of row i in its own send buffer.
PackOffset(r, i) == Offset(Before(CommSendRows, i, LAMBDA e : SendsTo(r, e)))

Rows == 1 .. (IF planeOnly THEN 6 ELSE 26)
Sends(r) == {i \in Rows : SendsTo(r, CommSendRows[i])}
SendRank(r, i) == r + (IF path = "direct" THEN Deltas[i] ELSE Delta(CommSendRows[i]))
SenderPos(i) == IF path = "direct" THEN Neg(CommSendRows[i]) ELSE CommSendGpuArgs[i]

\* The words of a message, in the order they are packed: field by field.
Words(i) == 0 .. xferFields * Count(CommSendRows[i]) - 1
FieldOf(i, w) == w \div Count(CommSendRows[i])
CellOf(i, w) == w % Count(CommSendRows[i])

-----------------------------------------------------------------------------
Twosided == path \in {"isend", "fallback"}
DirectFields == path = "direct" /\ ~planeOnly

\* The initial exchange of the masses is plain MPI on the host in every
\* backend; the direct backend writes into fields, but packs for MonoQ.
Init ==
  /\ \E s \in Shapes : tp = s.tp /\ nx = s.nx
  /\ ph \in Phases
  /\ path \in Paths /\ (ph = "mass" => path = "isend")
  /\ me \in Rank
  /\ step = IF path = "direct" THEN "send" ELSE "post"
  /\ k = 1
  /\ cnt = NoCnt
  /\ posts = <<>>
  /\ todo = {q \in Rank : \E i \in Sends(q) : SendRank(q, i) = me}
  /\ buf = <<>>
  /\ got = {}

Walk(rows, next) ==
  IF k = Cardinality(Rows) THEN /\ step' = next /\ k' = 1 /\ cnt' = NoCnt
  ELSE /\ step' = step /\ k' = k + 1
       /\ cnt' = IF Expects(me, rows[k]) THEN Bump(cnt, rows[k]) ELSE cnt

\* A row of CommRecv or commRecvBegin: a receive, or nothing.
FromRankMirrored == me - Delta(CommRecvRows[k])
FromRank == me + (IF path = "isend" THEN Delta(CommRecvRows[k]) ELSE Deltas[k])
Post ==
  /\ step = "post"
  /\ posts' = IF Expects(me, CommRecvRows[k])
              THEN Append(posts, [from |-> FromRank, offset |-> Offset(cnt), slot |-> SlotOf(cnt),
                                  count |-> xferFields * Count(CommRecvRows[k])])
              ELSE posts
  /\ Walk(CommRecvRows, "send")
  /\ UNCHANGED <<inputs, todo, buf, got>>

\* Rank q sends row i to me: into the receive posted for q, or by a copy to
\* where q computes that me expects it, or straight into the fields.
Base(q, i) ==
  IF Twosided THEN posts[CHOOSE j \in DOMAIN posts : posts[j].from = q].offset
  ELSE shmRecvOffset(me, SenderPos(i))

Written(q, i) == {Base(q, i) + w : w \in Words(i)}

Sender == CHOOSE q \in todo : \A p \in todo : q <= p
Send(i) ==
  LET q == Sender IN
  /\ step = "send" /\ todo # {}
  /\ i \in Sends(q) /\ SendRank(q, i) = me
  /\ todo' = todo \ {q}
  /\ IF DirectFields
     THEN /\ got' = got \cup {[row |-> i, field |-> FieldOf(i, w), at |-> MirrorIdx(i, CellOf(i, w)),
                               from |-> q, node |-> Idx(i, CellOf(i, w))] : w \in Words(i)}
          /\ buf' = buf
     ELSE /\ buf' = [a \in Written(q, i) \cup DOMAIN buf |->
                       LET w == a - Base(q, i) IN
                       IF a \in Written(q, i)
                       THEN [field |-> FieldOf(i, w), from |-> q, node |-> Idx(i, CellOf(i, w))]
                       ELSE buf[a]]
          /\ got' = got
  /\ UNCHANGED <<inputs, step, k, cnt, posts>>

\* All messages are there.
Arrived ==
  /\ step = "send" /\ todo = {}
  /\ step' = IF DirectFields THEN "done" ELSE "unpack"
  /\ UNCHANGED <<inputs, k, cnt, posts, todo, buf, got>>

\* A row of the unpack: wait for the request, then add or copy the words.
Target(i, t) == IF planeOnly THEN ghostIdx(me, i) + t ELSE Idx(i, t)
Unpack ==
  /\ step = "unpack"
  /\ got' = IF ~Expects(me, UnpackRows[k]) THEN got
            ELSE got \cup {LET a == Offset(cnt) + w IN
                           [row |-> k, field |-> FieldOf(k, w), at |-> Target(k, CellOf(k, w)),
                            from |-> IF a \in DOMAIN buf /\ buf[a].field = FieldOf(k, w)
                                     THEN buf[a].from ELSE None,
                            node |-> IF a \in DOMAIN buf THEN buf[a].node ELSE None] : w \in Words(k)}
  /\ Walk(UnpackRows, "done")
  /\ UNCHANGED <<inputs, posts, todo, buf>>

Terminated == step = "done" /\ UNCHANGED vars

Next == Post \/ (\E i \in 1 .. 26 : Send(i)) \/ Arrived \/ Unpack \/ Terminated

Spec == Init /\ [][Next]_vars
-----------------------------------------------------------------------------
(* Properties.                                                             *)

\* Values of every variable; a receive names a rank and one of 26 requests.
TypeOK ==
  /\ [tp |-> tp, nx |-> nx] \in Shapes /\ ph \in Phases /\ path \in Paths /\ me \in Rank
  /\ step \in {"post", "send", "unpack", "done"}
  /\ k \in 1 .. 26 /\ cnt \in [{"p", "e", "c"} -> 0 .. 12]
  /\ \A j \in DOMAIN posts : posts[j].from \in Rank /\ posts[j].slot \in 0 .. 25
  /\ todo \subseteq Rank
  /\ \A a \in DOMAIN buf : buf[a].from \in Rank

Overlap(a, n, b, m) == a < b + m /\ b < a + n

\* No two receives of a rank, and no two packed messages of a rank, overlap or
\* leave the buffer SetupCommBuffers sized for them.
BuffersFit ==
  /\ \A j \in DOMAIN posts :
       /\ posts[j].offset + posts[j].count <= comBufSize(me)
       /\ \A l \in DOMAIN posts : l # j =>
            /\ ~Overlap(posts[j].offset, posts[j].count, posts[l].offset, posts[l].count)
            /\ posts[j].slot # posts[l].slot
  /\ step = "post" /\ k = 1 =>
       \A i \in Sends(me) :
         LET n == xferFields * Count(CommSendRows[i]) IN
         /\ PackOffset(me, i) + n <= comBufSize(me)
         /\ \A l \in Sends(me) : l # i =>
              ~Overlap(PackOffset(me, i), n, PackOffset(me, l), xferFields * Count(CommSendRows[l]))

\* "Mirrors the posting order of CommRecv()" (comm_backend.h:75): once me has
\* posted, each of its peers finds exactly one receive for its message, of its
\* length, at the offset shmRecvOffset gives, and no receive is left over.
PutsMatchPosts ==
  step = "send" /\ path # "direct" =>
    /\ \A q \in Rank : \A i \in Sends(q) : SendRank(q, i) = me =>
         Cardinality({j \in DOMAIN posts :
            /\ posts[j].from = q
            /\ posts[j].count = xferFields * Count(CommSendRows[i])
            /\ posts[j].offset = shmRecvOffset(me, SenderPos(i))}) = 1
    /\ \A j \in DOMAIN posts : \E i \in Sends(posts[j].from) : SendRank(posts[j].from, i) = me

\* The request an unpack waits for is the one of the message it reads.
WaitCoversRead ==
  step = "unpack" /\ path # "direct" /\ Expects(me, UnpackRows[k]) =>
    \E j \in DOMAIN posts : /\ posts[j].slot = SlotOf(cnt) /\ posts[j].offset = Offset(cnt)
                            /\ posts[j].from = me + Delta(UnpackRows[k])

\* Where an index of rank r lies in the whole mesh.
Global(r, x) == LET l == Loc(r)  w == IF planeOnly THEN nx ELSE nx + 1 IN
  << l[1]*nx + (x % w), l[2]*nx + ((x \div w) % w), l[3]*nx + (x \div (w*w)) >>

\* The words of a nodal exchange: for every node of me, each other rank that
\* has it too (each higher one, in the synchronisation of positions).
SharedNodes ==
  {z \in (0 .. dx*dx*dx - 1) \X (Rank \ {me}) \X (0 .. dx*dx*dx - 1) :
     (bothWays \/ z[2] > me) /\ Global(me, z[1]) = Global(z[2], z[3])}

\* The words of MonoQ: for every boundary element of me with a neighbour
\* across the face, that element, in the ghost place the mesh refers to.
GhostElems ==
  UNION {{<<ghostIdx(me, i) + z[1]*nx + z[2], z[3], z[4]>> : z \in
            {y \in (0 .. nx - 1) \X (0 .. nx - 1) \X Rank \X (0 .. numElem - 1) :
               Global(y[3], y[4]) = Edge(Global(me, BoundaryElem(i, y[1], y[2])), CommRecvRows[i])}}
         : i \in {j \in 1 .. 6 : HasNbr(me, CommRecvRows[j])}}

Wanted == {[field |-> f, at |-> z[1], from |-> z[2], node |-> z[3]] :
             f \in 0 .. xferFields - 1, z \in (IF planeOnly THEN GhostElems ELSE SharedNodes)}

\* Every word arrives where it belongs, exactly once: each shared node gets one
\* contribution of each rank that shares it, and each ghost place the element
\* on the other side of the face.
ExchangeExact ==
  step = "done" =>
    LET words == {[field |-> g.field, at |-> g.at, from |-> g.from, node |-> g.node] : g \in got}
    IN words = Wanted /\ Cardinality(got) = Cardinality(words)
=============================================================================

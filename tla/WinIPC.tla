------------------------------- MODULE WinIPC -------------------------------
(***************************************************************************)
(* The life of one window of the WinIPC interposer,                        *)
(* mpi-intercept/mpiwrap_ipc.cc: MPI_Win_allocate or MPI_Win_create over   *)
(* device memory, the peer delivery probe, MPI_Win_shared_query by every   *)
(* rank for every peer, the application's stores through the pointers, and *)
(* MPI_Win_free.  The interposer is a library called by ranks that share   *)
(* nothing but the collectives it makes and the GPU memory it maps.        *)
(*                                                                         *)
(* Of a rank's memory the model keeps one cell per rank: cell p is the     *)
(* word rank p writes its sentinel to, and is where the application on p   *)
(* stores later.  A window over host memory, or without the cuda_ipc key,  *)
(* goes to the MPI library unchanged and is not modelled.                  *)
(***************************************************************************)
EXTENDS Integers

CONSTANTS N,           \* MPI_Comm_size
          Topologies,  \* the machines considered, see TopologyAssumption
          Calls,       \* MPI_Win_create or MPI_Win_allocate
          Votes,       \* whether a rank may be unable to take the probe
          NoMem,       \* cudaMalloc may fail on a rank
          MayAbort,    \* a handle export or a fabric allocation may fail
          AppSync      \* the application aligns its ranks before it stores

Rank == 0 .. N - 1
Pairs == Rank \X Rank

\* Which pairs of ranks the driver says have peer access (access), which can
\* open each other's handles (opens), whose stores arrive (lands), whether the
\* ranks span nodes, which ranks see fabric handles, and which ranks have the
\* probe on: each reads WINIPC_VERIFY_PEERS in its own environment.
ASSUME NAssumption == N \in Nat \ {0, 1}
ASSUME TopologyAssumption ==
  \A t \in Topologies :
    /\ t.access \subseteq Pairs /\ t.opens \subseteq Pairs /\ t.lands \subseteq t.opens
    /\ t.spans \in BOOLEAN /\ t.fabric \subseteq Rank /\ t.verify \subseteq Rank
ASSUME CallAssumption == Calls \subseteq {"create", "allocate"}
ASSUME FlagAssumption ==
  /\ Votes \subseteq BOOLEAN /\ NoMem \in BOOLEAN
  /\ MayAbort \in BOOLEAN /\ AppSync \in BOOLEAN

VARIABLES
  topo,     \* the machine and its environment
  call,     \* the call the program makes, the same on every rank
  pc,       \* where the rank is
  entered,  \* collectives entered
  kind,     \* WinMeta.fabric, once the window exists
  opened,   \* WinMeta.opened: the peers mapped
  ok,       \* the rank's vote on the probe
  next,     \* the peer the rank's loop has reached
  seen,     \* the peers whose sentinels reached the rank
  verdict,  \* WinMeta.reachable, or NoVerdict
  mem,      \* the rank's window memory
  saved,    \* its content while the probe uses it
  ptr,      \* the peers MPI_Win_shared_query returned a pointer for
  issued,   \* application stores issued
  aborted   \* PMPI_Abort was called

callVars  == <<topo, call>>
metaVars  == <<kind, opened, verdict>>
probeVars == <<ok, seen>>
memVars   == <<mem, saved>>
appVars   == <<ptr, issued>>
vars == <<callVars, pc, entered, metaVars, next, probeVars, memVars, appVars, aborted>>

Cell == {"live", "magic", "zero", "app"}
NoVerdict == {N}  \* the probe was not taken

Waiting == {"fabric", "fabmap", "gather", "vote", "clear", "sent", "exchange",
            "align", "quiesce", "free"}
Pc == Waiting \cup {"enter", "malloc", "probe", "query", "store", "failed", "done"}

Init ==
  /\ topo \in Topologies /\ call \in Calls
  /\ pc = [r \in Rank |-> "enter"] /\ entered = [r \in Rank |-> 0]
  /\ kind = [r \in Rank |-> "none"] /\ opened = [r \in Rank |-> {}]
  /\ verdict = [r \in Rank |-> NoVerdict]
  /\ ok = [r \in Rank |-> FALSE] /\ seen = [r \in Rank |-> {}]
  /\ next = [r \in Rank |-> 0]
  \* Fresh memory may still hold the sentinels of an earlier window.
  /\ \E old \in {"live", "magic"} : mem = [r \in Rank |-> [p \in Rank |-> old]]
  /\ saved = mem
  /\ ptr = [r \in Rank |-> {}] /\ issued = {} /\ aborted = FALSE

-----------------------------------------------------------------------------
(* Collectives on the window's communicator: a rank that has entered its   *)
(* k-th leaves when every rank has entered its k-th and it is the same one.*)

Goto(r, label) == pc' = [pc EXCEPT ![r] = label] /\ entered' = entered
Enter(r, coll) == pc' = [pc EXCEPT ![r] = coll] /\ entered' = [entered EXCEPT ![r] = @ + 1]

Differ(r, q) == entered[r] = entered[q] /\ pc[q] \in Waiting /\ pc[q] # pc[r]

Leaves(r, coll) ==
  /\ ~aborted /\ pc[r] = coll
  /\ \A q \in Rank : entered[q] >= entered[r] /\ ~Differ(r, q)

-----------------------------------------------------------------------------
(* MPI_Win_allocate.                                                       *)

\* ranks_span_nodes decides between the fabric vote and the allocation;
\* MPI_Win_create goes straight to its handle exchange.
Start(r) ==
  /\ ~aborted /\ pc[r] = "enter"
  /\ \/ call = "create" /\ Enter(r, "gather")
     \/ call = "allocate" /\ topo.spans /\ Enter(r, "fabric")
     \/ call = "allocate" /\ ~topo.spans /\ Goto(r, "malloc")
  /\ UNCHANGED <<callVars, metaVars, next, probeVars, memVars, appVars, aborted>>

\* The Allreduce of fabric_supported: the fabric path needs every rank.
FabricVoteLocal(r) ==
  /\ Leaves(r, "fabric")
  /\ IF r \in topo.fabric THEN Enter(r, "fabmap") ELSE Goto(r, "malloc")
  /\ UNCHANGED <<callVars, metaVars, next, probeVars, memVars, appVars, aborted>>

FabricVote(r) ==
  /\ Leaves(r, "fabric")
  /\ IF topo.fabric = Rank THEN Enter(r, "fabmap") ELSE Goto(r, "malloc")
  /\ UNCHANGED <<callVars, metaVars, next, probeVars, memVars, appVars, aborted>>

\* fabric_win_allocate, past its exchange of handles: every peer is mapped.
FabricMap(r) ==
  /\ Leaves(r, "fabmap")
  /\ kind' = [kind EXCEPT ![r] = "fabric"]
  /\ opened' = [opened EXCEPT ![r] = Rank]
  /\ Goto(r, "query")
  /\ UNCHANGED <<callVars, verdict, next, probeVars, memVars, appVars, aborted>>

\* cudaMalloc; a rank on which it fails returns MPI_ERR_NO_MEM at once.
Malloc(r) ==
  /\ ~aborted /\ pc[r] = "malloc"
  /\ Enter(r, "gather") \/ (NoMem /\ Goto(r, "failed"))
  /\ UNCHANGED <<callVars, metaVars, next, probeVars, memVars, appVars, aborted>>

\* cudaIpcGetMemHandle, cuMemCreate, an import or a map fails, or, past the
\* Allgathers, PMPI_Win_create.
Abort(r) ==
  /\ MayAbort /\ ~aborted
  /\ \/ pc[r] = "enter" /\ call = "create"
     \/ pc[r] \in {"fabric", "malloc", "fabmap"}
     \/ Leaves(r, "gather")
  /\ aborted' = TRUE
  /\ UNCHANGED <<callVars, pc, entered, metaVars, next, probeVars, memVars, appVars>>

-----------------------------------------------------------------------------
(* MPI_Win_create and verify_peer_delivery.                                *)

\* The Allgathers are over: the window is entered in g_wins, and the rank
\* votes on the probe unless its own environment switches it off.
GatherSkips(r) ==
  /\ Leaves(r, "gather")
  /\ kind' = [kind EXCEPT ![r] = "ipc"]
  /\ opened' = [opened EXCEPT ![r] = {r}]
  /\ \E v \in Votes :
       /\ ok' = [ok EXCEPT ![r] = v]
       /\ IF r \in topo.verify /\ v THEN Enter(r, "vote") ELSE Goto(r, "query")
  /\ UNCHANGED <<callVars, verdict, next, seen, memVars, appVars, aborted>>

Gather(r) ==
  /\ Leaves(r, "gather")
  /\ kind' = [kind EXCEPT ![r] = "ipc"]
  /\ opened' = [opened EXCEPT ![r] = {r}]
  /\ \E v \in Votes : ok' = [ok EXCEPT ![r] = v]
  /\ IF r \in topo.verify THEN Enter(r, "vote") ELSE Goto(r, "query")
  /\ UNCHANGED <<callVars, verdict, next, seen, memVars, appVars, aborted>>

\* The Allreduce of the votes: the probe is taken by all or by none.  A rank
\* that takes it sets its memory aside and clears the cells.
VoteKeeps(r) ==
  /\ Leaves(r, "vote")
  /\ IF \A q \in Rank : ok[q]
     THEN saved' = [saved EXCEPT ![r] = mem[r]] /\ mem' = mem /\ Enter(r, "clear")
     ELSE UNCHANGED memVars /\ Goto(r, "query")
  /\ UNCHANGED <<callVars, metaVars, next, probeVars, appVars, aborted>>

Vote(r) ==
  /\ Leaves(r, "vote")
  /\ IF \A q \in Rank : ok[q]
     THEN /\ saved' = [saved EXCEPT ![r] = mem[r]]
          /\ mem' = [mem EXCEPT ![r] = [p \in Rank |-> "zero"]]
          /\ Enter(r, "clear")
     ELSE UNCHANGED memVars /\ Goto(r, "query")
  /\ UNCHANGED <<callVars, metaVars, next, probeVars, appVars, aborted>>

\* The barrier behind the clearing.
Cleared(r) ==
  /\ Leaves(r, "clear")
  /\ Goto(r, "probe")
  /\ UNCHANGED <<callVars, metaVars, next, probeVars, memVars, appVars, aborted>>

\* One peer of the loop: open it and copy the sentinel into its cell.
ProbePastEnd(r) ==
  /\ ~aborted /\ pc[r] = "probe" /\ next[r] <= N
  /\ next' = [next EXCEPT ![r] = @ + 1]
  /\ UNCHANGED <<callVars, pc, entered, metaVars, probeVars, memVars, appVars, aborted>>

Probe(r) ==
  LET p == next[r] IN
  /\ ~aborted /\ pc[r] = "probe" /\ p < N
  /\ IF p # r /\ <<r, p>> \in topo.opens
     THEN opened' = [opened EXCEPT ![r] = @ \cup {p}] ELSE UNCHANGED opened
  /\ IF p # r /\ <<r, p>> \in topo.lands
     THEN mem' = [mem EXCEPT ![p][r] = "magic"] ELSE UNCHANGED mem
  /\ next' = [next EXCEPT ![r] = @ + 1]
  /\ UNCHANGED <<callVars, pc, entered, kind, verdict, probeVars, saved, appVars, aborted>>

Probed(r) ==
  /\ ~aborted /\ pc[r] = "probe" /\ next[r] = N
  /\ next' = [next EXCEPT ![r] = 0]
  /\ Enter(r, "sent")
  /\ UNCHANGED <<callVars, metaVars, probeVars, memVars, appVars, aborted>>

\* Behind the second barrier: read the cells and exchange what was seen.
InspectOthers(r) ==
  /\ Leaves(r, "sent")
  /\ seen' = [seen EXCEPT ![r] = {p \in Rank : mem[r][p] = "magic"}]
  /\ Enter(r, "exchange")
  /\ UNCHANGED <<callVars, metaVars, next, ok, memVars, appVars, aborted>>

Inspect(r) ==
  /\ Leaves(r, "sent")
  /\ seen' = [seen EXCEPT ![r] = {p \in Rank : p = r \/ mem[r][p] = "magic"}]
  /\ Enter(r, "exchange")
  /\ UNCHANGED <<callVars, metaVars, next, ok, memVars, appVars, aborted>>

\* The Alltoall turns what each rank saw into what reached each peer.  Put the
\* memory back and drop the mappings that deliver nothing.
VerdictSeen(r) ==
  /\ Leaves(r, "exchange")
  /\ verdict' = [verdict EXCEPT ![r] = seen[r]]
  /\ opened' = [opened EXCEPT ![r] = @ \cap verdict'[r]]
  /\ mem' = [mem EXCEPT ![r] = saved[r]]
  /\ Goto(r, "query")
  /\ UNCHANGED <<callVars, kind, next, probeVars, saved, appVars, aborted>>

Verdict(r) ==
  /\ Leaves(r, "exchange")
  /\ verdict' = [verdict EXCEPT ![r] = {p \in Rank : r \in seen[p]}]
  /\ opened' = [opened EXCEPT ![r] = @ \cap verdict'[r]]
  /\ mem' = [mem EXCEPT ![r] = saved[r]]
  /\ Goto(r, "query")
  /\ UNCHANGED <<callVars, kind, next, probeVars, saved, appVars, aborted>>

-----------------------------------------------------------------------------
(* MPI_Win_shared_query, the application, MPI_Win_free.                    *)

Undelivering(r, t) == verdict[r] # NoVerdict /\ t \notin verdict[r]
Openable(r, t) == <<r, t>> \in topo.access /\ <<r, t>> \in topo.opens

Grants(r, t) ==
  \/ kind[r] = "fabric"
  \/ ~Undelivering(r, t) /\ (t \in opened[r] \/ Openable(r, t))

\* The application asks for every rank in turn, itself included.
Query(r) ==
  LET t == next[r] IN
  /\ ~aborted /\ pc[r] = "query" /\ t < N
  /\ IF Grants(r, t)
     THEN /\ ptr' = [ptr EXCEPT ![r] = @ \cup {t}]
          /\ opened' = [opened EXCEPT ![r] = @ \cup {t}]
     ELSE UNCHANGED <<ptr, opened>>
  /\ next' = [next EXCEPT ![r] = @ + 1]
  /\ UNCHANGED <<callVars, pc, entered, kind, verdict, probeVars, memVars, issued, aborted>>

Queried(r) ==
  /\ ~aborted /\ pc[r] = "query" /\ next[r] = N
  /\ IF AppSync THEN Enter(r, "align") ELSE Goto(r, "store")
  /\ UNCHANGED <<callVars, metaVars, next, probeVars, memVars, appVars, aborted>>

\* The application's barrier between its queries and its first store.
Align(r) ==
  /\ Leaves(r, "align")
  /\ Goto(r, "store")
  /\ UNCHANGED <<callVars, metaVars, next, probeVars, memVars, appVars, aborted>>

Arrives(r, t) == kind[r] = "fabric" \/ <<r, t>> \in topo.lands

Store(r, t) ==
  /\ ~aborted /\ pc[r] = "store" /\ t \in ptr[r] \ {r} /\ <<r, t>> \notin issued
  /\ issued' = issued \cup {<<r, t>>}
  /\ mem' = IF Arrives(r, t) THEN [mem EXCEPT ![t][r] = "app"] ELSE mem
  /\ UNCHANGED <<callVars, pc, entered, metaVars, next, probeVars, saved, ptr, aborted>>

\* cudaDeviceSynchronize and the barrier before the window is freed.
Stored(r) == ~aborted /\ pc[r] = "store" /\ \A t \in ptr[r] \ {r} : <<r, t>> \in issued

Quiesce(r) ==
  /\ Stored(r)
  /\ Enter(r, "quiesce")
  /\ UNCHANGED <<callVars, metaVars, next, probeVars, memVars, appVars, aborted>>

\* Unmap the peers, release the rank's own memory, enter PMPI_Win_free.
Free(r) ==
  /\ Leaves(r, "quiesce")
  /\ kind' = [kind EXCEPT ![r] = "freed"]
  /\ opened' = [opened EXCEPT ![r] = {}]
  /\ Enter(r, "free")
  /\ UNCHANGED <<callVars, verdict, next, probeVars, memVars, appVars, aborted>>

Freed(r) ==
  /\ Leaves(r, "free")
  /\ Goto(r, "done")
  /\ UNCHANGED <<callVars, metaVars, next, probeVars, memVars, appVars, aborted>>

-----------------------------------------------------------------------------

Step(r) ==
  \/ Start(r) \/ FabricVote(r) \/ FabricMap(r) \/ Malloc(r)
  \/ Gather(r) \/ Vote(r) \/ Cleared(r) \/ Probe(r) \/ Probed(r) \/ Inspect(r) \/ Verdict(r)
  \/ Query(r) \/ Queried(r) \/ Align(r) \/ Quiesce(r) \/ Free(r) \/ Freed(r)
  \/ \E t \in Rank : Store(r, t)

Terminated == (aborted \/ \A r \in Rank : pc[r] \in {"failed", "done"}) /\ UNCHANGED vars

Next == (\E r \in Rank : Step(r) \/ Abort(r)) \/ Terminated

\* Every rank runs and every collective that can complete does.
Fairness == \A r \in Rank : WF_vars(Step(r))

Spec == Init /\ [][Next]_vars /\ Fairness
-----------------------------------------------------------------------------
(* Properties.                                                             *)

\* Values of every variable.
TypeOK ==
  /\ topo \in Topologies /\ call \in Calls
  /\ pc \in [Rank -> Pc] /\ entered \in [Rank -> Nat]
  /\ kind \in [Rank -> {"none", "ipc", "fabric", "freed"}]
  /\ opened \in [Rank -> SUBSET Rank] /\ ptr \in [Rank -> SUBSET Rank]
  /\ verdict \in [Rank -> (SUBSET Rank) \cup {NoVerdict}]
  /\ ok \in [Rank -> BOOLEAN] /\ seen \in [Rank -> SUBSET Rank] /\ next \in [Rank -> 0 .. N]
  /\ mem \in [Rank -> [Rank -> Cell]] /\ saved \in [Rank -> [Rank -> Cell]]
  /\ issued \subseteq Pairs /\ aborted \in BOOLEAN

\* The probe's verdict is the truth, in the caller's direction: a peer is
\* reachable exactly if this rank's stores arrive there, whatever the driver
\* said and whatever the memory held before (mpiwrap_ipc.cc:225-231).
VerdictExact ==
  \A r \in Rank : verdict[r] # NoVerdict =>
    verdict[r] = {r} \cup {t \in Rank : t # r /\ <<r, t>> \in topo.lands}

\* No rank takes a path whose collectives differ from those of the others
\* ("EVERY reason to skip has to be unanimous", mpiwrap_ipc.cc:262).
CollectivesMatch ==
  \A r, q \in Rank : pc[r] \in Waiting => ~Differ(r, q)

\* "self-query always succeeds under the interposer" (comm_mpiwrap.h:49), on
\* which the LULESH set-up aborts otherwise.
SelfQuerySucceeds ==
  \A r \in Rank : pc[r] \in {"align", "store", "quiesce", "free", "done"} => r \in ptr[r]

\* A store that arrives stays: it is there once the owner has left the call
\* that made the window (the use shown in mpi-intercept/README.md:49-57, which
\* stores right after the queries).
NoLostStore ==
  \A o, t \in Rank :
    <<o, t>> \in issued \cap topo.lands /\ pc[t] \notin {"clear", "probe", "sent", "exchange"}
      => mem[t][o] = "app"

\* Every rank gets through the calls, unless the job is aborted.
EveryCallReturns == <>(aborted \/ \A r \in Rank : pc[r] \in {"failed", "done"})

\* The window is a PeerWindow.  While the probe uses a rank's memory, what
\* counts as its content is what the rank has set aside.
SetAside == {"clear", "probe", "sent", "exchange"}
Window == INSTANCE PeerWindow WITH
  state   <- [r \in Rank |->
                IF kind[r] = "freed" THEN "closed"
                ELSE IF kind[r] = "none" \/ pc[r] \in {"vote"} \cup SetAside THEN "none"
                ELSE IF kind[r] = "fabric" \/ verdict[r] # NoVerdict THEN "checked"
                ELSE "unchecked"],
  content <- [r \in Rank |-> IF pc[r] \in SetAside THEN saved[r] ELSE mem[r]]
PeerWindowSpec == Window!Spec
=============================================================================

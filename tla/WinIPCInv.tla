------------------------------ MODULE WinIPCInv ------------------------------
(***************************************************************************)
(* The inductive invariant of the window.  Its core is a count: how many   *)
(* collectives a rank has entered is fixed by where it is and by what the  *)
(* ranks have agreed on so far (Schedule), and no rank is more than one    *)
(* collective ahead (Barriers).  The probe is exact because its three      *)
(* collectives separate the clearing of the cells, the writing of the      *)
(* sentinels and their inspection (Cells, SeenExact).                      *)
(***************************************************************************)
EXTENDS WinIPC

\* The switch of the probe is not voted on, so the invariant is one of jobs
\* whose ranks all have it on or all have it off.
Uniform(t) == t.verify \in {{}, Rank}
UniformSwitch == \A t \in Topologies : Uniform(t)

\* What decides the path of the ranks: the fabric vote, the switch and the
\* vote on the probe, which is final once every rank has entered it.
Spans == call = "allocate" /\ topo.spans
ByFabric == Spans /\ topo.fabric = Rank
Base == IF Spans THEN 1 ELSE 0
Verifies == topo.verify = Rank
Taken == ~ByFabric /\ Verifies /\ \A q \in Rank : ok[q]

\* Collectives entered when the window exists, and when the stores begin.
Made == IF ByFabric THEN 2
        ELSE IF ~Verifies THEN Base + 1
        ELSE IF Taken THEN Base + 5 ELSE Base + 2
Aligned == IF AppSync THEN Made + 1 ELSE Made

Idle == {"enter", "fabric", "fabmap", "malloc", "gather", "vote", "clear", "sent", "exchange"}
InWindow == {"vote", "clear", "probe", "sent", "exchange", "query"}
Probing == {"clear", "probe", "sent"}
After == {"align", "store", "quiesce", "free", "done"}

\* Where a rank is and what it has entered.
ScheduleOf(r) ==
  /\ pc[r] = "enter" => entered[r] = 0
  /\ pc[r] = "fabric" => entered[r] = 1 /\ Spans
  /\ pc[r] = "fabmap" => entered[r] = 2 /\ ByFabric
  /\ pc[r] \in {"malloc", "failed"} => entered[r] = Base /\ ~ByFabric
  /\ pc[r] = "gather" => entered[r] = Base + 1 /\ ~ByFabric
  /\ pc[r] = "vote" => entered[r] = Base + 2 /\ ~ByFabric /\ Verifies
  /\ pc[r] \in {"clear", "probe"} => entered[r] = Base + 3 /\ Taken
  /\ pc[r] = "sent" => entered[r] = Base + 4 /\ Taken
  /\ pc[r] = "exchange" => entered[r] = Base + 5 /\ Taken
  /\ pc[r] = "query" => entered[r] = Made
  /\ pc[r] = "align" => entered[r] = Made + 1 /\ AppSync
  /\ pc[r] = "store" => entered[r] = Aligned
  /\ pc[r] = "quiesce" => entered[r] = Aligned + 1
  /\ pc[r] \in {"free", "done"} => entered[r] = Aligned + 2
Schedule == \A r \in Rank : ScheduleOf(r)

\* A rank enters a collective after all have entered the one before.
Barriers ==
  \A r, q \in Rank : entered[r] <= entered[q] + (IF pc[r] \in Waiting THEN 1 ELSE 0)

\* The loops over the peers, probe and query, start at the first.
Loops == \A r \in Rank : pc[r] \in Idle => next[r] = 0

\* A cell of a rank in the probe holds the sentinel if the peer has written
\* it and its stores arrive.
Written(q, p) == (pc[q] = "probe" /\ next[q] > p) \/ entered[q] >= Base + 4
Cells ==
  \A p, q \in Rank : pc[p] \in Probing /\ p # q =>
    mem[p][q] = IF <<q, p>> \in topo.lands /\ Written(q, p) THEN "magic" ELSE "zero"

\* What a rank saw is who reaches it.
SeenExact ==
  \A p \in Rank : Taken /\ entered[p] >= Base + 5 =>
    seen[p] = {q \in Rank : q = p \/ <<q, p>> \in topo.lands}

\* A rank has its own memory open, and a pointer to it after its query.
OwnOpen == \A r \in Rank : pc[r] \in InWindow => r \in opened[r]
OwnPtr ==
  \A r \in Rank : (pc[r] = "query" /\ next[r] > r) \/ pc[r] \in After => r \in ptr[r]

\* A window exists between its allgather or its mapping and its free, and a
\* rank holds pointers to no peer the probe found undelivering.
KindOf(r) ==
  /\ kind[r] = "none" <=> pc[r] \in {"enter", "fabric", "fabmap", "malloc", "gather", "failed"}
  /\ kind[r] = "freed" <=> pc[r] \in {"free", "done"}
PtrsOf(r) ==
  /\ pc[r] \notin After \cup {"query"} => ptr[r] = {}
  /\ kind[r] = "ipc" /\ verdict[r] # NoVerdict => ptr[r] \subseteq verdict[r]
Holdings == \A r \in Rank : KindOf(r) /\ PtrsOf(r)

\* The conjunction is inductive; VerdictExact is one of its parts, and
\* CollectivesMatch and SelfQuerySucceeds follow (mpiwrap_ipc.cc:213-338).
WindowInv ==
  /\ TypeOK /\ Uniform(topo) /\ Schedule /\ Barriers /\ Loops /\ Cells /\ SeenExact
  /\ VerdictExact /\ OwnOpen /\ OwnPtr /\ Holdings
=============================================================================

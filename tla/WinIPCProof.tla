----------------------------- MODULE WinIPCProof -----------------------------
(***************************************************************************)
(* The safety of the window for every machine, number of ranks and vote:   *)
(* the ranks agree on every collective, and the verdict of the probe is    *)
(* the truth, if all ranks have the switch of the probe in one position.   *)
(***************************************************************************)
EXTENDS WinIPCInv, TLAPS

LEMMA Machines ==
  ASSUME TypeOK
  PROVE  /\ topo.verify \subseteq Rank /\ topo.spans \in BOOLEAN
         /\ topo.lands \subseteq Pairs /\ AppSync \in BOOLEAN
BY TopologyAssumption, FlagAssumption DEF TypeOK

LEMMA Ranks == N \in Nat /\ N >= 2 /\ (\A r \in Rank : r \in Nat /\ r < N) /\ N \notin Rank
BY NAssumption DEF Rank

-----------------------------------------------------------------------------
(* Types.                                                                  *)

LEMMA InitTyped == Init => TypeOK
<1> SUFFICES ASSUME Init PROVE TypeOK OBVIOUS
<1>2. 0 \in 0 .. N BY Ranks
<1>3. "enter" \in Pc BY DEF Pc
<1>4. mem \in [Rank -> [Rank -> Cell]] /\ saved \in [Rank -> [Rank -> Cell]]
  <2>1. PICK old \in {"live", "magic"} : mem = [q \in Rank |-> [p \in Rank |-> old]] BY DEF Init
  <2>2. [p \in Rank |-> old] \in [Rank -> Cell] BY DEF Cell
  <2> QED BY <2>1, <2>2 DEF Init
<1>5. verdict \in [Rank -> (SUBSET Rank) \cup {NoVerdict}] BY DEF Init
<1>6. issued \subseteq Pairs /\ aborted \in BOOLEAN BY DEF Init
<1>7. pc \in [Rank -> Pc] /\ next \in [Rank -> 0 .. N] BY <1>2, <1>3 DEF Init
<1>8. /\ topo \in Topologies /\ call \in Calls /\ entered \in [Rank -> Nat]
      /\ kind \in [Rank -> {"none", "ipc", "fabric", "freed"}]
      /\ opened \in [Rank -> SUBSET Rank] /\ ptr \in [Rank -> SUBSET Rank]
      /\ ok \in [Rank -> BOOLEAN] /\ seen \in [Rank -> SUBSET Rank]
  BY DEF Init
<1> QED BY <1>4, <1>5, <1>6, <1>7, <1>8 DEF TypeOK

\* Where a rank is and what it has entered, after it moved.
LEMMA Moves ==
  ASSUME pc \in [Rank -> Pc], entered \in [Rank -> Nat], NEW r \in Rank, NEW l \in Pc,
         Enter(r, l) \/ Goto(r, l)
  PROVE  pc' \in [Rank -> Pc] /\ entered' \in [Rank -> Nat]
BY DEF Enter, Goto

LEMMA StepTyped ==
  ASSUME TypeOK, NEW r \in Rank, Step(r)
  PROVE  TypeOK'
<1> USE Ranks DEF TypeOK, callVars, metaVars, probeVars, memVars, appVars
<1>p. "fabric" \in Pc /\ "fabmap" \in Pc /\ "gather" \in Pc /\ "vote" \in Pc /\ "clear" \in Pc
      /\ "sent" \in Pc /\ "exchange" \in Pc /\ "align" \in Pc /\ "quiesce" \in Pc /\ "free" \in Pc
      /\ "malloc" \in Pc /\ "probe" \in Pc /\ "query" \in Pc /\ "store" \in Pc /\ "failed" \in Pc
      /\ "done" \in Pc
  BY DEF Pc, Waiting
<1>1. CASE Start(r) BY <1>1, <1>p, Moves DEF Start
<1>2. CASE FabricVote(r) BY <1>2, <1>p, Moves DEF FabricVote
<1>3. CASE FabricMap(r) BY <1>3, <1>p, Moves DEF FabricMap
<1>4. CASE Malloc(r) BY <1>4, <1>p, Moves DEF Malloc
<1>5. CASE Gather(r)
  <2>1. PICK v \in Votes : ok' = [ok EXCEPT ![r] = v] BY <1>5 DEF Gather
  <2>2. v \in BOOLEAN BY FlagAssumption
  <2>3. ok' \in [Rank -> BOOLEAN] BY <2>1, <2>2
  <2> QED BY <1>5, <2>3, <1>p, Moves DEF Gather
<1>6. CASE Vote(r)
  <2>1. [p \in Rank |-> "zero"] \in [Rank -> Cell] BY DEF Cell
  <2>2. [mem EXCEPT ![r] = [p \in Rank |-> "zero"]] \in [Rank -> [Rank -> Cell]] BY <2>1
  <2>3. [saved EXCEPT ![r] = mem[r]] \in [Rank -> [Rank -> Cell]] OBVIOUS
  <2>4. CASE \A q \in Rank : ok[q] BY <1>6, <2>4, <1>p, <2>2, <2>3, Moves DEF Vote
  <2>5. CASE ~\A q \in Rank : ok[q] BY <1>6, <2>5, <1>p, Moves DEF Vote
  <2> QED BY <2>4, <2>5
<1>7. CASE Cleared(r)
  <2>1. pc' \in [Rank -> Pc] /\ entered' \in [Rank -> Nat] BY <1>7, <1>p, Moves DEF Cleared
  <2> QED BY <1>7, <2>1 DEF Cleared
<1>8. CASE Probe(r)
  <2>1. next[r] \in Rank /\ next[r] + 1 \in 0 .. N
    <3>1. next[r] < N BY <1>8 DEF Probe
    <3>2. next[r] \in 0 .. N OBVIOUS
    <3> QED BY <3>1, <3>2 DEF Rank
  <2>2. mem' \in [Rank -> [Rank -> Cell]]
    <3>1. [mem[next[r]] EXCEPT ![r] = "magic"] \in [Rank -> Cell] BY <2>1 DEF Cell
    <3>2. [mem EXCEPT ![next[r]][r] = "magic"] \in [Rank -> [Rank -> Cell]] BY <2>1, <3>1
    <3>3. mem' = [mem EXCEPT ![next[r]][r] = "magic"] \/ mem' = mem BY <1>8 DEF Probe
    <3> QED BY <3>2, <3>3
  <2>3. opened' \in [Rank -> SUBSET Rank]
    <3>1. opened[r] \cup {next[r]} \in SUBSET Rank BY <2>1
    <3>2. opened' = [opened EXCEPT ![r] = opened[r] \cup {next[r]}] \/ opened' = opened
      BY <1>8 DEF Probe
    <3> QED BY <3>1, <3>2
  <2>4. next' \in [Rank -> 0 .. N] BY <1>8, <2>1 DEF Probe
  <2> QED BY <1>8, <2>2, <2>3, <2>4 DEF Probe
<1>9. CASE Probed(r) BY <1>9, <1>p, Moves DEF Probed
<1>10. CASE Inspect(r) BY <1>10, <1>p, Moves DEF Inspect
<1>11. CASE Verdict(r)
  <2>1. {p \in Rank : r \in seen[p]} \in SUBSET Rank OBVIOUS
  <2>2. verdict' \in [Rank -> (SUBSET Rank) \cup {NoVerdict}] BY <1>11, <2>1 DEF Verdict
  <2>3. opened' \in [Rank -> SUBSET Rank]
    <3>1. opened[r] \cap verdict'[r] \in SUBSET Rank OBVIOUS
    <3>2. opened' = [opened EXCEPT ![r] = opened[r] \cap verdict'[r]] BY <1>11 DEF Verdict
    <3> QED BY <3>1, <3>2
  <2>4. mem' \in [Rank -> [Rank -> Cell]] BY <1>11 DEF Verdict
  <2>5. pc' \in [Rank -> Pc] /\ entered' \in [Rank -> Nat] BY <1>11, <1>p, Moves DEF Verdict
  <2> QED BY <1>11, <2>2, <2>3, <2>4, <2>5 DEF Verdict
<1>12. CASE Query(r)
  <2>1. next[r] \in Rank /\ next[r] + 1 \in 0 .. N
    <3>1. next[r] < N BY <1>12 DEF Query
    <3>2. next[r] \in 0 .. N OBVIOUS
    <3> QED BY <3>1, <3>2 DEF Rank
  <2>2. ptr[r] \cup {next[r]} \in SUBSET Rank /\ opened[r] \cup {next[r]} \in SUBSET Rank BY <2>1
  <2>3. ptr' \in [Rank -> SUBSET Rank] /\ opened' \in [Rank -> SUBSET Rank]
    <3>1. CASE Grants(r, next[r])
      <4>1. /\ ptr' = [ptr EXCEPT ![r] = ptr[r] \cup {next[r]}]
            /\ opened' = [opened EXCEPT ![r] = opened[r] \cup {next[r]}]
        BY <1>12, <3>1 DEF Query
      <4> QED BY <2>2, <4>1
    <3>2. CASE ~Grants(r, next[r]) BY <1>12, <3>2 DEF Query
    <3> QED BY <3>1, <3>2
  <2>4. next' \in [Rank -> 0 .. N] BY <1>12, <2>1 DEF Query
  <2> QED BY <1>12, <2>3, <2>4 DEF Query
<1>13. CASE Queried(r) BY <1>13, <1>p, Moves DEF Queried
<1>14. CASE Align(r) BY <1>14, <1>p, Moves DEF Align
<1>15. CASE Quiesce(r) BY <1>15, <1>p, Moves DEF Quiesce
<1>16. CASE Free(r) BY <1>16, <1>p, Moves DEF Free
<1>17. CASE Freed(r) BY <1>17, <1>p, Moves DEF Freed
<1>18. ASSUME NEW t \in Rank, Store(r, t) PROVE TypeOK'
  <2>1. mem' \in [Rank -> [Rank -> Cell]] BY <1>18 DEF Store, Cell
  <2> QED BY <1>18, <2>1 DEF Store, Pairs
<1> QED
  BY <1>1, <1>2, <1>3, <1>4, <1>5, <1>6, <1>7, <1>8, <1>9, <1>10, <1>11, <1>12, <1>13,
     <1>14, <1>15, <1>16, <1>17, <1>18 DEF Step

\* What an abort leaves alone.
Rest == UNCHANGED <<callVars, pc, entered, metaVars, next, probeVars, memVars, appVars>>

LEMMA StepOrRest ==
  ASSUME [Next]_vars
  PROVE  (\E r \in Rank : Step(r)) \/ (Rest /\ aborted' \in {aborted, TRUE})
BY DEF Next, Abort, Terminated, Rest, vars

LEMMA RestTyped ==
  ASSUME TypeOK, Rest, aborted' \in {aborted, TRUE}
  PROVE  TypeOK'
BY DEF TypeOK, Rest, callVars, metaVars, probeVars, memVars, appVars

-----------------------------------------------------------------------------
(* The count of the collectives.                                           *)

\* What the ranks agree on does not change while the votes stand.
LEMMA Fixed ==
  ASSUME UNCHANGED <<topo, call>>
  PROVE  Spans' = Spans /\ ByFabric' = ByFabric /\ Base' = Base
BY DEF Spans, ByFabric, Base

LEMMA FixedVotes ==
  ASSUME UNCHANGED <<topo, call, ok>>
  PROVE  Taken' = Taken /\ Made' = Made /\ Aligned' = Aligned
BY Fixed DEF Taken, Made, Aligned, Verifies

LEMMA Counts ==
  ASSUME TypeOK
  PROVE  /\ Base \in {0, 1} /\ Made \in Nat /\ Aligned \in Nat /\ (Spans => Base = 1) /\ (~Spans => Base = 0 /\ ~ByFabric)
         /\ (ByFabric => Made = 2 /\ ~Taken)
         /\ (~ByFabric /\ ~Verifies => Made = Base + 1 /\ ~Taken)
         /\ (Taken => Made = Base + 5)
         /\ (~ByFabric /\ Verifies /\ ~Taken => Made = Base + 2)
         /\ (AppSync => Aligned = Made + 1) /\ (~AppSync => Aligned = Made)
BY Machines DEF Base, Made, Aligned, Taken, ByFabric, Spans

\* A rank that leaves a collective, or is in none, is behind no other.
LEMMA Behind ==
  ASSUME TypeOK, Barriers, NEW r \in Rank, pc[r] \notin Waiting \/ \E l \in Waiting : Leaves(r, l)
  PROVE  \A q \in Rank : entered[q] >= entered[r]
BY DEF TypeOK, Barriers, Leaves

LEMMA BarriersStep ==
  ASSUME TypeOK, Barriers, NEW r \in Rank, NEW l \in Pc,
         (Enter(r, l) /\ l \in Waiting) \/ Goto(r, l),
         \A q \in Rank : entered[q] >= entered[r]
  PROVE  Barriers'
<1>1. /\ pc'[r] = l /\ entered'[r] \in {entered[r], entered[r] + 1}
      /\ l \notin Waiting => entered'[r] = entered[r]
  BY DEF TypeOK, Enter, Goto
<1>2. \A q \in Rank \ {r} : pc'[q] = pc[q] /\ entered'[q] = entered[q] BY DEF TypeOK, Enter, Goto
<1>3. \A q \in Rank : entered[q] \in Nat BY DEF TypeOK
<1> SUFFICES ASSUME NEW x \in Rank, NEW y \in Rank
             PROVE  entered'[x] <= entered'[y] + (IF pc'[x] \in Waiting THEN 1 ELSE 0)
  BY DEF Barriers
<1>4. CASE x = r BY <1>1, <1>2, <1>3, <1>4
<1>5. CASE x # r
  <2>1. entered[x] <= entered[y] + (IF pc[x] \in Waiting THEN 1 ELSE 0) BY DEF Barriers
  <2> QED BY <1>1, <1>2, <1>3, <1>5, <2>1
<1> QED BY <1>4, <1>5

LEMMA ScheduleStep ==
  ASSUME TypeOK, Schedule, NEW r \in Rank, NEW l \in Pc, Enter(r, l) \/ Goto(r, l),
         UNCHANGED <<topo, call, ok>>, ScheduleOf(r)'
  PROVE  Schedule'
<1> SUFFICES ASSUME NEW q \in Rank, q # r PROVE ScheduleOf(q)' BY DEF Schedule
<1>1. pc'[q] = pc[q] /\ entered'[q] = entered[q] BY DEF Enter, Goto, TypeOK
<1>2. ScheduleOf(q) BY DEF Schedule
<1> QED BY <1>1, <1>2, Fixed, FixedVotes DEF ScheduleOf, Verifies

LEMMA Move ==
  ASSUME TypeOK, Schedule, Barriers, NEW r \in Rank, NEW l \in Pc,
         (Enter(r, l) /\ l \in Waiting) \/ Goto(r, l), UNCHANGED <<topo, call, ok>>,
         pc[r] \notin Waiting \/ \E k \in Waiting : Leaves(r, k), ScheduleOf(r)'
  PROVE  Schedule' /\ Barriers'
BY Behind, BarriersStep, ScheduleStep

\* The vote on the probe may change what the ranks have agreed on, and no
\* rank is far enough to be on a path that depends on it.
LEMMA GatherSchedule ==
  ASSUME TypeOK, Uniform(topo), Schedule, Barriers, NEW r \in Rank, Gather(r)
  PROVE  Schedule' /\ Barriers'
<1> USE DEF callVars, metaVars, probeVars, memVars, appVars
<1>1. UNCHANGED <<topo, call>> /\ pc[r] = "gather" /\ Leaves(r, "gather") BY DEF Gather, Leaves
<1>2. \A q \in Rank : entered[q] >= entered[r] BY <1>1, Behind DEF Waiting
<1>3. entered[r] = Base + 1 /\ ~ByFabric BY <1>1 DEF Schedule, ScheduleOf
<1>4. TypeOK' BY StepTyped DEF Step
<1>5. Base' = Base /\ ~ByFabric' /\ Spans' = Spans BY <1>1, <1>3, Fixed
<1>6. CASE ~Verifies
  <2>1. Goto(r, "query") BY <1>6 DEF Gather, Uniform, Verifies
  <2>2. pc'[r] = "query" /\ entered'[r] = Base + 1
    BY <2>1, <1>3 DEF Goto, TypeOK
  <2>3. Taken' = Taken /\ Made' = Made /\ Aligned' = Aligned /\ Made = Base + 1
    BY <1>1, <1>3, <1>5, <1>6 DEF Taken, Made, Aligned, Verifies
  <2>4. ScheduleOf(r)' BY <2>2, <2>3, <1>5 DEF ScheduleOf
  <2>5. ASSUME NEW q \in Rank, q # r PROVE ScheduleOf(q)'
    <3>1. pc'[q] = pc[q] /\ entered'[q] = entered[q] BY <2>1, <2>5 DEF Goto, TypeOK
    <3>2. ScheduleOf(q) BY DEF Schedule
    <3> QED BY <3>1, <3>2, <1>1, <1>5, <1>3, <2>3 DEF ScheduleOf, Verifies
  <2> QED BY <2>1, <1>2, <2>4, <2>5, BarriersStep DEF Schedule, Pc
<1>7. CASE Verifies
  <2>1. Enter(r, "vote") BY <1>7 DEF Gather, Verifies
  <2>2. pc'[r] = "vote" /\ entered'[r] = Base + 2
    BY <2>1, <1>3, Counts DEF Enter, TypeOK
  <2>3. ScheduleOf(r)' BY <2>2, <1>1, <1>7, <1>5 DEF ScheduleOf, Verifies
  <2>4. ASSUME NEW q \in Rank, q # r PROVE ScheduleOf(q)'
    <3>1. pc'[q] = pc[q] /\ entered'[q] = entered[q] BY <2>1, <2>4 DEF Enter, TypeOK
    <3>2. ScheduleOf(q) BY DEF Schedule
    <3>3. entered[q] <= Base + 2 /\ (pc[q] \notin Waiting => entered[q] <= Base + 1)
      BY <1>3, Counts DEF Barriers, TypeOK
    <3>4. /\ Made \in Nat /\ Aligned \in Nat /\ Base \in {0, 1} /\ entered[q] \in Nat
          /\ Made >= Base + 2 /\ Aligned >= Made
      BY <1>3, <1>7, Counts, FlagAssumption DEF TypeOK
    <3>5. pc[q] \in {"enter", "fabric", "malloc", "failed", "gather", "vote"}
      <4>1. pc[q] \in Pc BY DEF TypeOK
      <4>2. pc[q] # "fabmap" BY <3>2, <1>3 DEF ScheduleOf
      <4>3. pc[q] \notin {"clear", "probe", "sent", "exchange"} BY <3>2, <3>3, <3>4 DEF ScheduleOf
      <4>4. pc[q] \notin {"query", "store", "done"} BY <3>2, <3>3, <3>4 DEF ScheduleOf, Waiting
      <4>5. pc[q] \notin {"align", "quiesce", "free"} BY <3>2, <3>3, <3>4 DEF ScheduleOf
      <4> QED BY <4>1, <4>2, <4>3, <4>4, <4>5 DEF Pc, Waiting
    <3> QED BY <3>1, <3>2, <3>5, <1>1, <1>3, <1>5 DEF ScheduleOf, Verifies
  <2> QED BY <2>1, <1>2, <2>3, <2>4, BarriersStep DEF Schedule, Pc, Waiting
<1> QED BY <1>6, <1>7

LEMMA ScheduleHolds ==
  ASSUME TypeOK, Uniform(topo), Schedule, Barriers, NEW r \in Rank, Step(r)
  PROVE  Schedule' /\ Barriers'
<1> USE DEF callVars, metaVars, probeVars, memVars, appVars
<1>s. ScheduleOf(r) BY DEF Schedule
<1>t. pc \in [Rank -> Pc] /\ entered \in [Rank -> Nat] BY DEF TypeOK
<1>u. ASSUME NEW l \in Pc, Enter(r, l)
      PROVE  pc'[r] = l /\ entered'[r] = entered[r] + 1
  BY <1>t, <1>u DEF Enter
<1>v. ASSUME NEW l \in Pc, Goto(r, l)
      PROVE  pc'[r] = l /\ entered'[r] = entered[r]
  BY <1>t, <1>v DEF Goto
<1>p. {"fabric", "fabmap", "gather", "vote", "clear", "sent", "exchange", "align", "quiesce", "free"}
        \subseteq Pc /\ {"malloc", "probe", "query", "store", "failed", "done"} \subseteq Pc
  BY DEF Pc, Waiting
<1>1. CASE Start(r)
  <2>1. UNCHANGED <<topo, call, ok>> /\ pc[r] = "enter" /\ entered[r] = 0
    BY <1>1, <1>s DEF Start, ScheduleOf
  <2>2. CASE Enter(r, "gather") /\ call = "create"
    <3>1. Base' = 0 /\ ~ByFabric' BY <2>1, <2>2, Fixed DEF Base, ByFabric, Spans
    <3>2. ScheduleOf(r)' BY <2>1, <2>2, <1>p, <1>u, <3>1 DEF ScheduleOf
    <3> QED BY <2>1, <2>2, <3>2, <1>p, Move DEF Waiting
  <2>3. CASE Enter(r, "fabric") /\ Spans
    <3>1. ScheduleOf(r)' BY <2>1, <2>3, <1>p, <1>u, Fixed DEF ScheduleOf
    <3> QED BY <2>1, <2>3, <3>1, <1>p, Move DEF Waiting
  <2>4. CASE Goto(r, "malloc") /\ ~Spans
    <3>1. Base' = 0 /\ ~ByFabric' BY <2>1, <2>4, Fixed DEF Base, ByFabric
    <3>2. ScheduleOf(r)' BY <2>1, <2>4, <1>p, <1>v, <3>1 DEF ScheduleOf
    <3> QED BY <2>1, <2>4, <3>2, <1>p, Move DEF Waiting
  <2> QED BY <1>1, <2>2, <2>3, <2>4 DEF Start, Spans
<1>2. CASE FabricVote(r)
  <2>1. UNCHANGED <<topo, call, ok>> /\ pc[r] = "fabric" /\ entered[r] = 1 /\ Spans
    BY <1>2, <1>s DEF FabricVote, Leaves, ScheduleOf
  <2>2. \E k \in Waiting : Leaves(r, k) BY <1>2 DEF FabricVote, Waiting
  <2>3. CASE Enter(r, "fabmap") /\ topo.fabric = Rank
    <3>1. ByFabric' BY <2>1, <2>3, Fixed DEF ByFabric
    <3>2. ScheduleOf(r)' BY <2>1, <2>3, <1>p, <1>u, <3>1 DEF ScheduleOf
    <3> QED BY <2>1, <2>2, <2>3, <3>2, <1>p, Move DEF Waiting
  <2>4. CASE Goto(r, "malloc") /\ topo.fabric # Rank
    <3>1. ~ByFabric' /\ Base' = 1 BY <2>1, <2>4, Fixed DEF ByFabric, Base
    <3>2. ScheduleOf(r)' BY <2>1, <2>4, <1>p, <1>v, <3>1 DEF ScheduleOf
    <3> QED BY <2>1, <2>2, <2>4, <3>2, <1>p, Move
  <2> QED BY <1>2, <2>3, <2>4 DEF FabricVote
<1>3. CASE FabricMap(r)
  <2>1. UNCHANGED <<topo, call, ok>> /\ pc[r] = "fabmap" BY <1>3 DEF FabricMap, Leaves
  <2>2. \E k \in Waiting : Leaves(r, k) BY <1>3 DEF FabricMap, Waiting
  <2>3. Goto(r, "query") BY <1>3 DEF FabricMap
  <2>4. ScheduleOf(r)' BY <1>s, <2>1, <2>3, <1>p, <1>v, Fixed, FixedVotes, Counts, FlagAssumption DEF ScheduleOf
  <2> QED BY <2>1, <2>2, <2>3, <2>4, <1>p, Move DEF Waiting
<1>4. CASE Malloc(r)
  <2>1. UNCHANGED <<topo, call, ok>> /\ pc[r] = "malloc" BY <1>4 DEF Malloc
  <2>2. pc[r] \notin Waiting BY <2>1 DEF Waiting
  <2>3. CASE Enter(r, "gather")
    <3>1. ScheduleOf(r)' BY <1>s, <2>1, <2>3, <1>p, <1>u, Fixed, FixedVotes, Counts, FlagAssumption DEF ScheduleOf
    <3> QED BY <2>1, <2>2, <2>3, <3>1, <1>p, Move DEF Waiting
  <2>4. CASE Goto(r, "failed")
    <3>1. ScheduleOf(r)' BY <1>s, <2>1, <2>4, <1>p, <1>v, Fixed, FixedVotes, Counts, FlagAssumption DEF ScheduleOf
    <3> QED BY <2>1, <2>2, <2>4, <3>1, <1>p, Move DEF Waiting
  <2> QED BY <1>4, <2>3, <2>4 DEF Malloc
<1>5. CASE Gather(r) BY <1>5, GatherSchedule
<1>6. CASE Vote(r)
  <2>1. UNCHANGED <<topo, call, ok>> /\ pc[r] = "vote" BY <1>6 DEF Vote, Leaves
  <2>2. \E k \in Waiting : Leaves(r, k) BY <1>6 DEF Vote, Waiting
  <2>3. CASE Enter(r, "clear") /\ (\A q \in Rank : ok[q])
    <3>1. Taken = (\A q \in Rank : ok[q]) BY <1>s, <2>1 DEF Taken, ScheduleOf
    <3>2. ScheduleOf(r)' BY <1>s, <2>1, <2>3, <3>1, <1>p, <1>u, Fixed, FixedVotes, Counts DEF ScheduleOf
    <3> QED BY <2>1, <2>2, <2>3, <3>2, <1>p, Move DEF Waiting
  <2>4. CASE Goto(r, "query") /\ (~\A q \in Rank : ok[q])
    <3>1. Taken = (\A q \in Rank : ok[q]) BY <1>s, <2>1 DEF Taken, ScheduleOf
    <3>2. ScheduleOf(r)' BY <1>s, <2>1, <2>4, <3>1, <1>p, <1>v, Fixed, FixedVotes, Counts DEF ScheduleOf
    <3> QED BY <2>1, <2>2, <2>4, <3>2, <1>p, Move DEF Waiting
  <2> QED BY <1>6, <2>3, <2>4 DEF Vote
<1>7. CASE Cleared(r)
  <2>1. UNCHANGED <<topo, call, ok>> /\ pc[r] = "clear" BY <1>7 DEF Cleared, Leaves
  <2>2. \E k \in Waiting : Leaves(r, k) BY <1>7 DEF Cleared, Waiting
  <2>3. Goto(r, "probe") BY <1>7 DEF Cleared
  <2>4. ScheduleOf(r)' BY <1>s, <2>1, <2>3, <1>p, <1>v, Fixed, FixedVotes, Counts, FlagAssumption DEF ScheduleOf
  <2> QED BY <2>1, <2>2, <2>3, <2>4, <1>p, Move DEF Waiting
<1>8. CASE Probe(r)
  <2>1. UNCHANGED <<topo, call, ok, pc, entered>> BY <1>8 DEF Probe
  <2> QED BY <2>1, Fixed, FixedVotes DEF Schedule, ScheduleOf, Barriers, Verifies
<1>9. CASE Probed(r)
  <2>1. UNCHANGED <<topo, call, ok>> /\ pc[r] = "probe" BY <1>9 DEF Probed
  <2>2. pc[r] \notin Waiting BY <2>1 DEF Waiting
  <2>3. Enter(r, "sent") BY <1>9 DEF Probed
  <2>4. ScheduleOf(r)' BY <1>s, <2>1, <2>3, <1>p, <1>u, Fixed, FixedVotes, Counts, FlagAssumption DEF ScheduleOf
  <2> QED BY <2>1, <2>2, <2>3, <2>4, <1>p, Move DEF Waiting
<1>10. CASE Inspect(r)
  <2>1. UNCHANGED <<topo, call, ok>> /\ pc[r] = "sent" BY <1>10 DEF Inspect, Leaves
  <2>2. \E k \in Waiting : Leaves(r, k) BY <1>10 DEF Inspect, Waiting
  <2>3. Enter(r, "exchange") BY <1>10 DEF Inspect
  <2>4. ScheduleOf(r)' BY <1>s, <2>1, <2>3, <1>p, <1>u, Fixed, FixedVotes, Counts, FlagAssumption DEF ScheduleOf
  <2> QED BY <2>1, <2>2, <2>3, <2>4, <1>p, Move DEF Waiting
<1>11. CASE Verdict(r)
  <2>1. UNCHANGED <<topo, call, ok>> /\ pc[r] = "exchange" BY <1>11 DEF Verdict, Leaves
  <2>2. \E k \in Waiting : Leaves(r, k) BY <1>11 DEF Verdict, Waiting
  <2>3. Goto(r, "query") BY <1>11 DEF Verdict
  <2>4. ScheduleOf(r)' BY <1>s, <2>1, <2>3, <1>p, <1>v, Fixed, FixedVotes, Counts, FlagAssumption DEF ScheduleOf
  <2> QED BY <2>1, <2>2, <2>3, <2>4, <1>p, Move DEF Waiting
<1>12. CASE Query(r)
  <2>1. UNCHANGED <<topo, call, ok, pc, entered>> BY <1>12 DEF Query
  <2> QED BY <2>1, Fixed, FixedVotes DEF Schedule, ScheduleOf, Barriers, Verifies
<1>13. CASE Queried(r)
  <2>1. UNCHANGED <<topo, call, ok>> /\ pc[r] = "query" BY <1>13 DEF Queried
  <2>2. pc[r] \notin Waiting BY <2>1 DEF Waiting
  <2>3. CASE Enter(r, "align") /\ AppSync
    <3>1. ScheduleOf(r)' BY <1>s, <2>1, <2>3, <1>p, <1>u, Fixed, FixedVotes, Counts, FlagAssumption DEF ScheduleOf
    <3> QED BY <2>1, <2>2, <2>3, <3>1, <1>p, Move DEF Waiting
  <2>4. CASE Goto(r, "store") /\ ~AppSync
    <3>1. ScheduleOf(r)' BY <1>s, <2>1, <2>4, <1>p, <1>v, Fixed, FixedVotes, Counts, FlagAssumption DEF ScheduleOf
    <3> QED BY <2>1, <2>2, <2>4, <3>1, <1>p, Move DEF Waiting
  <2> QED BY <1>13, <2>3, <2>4 DEF Queried
<1>14. CASE Align(r)
  <2>1. UNCHANGED <<topo, call, ok>> /\ pc[r] = "align" BY <1>14 DEF Align, Leaves
  <2>2. \E k \in Waiting : Leaves(r, k) BY <1>14 DEF Align, Waiting
  <2>3. Goto(r, "store") BY <1>14 DEF Align
  <2>4. ScheduleOf(r)' BY <1>s, <2>1, <2>3, <1>p, <1>v, Fixed, FixedVotes, Counts, FlagAssumption DEF ScheduleOf
  <2> QED BY <2>1, <2>2, <2>3, <2>4, <1>p, Move DEF Waiting
<1>15. CASE Quiesce(r)
  <2>1. UNCHANGED <<topo, call, ok>> /\ pc[r] = "store" BY <1>15 DEF Quiesce, Stored
  <2>2. pc[r] \notin Waiting BY <2>1 DEF Waiting
  <2>3. Enter(r, "quiesce") BY <1>15 DEF Quiesce
  <2>4. ScheduleOf(r)' BY <1>s, <2>1, <2>3, <1>p, <1>u, Fixed, FixedVotes, Counts, FlagAssumption DEF ScheduleOf
  <2> QED BY <2>1, <2>2, <2>3, <2>4, <1>p, Move DEF Waiting
<1>16. CASE Free(r)
  <2>1. UNCHANGED <<topo, call, ok>> /\ pc[r] = "quiesce" BY <1>16 DEF Free, Leaves
  <2>2. \E k \in Waiting : Leaves(r, k) BY <1>16 DEF Free, Waiting
  <2>3. Enter(r, "free") BY <1>16 DEF Free
  <2>4. ScheduleOf(r)' BY <1>s, <2>1, <2>3, <1>p, <1>u, Fixed, FixedVotes, Counts, FlagAssumption DEF ScheduleOf
  <2> QED BY <2>1, <2>2, <2>3, <2>4, <1>p, Move DEF Waiting
<1>17. CASE Freed(r)
  <2>1. UNCHANGED <<topo, call, ok>> /\ pc[r] = "free" BY <1>17 DEF Freed, Leaves
  <2>2. \E k \in Waiting : Leaves(r, k) BY <1>17 DEF Freed, Waiting
  <2>3. Goto(r, "done") BY <1>17 DEF Freed
  <2>4. ScheduleOf(r)' BY <1>s, <2>1, <2>3, <1>p, <1>v, Fixed, FixedVotes, Counts, FlagAssumption DEF ScheduleOf
  <2> QED BY <2>1, <2>2, <2>3, <2>4, <1>p, Move DEF Waiting
<1>18. ASSUME NEW t \in Rank, Store(r, t) PROVE Schedule' /\ Barriers'
  <2>1. UNCHANGED <<topo, call, ok, pc, entered>> BY <1>18 DEF Store
  <2> QED BY <2>1, Fixed, FixedVotes DEF Schedule, ScheduleOf, Barriers, Verifies
<1> QED
  BY <1>1, <1>2, <1>3, <1>4, <1>5, <1>6, <1>7, <1>8, <1>9, <1>10, <1>11, <1>12, <1>13,
     <1>14, <1>15, <1>16, <1>17, <1>18 DEF Step

-----------------------------------------------------------------------------
(* What a step leaves alone, and how it moves its rank.                    *)

LEMMA Frame ==
  ASSUME TypeOK, NEW r \in Rank, Step(r)
  PROVE  /\ UNCHANGED <<topo, call>>
         /\ \A q \in Rank \ {r} : pc'[q] = pc[q] /\ entered'[q] = entered[q] /\ next'[q] = next[q]
         /\ Gather(r) \/ UNCHANGED ok
         /\ Inspect(r) \/ UNCHANGED seen
         /\ Vote(r) \/ UNCHANGED saved
         /\ FabricMap(r) \/ Gather(r) \/ Free(r) \/ UNCHANGED kind
         /\ (\E t \in Rank : Store(r, t)) \/ UNCHANGED issued
         /\ Verdict(r) \/ UNCHANGED verdict
         /\ Query(r) \/ UNCHANGED ptr
         /\ Probe(r) \/ Probed(r) \/ Query(r) \/ UNCHANGED next
         /\ FabricMap(r) \/ Gather(r) \/ Probe(r) \/ Verdict(r) \/ Query(r) \/ Free(r) \/ UNCHANGED opened
         /\ Vote(r) \/ Probe(r) \/ Verdict(r) \/ (\E t \in Rank : Store(r, t)) \/ UNCHANGED mem
<1> USE DEF TypeOK, Enter, Goto, callVars, metaVars, probeVars, memVars, appVars
<1>1. CASE Start(r) BY <1>1 DEF Start
<1>2. CASE FabricVote(r) BY <1>2 DEF FabricVote
<1>3. CASE FabricMap(r) BY <1>3 DEF FabricMap
<1>4. CASE Malloc(r) BY <1>4 DEF Malloc
<1>5. CASE Gather(r)
  <2>1. CASE Enter(r, "vote") BY <1>5, <2>1 DEF Gather
  <2>2. CASE Goto(r, "query") BY <1>5, <2>2 DEF Gather
  <2> QED BY <1>5, <2>1, <2>2 DEF Gather
<1>6. CASE Vote(r) BY <1>6 DEF Vote
<1>7. CASE Cleared(r) BY <1>7 DEF Cleared
<1>8. CASE Probe(r) BY <1>8 DEF Probe
<1>9. CASE Probed(r) BY <1>9 DEF Probed
<1>10. CASE Inspect(r) BY <1>10 DEF Inspect
<1>11. CASE Verdict(r) BY <1>11 DEF Verdict
<1>12. CASE Query(r) BY <1>12 DEF Query
<1>13. CASE Queried(r) BY <1>13 DEF Queried
<1>14. CASE Align(r) BY <1>14 DEF Align
<1>15. CASE Quiesce(r) BY <1>15 DEF Quiesce
<1>16. CASE Free(r) BY <1>16 DEF Free
<1>17. CASE Freed(r) BY <1>17 DEF Freed
<1>18. CASE \E t \in Rank : Store(r, t) BY <1>18 DEF Store
<1> QED
  BY <1>1, <1>2, <1>3, <1>4, <1>5, <1>6, <1>7, <1>8, <1>9, <1>10, <1>11, <1>12, <1>13,
     <1>14, <1>15, <1>16, <1>17, <1>18 DEF Step

LEMMA Edge ==
  ASSUME TypeOK, NEW r \in Rank, Step(r)
  PROVE  /\ \/ entered'[r] = entered[r]
            \/ pc'[r] \in Waiting /\ entered'[r] = entered[r] + 1
         /\ pc'[r] = "exchange" => Inspect(r)
         /\ pc'[r] \in Idle => pc[r] \in Idle \/ Probed(r)
         /\ pc'[r] \in InWindow => pc[r] \in InWindow \/ FabricMap(r) \/ Gather(r)
         /\ pc'[r] = "query" => Query(r) \/ (pc[r] \in Idle /\ UNCHANGED next)
         /\ pc[r] \in After \cup {"query"} => pc'[r] \in After \cup {"query"}
         /\ pc'[r] \in After => pc[r] \in After \/ (pc[r] = "query" /\ next[r] = N)
<1> USE DEF TypeOK, Enter, Goto, Leaves, Waiting, Idle, InWindow, After
<1>1. CASE Start(r) BY <1>1 DEF Start
<1>2. CASE FabricVote(r) BY <1>2 DEF FabricVote
<1>3. CASE FabricMap(r) BY <1>3 DEF FabricMap
<1>4. CASE Malloc(r) BY <1>4 DEF Malloc
<1>5. CASE Gather(r)
  <2>1. CASE Enter(r, "vote") BY <1>5, <2>1 DEF Gather
  <2>2. CASE Goto(r, "query") BY <1>5, <2>2 DEF Gather
  <2> QED BY <1>5, <2>1, <2>2 DEF Gather
<1>6. CASE Vote(r) BY <1>6 DEF Vote
<1>7. CASE Cleared(r) BY <1>7 DEF Cleared
<1>8. CASE Probe(r) BY <1>8 DEF Probe
<1>9. CASE Probed(r) BY <1>9 DEF Probed
<1>10. CASE Inspect(r) BY <1>10 DEF Inspect
<1>11. CASE Verdict(r) BY <1>11 DEF Verdict
<1>12. CASE Query(r) BY <1>12 DEF Query
<1>13. CASE Queried(r) BY <1>13 DEF Queried
<1>14. CASE Align(r) BY <1>14 DEF Align
<1>15. CASE Quiesce(r) BY <1>15 DEF Quiesce, Stored
<1>16. CASE Free(r) BY <1>16 DEF Free
<1>17. CASE Freed(r) BY <1>17 DEF Freed
<1>18. CASE \E t \in Rank : Store(r, t) BY <1>18 DEF Store
<1> QED
  BY <1>1, <1>2, <1>3, <1>4, <1>5, <1>6, <1>7, <1>8, <1>9, <1>10, <1>11, <1>12, <1>13,
     <1>14, <1>15, <1>16, <1>17, <1>18 DEF Step

-----------------------------------------------------------------------------
(* The probe.                                                              *)

LEMMA LoopsHold ==
  ASSUME TypeOK, Loops, NEW r \in Rank, Step(r)
  PROVE  Loops'
<1> SUFFICES ASSUME NEW q \in Rank, pc'[q] \in Idle PROVE next'[q] = 0 BY DEF Loops
<1>1. CASE q # r BY <1>1, Frame DEF Loops
<1>2. CASE q = r /\ Probed(r) BY <1>2 DEF Probed, TypeOK
<1>3. CASE q = r /\ ~Probed(r)
  <2>1. pc[r] \in Idle BY <1>3, Edge
  <2>2. ~Probe(r) /\ ~Query(r) BY <2>1 DEF Probe, Query, Idle
  <2> QED BY <1>3, <2>1, <2>2, Frame DEF Loops
<1> QED BY <1>1, <1>2, <1>3

\* While some rank has its cells in the probe, every rank is near it.
LEMMA NearProbe ==
  ASSUME TypeOK, Schedule, Barriers, NEW p \in Rank, pc[p] \in Probing, NEW q \in Rank
  PROVE  /\ Taken /\ Base \in Nat /\ Made = Base + 5 /\ entered[q] \in Nat
         /\ entered[p] \in {Base + 3, Base + 4}
         /\ pc[q] \notin {"enter", "fabric", "fabmap", "malloc", "gather", "failed"}
         /\ pc[q] \notin {"store", "done"}
         /\ pc[q] \in {"query", "align", "quiesce", "free"} => entered[q] >= Base + 5
<1>1. Taken /\ entered[p] \in {Base + 3, Base + 4} BY DEF Schedule, ScheduleOf, Probing
<1>2. Base \in {0, 1} /\ Made = Base + 5 /\ ~ByFabric /\ Aligned \in {Made, Made + 1}
  BY <1>1, Counts, FlagAssumption
<1>3. /\ entered[p] <= entered[q] + 1 /\ (pc[p] \notin Waiting => entered[p] <= entered[q])
      /\ entered[q] <= entered[p] + 1 /\ (pc[q] \notin Waiting => entered[q] <= entered[p])
      /\ entered[q] \in Nat
  BY DEF Barriers, TypeOK
<1>4. ScheduleOf(q) BY DEF Schedule
<1>5. pc[q] \notin {"enter", "fabric", "fabmap", "malloc", "gather", "failed"}
  BY <1>1, <1>2, <1>3, <1>4 DEF ScheduleOf
<1>6. pc[q] \notin {"store", "done"}
  BY <1>1, <1>2, <1>3, <1>4 DEF ScheduleOf, Waiting
<1>7. pc[q] \in {"query", "align", "quiesce", "free"} => entered[q] >= Base + 5
  BY <1>1, <1>2, <1>4 DEF ScheduleOf
<1> QED BY <1>1, <1>2, <1>3, <1>5, <1>6, <1>7

LEMMA SeenHolds ==
  ASSUME TypeOK, Schedule, Barriers, Cells, SeenExact, NEW r \in Rank, Step(r), Schedule', TypeOK'
  PROVE  SeenExact'
<1> SUFFICES ASSUME NEW p \in Rank, Taken', entered'[p] >= Base' + 5
             PROVE  seen'[p] = {q \in Rank : q = p \/ <<q, p>> \in topo'.lands}
  BY DEF SeenExact
<1>1. topo' = topo /\ Base' = Base /\ Base \in {0, 1} BY Frame, Fixed, Counts
<1>2. CASE Gather(r)
  <2>1. pc[r] = "gather" /\ entered[r] = Base + 1 BY <1>2 DEF Gather, Leaves, Schedule, ScheduleOf
  <2>2. entered[p] <= Base + 2
    <3>1. entered[p] <= entered[r] + 1 BY DEF Barriers, TypeOK
    <3> QED BY <1>1, <2>1, <3>1 DEF TypeOK
  <2>3. entered'[p] \in {entered[p], entered[p] + 1} /\ (p # r => entered'[p] = entered[p])
    BY Frame, Edge
  <2> QED BY <1>1, <2>1, <2>2, <2>3 DEF TypeOK
<1>3. CASE Inspect(r)
  <2>1. pc[r] = "sent" /\ entered[r] = Base + 4 /\ Taken
    BY <1>3 DEF Inspect, Leaves, Schedule, ScheduleOf
  <2>2. CASE p = r
    <3>1. \A q \in Rank : entered[q] >= Base + 4 BY <1>3, <2>1 DEF Inspect, Leaves
    <3>2. \A q \in Rank : q # r => (mem[r][q] = "magic" <=> <<q, r>> \in topo.lands)
      <4>1. \A q \in Rank : Written(q, r) BY <3>1 DEF Written
      <4> QED BY <2>1, <4>1 DEF Cells, Probing
    <3>3. seen'[r] = {q \in Rank : q = r \/ mem[r][q] = "magic"} BY <1>3 DEF Inspect, TypeOK
    <3> QED BY <1>1, <2>2, <3>2, <3>3
  <2>3. CASE p # r
    <3>0. seen' = [seen EXCEPT ![r] = {x \in Rank : x = r \/ mem[r][x] = "magic"}]
      BY <1>3 DEF Inspect
    <3>1. seen'[p] = seen[p] /\ entered'[p] = entered[p] BY <2>3, <3>0, Frame DEF TypeOK
    <3> QED BY <1>1, <2>1, <3>1 DEF SeenExact
  <2> QED BY <2>2, <2>3
<1>4. CASE ~Gather(r) /\ ~Inspect(r)
  <2>1. ok' = ok /\ seen' = seen BY <1>4, Frame
  <2>2. Taken BY <2>1, Frame, FixedVotes
  <2>3. entered[p] >= Base + 5
    <3>1. CASE entered'[p] = entered[p] BY <1>1, <3>1
    <3>2. CASE entered'[p] # entered[p]
      <4>1. p = r /\ pc'[r] \in Waiting /\ entered'[r] = entered[r] + 1 /\ pc'[r] # "exchange"
        BY <1>4, <3>2, Frame, Edge
      <4>2. ScheduleOf(r)' BY DEF Schedule
      <4>3. Made' = Base + 5 /\ ~ByFabric' /\ Aligned' \in {Base + 5, Base + 6}
        BY <1>1, <2>1, <2>2, Frame, Fixed, FixedVotes, Counts, FlagAssumption
      <4>4. entered'[r] >= Base + 6
        BY <1>1, <4>1, <4>2, <4>3 DEF ScheduleOf, Waiting
      <4> QED BY <1>1, <4>1, <4>4 DEF TypeOK
    <3> QED BY <3>1, <3>2
  <2> QED BY <1>1, <2>1, <2>2, <2>3 DEF SeenExact
<1> QED BY <1>2, <1>3, <1>4

\* The verdict of a rank that leaves the exchange.
LEMMA VerdictTaken ==
  ASSUME TypeOK, Schedule, SeenExact, NEW r \in Rank, Verdict(r)
  PROVE  verdict'[r] = {r} \cup {t \in Rank : t # r /\ <<r, t>> \in topo.lands}
<1>1. entered[r] = Base + 5 /\ Taken BY DEF Verdict, Leaves, Schedule, ScheduleOf
<1>2. \A q \in Rank : entered[q] >= Base + 5 BY <1>1 DEF Verdict, Leaves
<1>3. \A p \in Rank : seen[p] = {q \in Rank : q = p \/ <<q, p>> \in topo.lands}
  BY <1>1, <1>2 DEF SeenExact
<1>4. verdict'[r] = {p \in Rank : r \in seen[p]} BY DEF Verdict, TypeOK
<1> QED BY <1>3, <1>4

LEMMA VerdictHolds ==
  ASSUME TypeOK, Schedule, SeenExact, VerdictExact, NEW r \in Rank, Step(r)
  PROVE  VerdictExact'
<1>1. topo' = topo BY Frame
<1>2. CASE Verdict(r)
  <2>1. \A q \in Rank \ {r} : verdict'[q] = verdict[q] BY <1>2 DEF Verdict, TypeOK
  <2> QED BY <1>1, <1>2, <2>1, VerdictTaken DEF VerdictExact, NoVerdict
<1>3. CASE ~Verdict(r) BY <1>1, <1>3, Frame DEF VerdictExact, NoVerdict
<1> QED BY <1>2, <1>3

LEMMA OpenHolds ==
  ASSUME TypeOK, Schedule, SeenExact, OwnOpen, NEW r \in Rank, Step(r)
  PROVE  OwnOpen'
<1> SUFFICES ASSUME NEW q \in Rank, pc'[q] \in InWindow PROVE q \in opened'[q] BY DEF OwnOpen
<1> USE DEF callVars, metaVars
<1>1. CASE FabricMap(r)
  <2>1. opened' = [opened EXCEPT ![r] = Rank] BY <1>1 DEF FabricMap
  <2>2. q # r => pc[q] \in InWindow /\ opened'[q] = opened[q] BY <2>1, Frame DEF TypeOK
  <2> QED BY <2>1, <2>2 DEF OwnOpen, TypeOK
<1>2. CASE Gather(r)
  <2>1. opened' = [opened EXCEPT ![r] = {r}] BY <1>2 DEF Gather
  <2> QED BY <2>1, Frame DEF OwnOpen, TypeOK
<1>3. CASE Probe(r)
  <2>0. opened' = [opened EXCEPT ![r] = opened[r] \cup {next[r]}] \/ opened' = opened
    BY <1>3 DEF Probe
  <2>1. pc' = pc /\ opened[q] \subseteq opened'[q] BY <1>3, <2>0 DEF Probe, TypeOK
  <2> QED BY <2>1 DEF OwnOpen
<1>4. CASE Verdict(r)
  <2>1. opened' = [opened EXCEPT ![r] = @ \cap verdict'[r]] /\ pc[r] = "exchange"
    BY <1>4 DEF Verdict, Leaves
  <2>2. r \in verdict'[r] BY <1>4, VerdictTaken
  <2> QED BY <2>1, <2>2, Frame DEF OwnOpen, InWindow, TypeOK
<1>5. CASE Query(r)
  <2>1. pc' = pc /\ opened[q] \subseteq opened'[q] BY <1>5 DEF Query, TypeOK
  <2> QED BY <2>1 DEF OwnOpen
<1>6. CASE Free(r)
  <2>1. pc'[r] = "free" /\ opened' = [opened EXCEPT ![r] = {}]
    BY <1>6 DEF Free, Enter, TypeOK
  <2> QED BY <2>1, Frame DEF OwnOpen, InWindow, TypeOK
<1>7. CASE opened' = opened /\ ~FabricMap(r) /\ ~Gather(r)
  BY <1>7, Frame, Edge DEF OwnOpen
<1> QED BY <1>1, <1>2, <1>3, <1>4, <1>5, <1>6, <1>7, Frame

LEMMA PtrHolds ==
  ASSUME TypeOK, Loops, VerdictExact, OwnOpen, OwnPtr, NEW r \in Rank, Step(r)
  PROVE  OwnPtr'
<1> SUFFICES ASSUME NEW q \in Rank, (pc'[q] = "query" /\ next'[q] > q) \/ pc'[q] \in After
             PROVE  q \in ptr'[q]
  BY DEF OwnPtr
<1>1. CASE Query(r)
  <2>1. pc' = pc /\ pc[r] = "query" /\ ptr[q] \subseteq ptr'[q] BY <1>1 DEF Query, TypeOK
  <2>2. CASE q # r BY <2>1, <2>2, Frame DEF OwnPtr
  <2>3. CASE q = r
    <3>1. next'[r] = next[r] + 1 BY <1>1 DEF Query, TypeOK
    <3>2. CASE next[r] = r
      <4>1. r \in opened[r] BY <2>1 DEF OwnOpen, InWindow
      <4>2. ~Undelivering(r, r) BY DEF Undelivering, VerdictExact
      <4>3. ptr' = [ptr EXCEPT ![r] = ptr[r] \cup {r}] BY <1>1, <3>2, <4>1, <4>2 DEF Query, Grants
      <4> QED BY <2>3, <4>3 DEF TypeOK
    <3>3. CASE next[r] # r
      <4>1. next[r] \in Nat /\ r \in Nat /\ next[r] + 1 > r
        BY <2>1, <2>3, <3>1, Ranks DEF After, TypeOK
      <4>2. next[r] > r BY <3>3, <4>1
      <4> QED BY <2>1, <2>3, <4>2 DEF OwnPtr
    <3> QED BY <3>2, <3>3
  <2> QED BY <2>2, <2>3
<1>2. CASE ~Query(r)
  <2>1. ptr' = ptr BY <1>2, Frame
  <2>2. CASE q # r BY <2>1, <2>2, Frame DEF OwnPtr
  <2>3. CASE q = r /\ pc'[r] \in After
    <3>1. pc[r] \in After \/ (pc[r] = "query" /\ next[r] > r) BY <2>3, Edge, Ranks
    <3> QED BY <2>1, <2>3, <3>1 DEF OwnPtr
  <2>4. CASE q = r /\ pc'[r] = "query"
    <3>1. pc[r] \in Idle /\ next' = next BY <1>2, <2>4, Edge
    <3>2. next'[r] = 0 /\ r \in Nat BY <3>1, Ranks DEF Loops
    <3> QED BY <2>4, <3>2 DEF After
  <2> QED BY <2>2, <2>3, <2>4
<1> QED BY <1>1, <1>2

LEMMA HoldingsHold ==
  ASSUME TypeOK, Holdings, NEW r \in Rank, Step(r)
  PROVE  Holdings'
<1>1. KindOf(r) /\ PtrsOf(r) BY DEF Holdings
<1>2. KindOf(r)'
  <2> USE DEF TypeOK, KindOf, Enter, Goto, Leaves, metaVars
  <2>1. CASE Start(r) BY <1>1, <2>1 DEF Start
  <2>2. CASE FabricVote(r) BY <1>1, <2>2 DEF FabricVote
  <2>3. CASE FabricMap(r) BY <1>1, <2>3 DEF FabricMap
  <2>4. CASE Malloc(r) BY <1>1, <2>4 DEF Malloc
  <2>5. CASE Gather(r) BY <1>1, <2>5 DEF Gather
  <2>6. CASE Vote(r) BY <1>1, <2>6 DEF Vote
  <2>7. CASE Cleared(r) BY <1>1, <2>7 DEF Cleared
  <2>8. CASE Probe(r) BY <1>1, <2>8 DEF Probe
  <2>9. CASE Probed(r) BY <1>1, <2>9 DEF Probed
  <2>10. CASE Inspect(r) BY <1>1, <2>10 DEF Inspect
  <2>11. CASE Verdict(r) BY <1>1, <2>11 DEF Verdict
  <2>12. CASE Query(r) BY <1>1, <2>12 DEF Query
  <2>13. CASE Queried(r) BY <1>1, <2>13 DEF Queried
  <2>14. CASE Align(r) BY <1>1, <2>14 DEF Align
  <2>15. CASE Quiesce(r) BY <1>1, <2>15 DEF Quiesce, Stored
  <2>16. CASE Free(r) BY <1>1, <2>16 DEF Free
  <2>17. CASE Freed(r) BY <1>1, <2>17 DEF Freed
  <2>18. CASE \E t \in Rank : Store(r, t) BY <1>1, <2>18 DEF Store
  <2> QED
    BY <2>1, <2>2, <2>3, <2>4, <2>5, <2>6, <2>7, <2>8, <2>9, <2>10, <2>11, <2>12, <2>13,
       <2>14, <2>15, <2>16, <2>17, <2>18 DEF Step
<1>3. PtrsOf(r)'
  <2>1. CASE Query(r)
    <3>1. pc' = pc /\ pc[r] = "query" /\ kind' = kind /\ verdict' = verdict BY <2>1 DEF Query
    <3>2. CASE Grants(r, next[r]) /\ kind[r] = "ipc" /\ verdict[r] # NoVerdict
      <4>1. ptr'[r] = ptr[r] \cup {next[r]} BY <2>1, <3>2 DEF Query, TypeOK
      <4>2. next[r] \in verdict[r] BY <3>2 DEF Grants, Undelivering
      <4> QED BY <1>1, <3>1, <3>2, <4>1, <4>2 DEF PtrsOf, NoVerdict
    <3>3. CASE ~(kind[r] = "ipc" /\ verdict[r] # NoVerdict)
      BY <3>1, <3>3 DEF PtrsOf, NoVerdict
    <3>4. CASE ~Grants(r, next[r])
      <4>1. ptr' = ptr BY <2>1, <3>4 DEF Query
      <4> QED BY <1>1, <3>1, <4>1 DEF PtrsOf, NoVerdict
    <3> QED BY <3>2, <3>3, <3>4
  <2>2. CASE ~Query(r)
    <3>1. ptr' = ptr BY <2>2, Frame
    <3>2. pc'[r] \notin After \cup {"query"} => ptr'[r] = {} BY <1>1, <3>1, Edge DEF PtrsOf
    <3>3. kind'[r] = "ipc" /\ verdict'[r] # NoVerdict' => ptr'[r] \subseteq verdict'[r]
      <4>1. CASE Verdict(r)
        <5>1. ptr[r] = {} BY <1>1, <4>1 DEF Verdict, Leaves, PtrsOf, After
        <5> QED BY <3>1, <5>1
      <4>2. CASE Gather(r)
        <5>1. ptr[r] = {} BY <1>1, <4>2 DEF Gather, Leaves, PtrsOf, After
        <5> QED BY <3>1, <5>1
      <4>3. CASE FabricMap(r) \/ Free(r)
        <5>1. kind'[r] # "ipc" BY <4>3 DEF FabricMap, Free, TypeOK
        <5> QED BY <5>1
      <4>4. CASE UNCHANGED <<kind, verdict>> BY <1>1, <3>1, <4>4 DEF PtrsOf, NoVerdict
      <4> QED BY <4>1, <4>2, <4>3, <4>4, Frame
    <3> QED BY <3>2, <3>3 DEF PtrsOf
  <2> QED BY <2>1, <2>2
<1>4. ASSUME NEW q \in Rank, q # r PROVE KindOf(q)' /\ PtrsOf(q)'
  <2>1. pc'[q] = pc[q] BY <1>4, Frame
  <2>2. kind'[q] = kind[q] BY <1>4, Frame DEF FabricMap, Gather, Free, TypeOK
  <2>3. verdict'[q] = verdict[q] BY <1>4, Frame DEF Verdict, TypeOK
  <2>4. ptr'[q] = ptr[q] BY <1>4, Frame DEF Query, TypeOK
  <2> QED BY <2>1, <2>2, <2>3, <2>4 DEF Holdings, KindOf, PtrsOf, NoVerdict
<1> QED BY <1>2, <1>3, <1>4 DEF Holdings

\* A rank before the window's allgather is far from every probe.
LEMMA EarlyCells ==
  ASSUME TypeOK, Schedule, Barriers, NEW r \in Rank, Step(r),
         pc[r] \in {"enter", "fabric", "fabmap", "malloc", "gather"}
  PROVE  \A p \in Rank : pc'[p] \notin Probing
<1>1. \A p \in Rank : pc[p] \notin Probing BY NearProbe
<1>2. pc'[r] \notin Probing
  <2> USE DEF TypeOK, Enter, Goto, Leaves, Probing
  <2>1. CASE Start(r) BY <2>1 DEF Start
  <2>2. CASE FabricVote(r) BY <2>2 DEF FabricVote
  <2>3. CASE FabricMap(r) BY <2>3 DEF FabricMap
  <2>4. CASE Malloc(r) BY <2>4 DEF Malloc
  <2>5. CASE Gather(r) BY <2>5 DEF Gather
  <2> QED
    BY <2>1, <2>2, <2>3, <2>4, <2>5
    DEF Step, Vote, Cleared, Probe, Probed, Inspect, Verdict, Query, Queried, Align, Quiesce,
        Stored, Free, Freed, Store
<1> QED BY <1>1, <1>2, Frame

\* The cells of a rank stay exact as long as their content and what is
\* written to them do not change.
LEMMA CellsKept ==
  ASSUME TypeOK, Cells, NEW r \in Rank, Step(r),
         NEW p \in Rank, NEW q \in Rank \ {p}, pc[p] \in Probing,
         mem'[p][q] = mem[p][q], Written(q, p)' = Written(q, p)
  PROVE  mem'[p][q] = IF <<q, p>> \in topo'.lands /\ Written(q, p)' THEN "magic" ELSE "zero"
BY Frame DEF Cells

LEMMA CellsHold ==
  ASSUME TypeOK, Schedule, Barriers, Loops, Cells, NEW r \in Rank, Step(r)
  PROVE  Cells'
<1>1. CASE pc[r] \in {"enter", "fabric", "fabmap", "malloc", "gather"}
  BY <1>1, EarlyCells DEF Cells
<1>2. CASE pc[r] \notin {"enter", "fabric", "fabmap", "malloc", "gather"}
  <2> SUFFICES ASSUME NEW p \in Rank, NEW q \in Rank \ {p}, pc'[p] \in Probing
               PROVE  mem'[p][q] = IF <<q, p>> \in topo'.lands /\ Written(q, p)' THEN "magic" ELSE "zero"
    BY DEF Cells
  <2>1. Base' = Base /\ Base \in {0, 1} /\ topo' = topo BY Frame, Fixed, Counts
  <2>2. \A x \in Rank \ {r} : pc'[x] = pc[x] /\ entered'[x] = entered[x] /\ next'[x] = next[x]
    BY Frame
  <2>3. q # r => Written(q, p)' = Written(q, p) BY <2>1, <2>2 DEF Written
  <2>4. CASE Vote(r)
    <3>1. pc[r] = "vote" /\ entered[r] = Base + 2 BY <2>4 DEF Vote, Leaves, Schedule, ScheduleOf
    <3>2. pc'[r] # "probe" /\ entered'[r] \in {Base + 2, Base + 3}
      BY <2>1, <2>4, <3>1 DEF Vote, Enter, Goto, TypeOK
    <3>3. CASE p = r
      <4>1. mem' = [mem EXCEPT ![r] = [x \in Rank |-> "zero"]]
        BY <2>4, <3>3 DEF Vote, Goto, Probing, TypeOK
      <4>2. entered[q] <= entered[r] + 1 /\ (pc[q] \notin Waiting => entered[q] <= entered[r])
        BY DEF Barriers, TypeOK
      <4>3. pc[q] = "probe" => entered[q] = Base + 3 BY DEF Schedule, ScheduleOf
      <4>4. ~Written(q, p) BY <2>1, <3>1, <4>2, <4>3 DEF Written, Waiting, TypeOK
      <4>5. q # r /\ ~Written(q, p)' BY <2>3, <3>3, <4>4
      <4>6. mem'[p][q] = "zero" BY <3>3, <4>1 DEF TypeOK
      <4> QED BY <4>5, <4>6
    <3>4. CASE p # r
      <4>1. mem'[p] = mem[p] BY <2>4, <3>4 DEF Vote, memVars, TypeOK
      <4>2. q = r => Written(q, p)' = Written(q, p) BY <2>1, <3>1, <3>2 DEF Written
      <4> QED BY <2>2, <2>3, <3>4, <4>1, <4>2, CellsKept
    <3> QED BY <3>3, <3>4
  <2>5. CASE Cleared(r)
    <3>1. pc[r] = "clear" /\ entered[r] = Base + 3 /\ next[r] = 0
      BY <2>5 DEF Cleared, Leaves, Schedule, ScheduleOf, Loops, Idle
    <3>2. pc'[r] = "probe" /\ entered'[r] = entered[r] /\ next' = next /\ mem' = mem
      BY <2>5 DEF Cleared, Goto, memVars, TypeOK
    <3>3. q = r => Written(q, p)' = Written(q, p)
      BY <2>1, <3>1, <3>2, Ranks DEF Written
    <3>4. pc[p] \in Probing BY <2>2, <3>1 DEF Probing
    <3> QED BY <2>3, <3>2, <3>3, <3>4, CellsKept
  <2>6. CASE Probe(r)
    <3>1. /\ pc' = pc /\ entered' = entered /\ pc[r] = "probe"
          /\ next'[r] = next[r] + 1 /\ next[r] \in Nat
      BY <2>6 DEF Probe, TypeOK
    <3>2. entered[r] = Base + 3 BY <3>1 DEF Schedule, ScheduleOf
    <3>3. CASE q = r /\ p = next[r]
      <4>1. Written(q, p)' BY <3>1, <3>3 DEF Written
      <4>2. ~Written(q, p) BY <2>1, <3>1, <3>2, <3>3 DEF Written
      <4>3. mem[p][q] = "zero" BY <3>1, <4>2 DEF Cells
      <4>4. mem'[p][q] = IF <<r, p>> \in topo.lands THEN "magic" ELSE mem[p][q]
        BY <2>6, <3>3 DEF Probe, TypeOK
      <4> QED BY <2>1, <3>3, <4>1, <4>3, <4>4
    <3>4. CASE q # r \/ p # next[r]
      <4>1. mem'[p][q] = mem[p][q] BY <2>6, <3>4 DEF Probe, TypeOK
      <4>2. q = r => Written(q, p)' = Written(q, p)
        BY <2>1, <3>1, <3>4, Ranks DEF Written
      <4>3. Written(q, p)' = Written(q, p) /\ pc[p] \in Probing BY <2>3, <3>1, <4>2
      <4> QED BY <4>1, <4>3, CellsKept
    <3> QED BY <3>3, <3>4
  <2>7. CASE Probed(r)
    <3>1. pc[r] = "probe" /\ next[r] = N /\ mem' = mem BY <2>7 DEF Probed, memVars
    <3>2. entered[r] = Base + 3 /\ entered'[r] = Base + 4 /\ pc'[r] = "sent"
      BY <2>1, <2>7, <3>1 DEF Probed, Enter, Schedule, ScheduleOf, TypeOK
    <3>3. q = r => Written(q, p)' = Written(q, p) BY <2>1, <3>1, <3>2, Ranks DEF Written
    <3>4. pc[p] \in Probing BY <2>2, <3>1 DEF Probing
    <3> QED BY <2>3, <3>1, <3>3, <3>4, CellsKept
  <2>8. CASE pc[r] \in {"sent", "exchange", "query", "align", "store", "quiesce", "free"}
    <3>1. p # r /\ pc[p] \in Probing
      <4>1. pc'[r] \notin Probing
        BY <2>8 DEF Step, Start, FabricVote, FabricMap, Malloc, Gather, Vote, Cleared, Probe, Probed,
           Inspect, Verdict, Query, Queried, Align, Quiesce, Stored, Free, Freed, Store,
           Enter, Goto, Leaves, Probing, TypeOK
      <4> QED BY <2>2, <4>1
    <3>2. pc[r] # "store" /\ (pc[r] \notin {"sent", "exchange"} => entered[r] >= Base + 5)
      BY <2>8, <3>1, NearProbe
    <3>3. entered[r] >= Base + 4
      BY <2>1, <2>8, <3>2 DEF Schedule, ScheduleOf, TypeOK
    <3>4. entered'[r] >= Base + 4 BY <2>1, <3>3, Edge DEF TypeOK
    <3>5. Written(r, p)' = Written(r, p) BY <2>1, <3>3, <3>4 DEF Written
    <3>6. mem'[p] = mem[p]
      <4>1. CASE Verdict(r) BY <3>1, <4>1 DEF Verdict, TypeOK
      <4>2. CASE ~Verdict(r)
        BY <2>8, <3>2, <4>2, Frame DEF Vote, Probe, Store, Leaves
      <4> QED BY <4>1, <4>2
    <3> QED BY <2>3, <3>1, <3>5, <3>6, CellsKept
  <2>9. pc[r] \in {"vote", "clear", "probe", "sent", "exchange", "query", "align", "store",
                   "quiesce", "free"}
    BY <1>2 DEF Step, Start, FabricVote, FabricMap, Malloc, Gather, Vote, Cleared, Probe, Probed,
       Inspect, Verdict, Query, Queried, Align, Quiesce, Stored, Free, Freed, Store, Leaves
  <2>10. /\ pc[r] = "vote" => Vote(r)
         /\ pc[r] = "clear" => Cleared(r)
         /\ pc[r] = "probe" => Probe(r) \/ Probed(r)
    BY DEF Step, Start, FabricVote, FabricMap, Malloc, Gather, Vote, Cleared, Probe, Probed,
       Inspect, Verdict, Query, Queried, Align, Quiesce, Stored, Free, Freed, Store, Leaves
  <2> QED BY <2>4, <2>5, <2>6, <2>7, <2>8, <2>9, <2>10
<1> QED BY <1>1, <1>2

-----------------------------------------------------------------------------
(* The theorems.                                                           *)

LEMMA InitHolds ==
  ASSUME UniformSwitch, Init
  PROVE  WindowInv
<1>1. TypeOK BY InitTyped
<1>u. Uniform(topo) BY <1>1 DEF TypeOK, UniformSwitch
<1>2. \A r \in Rank : pc[r] = "enter" /\ entered[r] = 0 /\ next[r] = 0 /\ verdict[r] = NoVerdict
  BY DEF Init
<1>3. Schedule /\ Barriers /\ Loops BY <1>2 DEF Schedule, ScheduleOf, Barriers, Loops
<1>4. Cells /\ OwnOpen /\ OwnPtr BY <1>2 DEF Cells, OwnOpen, OwnPtr, Probing, InWindow, After
<1>5. SeenExact /\ VerdictExact BY <1>1, <1>2, Counts DEF SeenExact, VerdictExact
<1>6. Holdings BY <1>2 DEF Init, Holdings, KindOf, PtrsOf
<1> QED BY <1>1, <1>u, <1>3, <1>4, <1>5, <1>6 DEF WindowInv

LEMMA RestHolds ==
  ASSUME WindowInv, Rest, aborted' \in {aborted, TRUE}
  PROVE  WindowInv'
<1> USE DEF Rest, callVars, metaVars, probeVars, memVars, appVars
<1>1. TypeOK' BY RestTyped DEF WindowInv
<1>u. Uniform(topo)' BY DEF WindowInv, Uniform
<1>2. Schedule' BY Fixed, FixedVotes DEF WindowInv, Schedule, ScheduleOf, Verifies
<1>3. Barriers' /\ Loops' BY DEF WindowInv, Barriers, Loops
<1>4. Cells' BY Fixed DEF WindowInv, Cells, Written
<1>5. SeenExact' BY Fixed, FixedVotes DEF WindowInv, SeenExact
<1>6. VerdictExact' BY DEF WindowInv, VerdictExact, NoVerdict
<1>7. OwnOpen' /\ OwnPtr' BY DEF WindowInv, OwnOpen, OwnPtr
<1>8. Holdings' BY DEF WindowInv, Holdings, KindOf, PtrsOf, NoVerdict
<1> QED BY <1>1, <1>u, <1>2, <1>3, <1>4, <1>5, <1>6, <1>7, <1>8 DEF WindowInv

\* The variables of the window keep their types (mpiwrap_ipc.cc:110-155).
THEOREM Typed == Spec => []TypeOK
<1>1. Init => TypeOK BY InitTyped
<1>2. TypeOK /\ [Next]_vars => TypeOK' BY StepOrRest, StepTyped, RestTyped
<1> QED BY <1>1, <1>2, PTL DEF Spec

\* The strengthened invariant of the window holds on every machine whose ranks
\* agree on WINIPC_VERIFY_PEERS, for every number of ranks and every outcome
\* of the votes (mpiwrap_ipc.cc:213-338).
THEOREM WindowInvariant ==
  ASSUME UniformSwitch
  PROVE  Spec => []WindowInv
<1>1. Init => WindowInv BY InitHolds
<1>2. WindowInv /\ [Next]_vars => WindowInv'
  <2> SUFFICES ASSUME WindowInv, [Next]_vars PROVE WindowInv' OBVIOUS
  <2>1. CASE Rest /\ aborted' \in {aborted, TRUE} BY <2>1, RestHolds
  <2>2. ASSUME NEW r \in Rank, Step(r) PROVE WindowInv'
    <3> USE <2>2 DEF WindowInv
    <3>1. TypeOK' BY StepTyped
    <3>2. Schedule' /\ Barriers' BY ScheduleHolds
    <3>3. Loops' BY LoopsHold
    <3>4. Cells' BY CellsHold
    <3>5. SeenExact' BY <3>1, <3>2, SeenHolds
    <3>6. VerdictExact' BY VerdictHolds
    <3>7. OwnOpen' BY OpenHolds
    <3>8. OwnPtr' BY PtrHolds
    <3>9. Holdings' BY HoldingsHold
    <3>u. Uniform(topo)' BY Frame DEF Uniform
    <3> QED BY <3>1, <3>u, <3>2, <3>3, <3>4, <3>5, <3>6, <3>7, <3>8, <3>9
  <2> QED BY <2>1, <2>2, StepOrRest
<1> QED BY <1>1, <1>2, PTL DEF Spec

\* A peer is reachable exactly if this rank's stores arrive there, whatever
\* the driver said and the memory held (mpiwrap_ipc.cc:225-338).
THEOREM VerdictIsExact ==
  ASSUME UniformSwitch
  PROVE  Spec => []VerdictExact
<1>1. WindowInv => VerdictExact BY DEF WindowInv
<1> QED BY <1>1, WindowInvariant, PTL

\* No two ranks ever stand in different collectives at the same count: of the
\* reasons to skip one, the switch of the probe is the only one that is not
\* voted on (mpiwrap_ipc.cc:241-276).
THEOREM CollectivesAgree ==
  ASSUME UniformSwitch
  PROVE  Spec => []CollectivesMatch
<1>1. WindowInv => CollectivesMatch
  <2> SUFFICES ASSUME WindowInv, NEW r \in Rank, NEW q \in Rank, pc[r] \in Waiting,
                      entered[r] = entered[q], pc[q] \in Waiting
               PROVE  pc[q] = pc[r]
    BY DEF CollectivesMatch, Differ
  <2>1. ScheduleOf(r) /\ ScheduleOf(q) BY DEF WindowInv, Schedule
  <2>2. TypeOK /\ Base \in {0, 1} /\ Made \in Nat /\ Aligned \in Nat BY Counts DEF WindowInv
  <2>3. /\ Base >= 0 /\ (Spans => Base = 1) /\ (ByFabric => Spans /\ Made = 2 /\ ~Taken)
        /\ (~ByFabric => Made >= Base + 1) /\ (~ByFabric /\ Verifies => Made >= Base + 2)
        /\ (Taken => Made = Base + 5)
        /\ (AppSync => Aligned = Made + 1) /\ (~AppSync => Aligned = Made)
    BY <2>2, Counts
  <2> QED BY <2>1, <2>2, <2>3 DEF ScheduleOf, Waiting
<1> QED BY <1>1, WindowInvariant, PTL

\* A rank that has gone through its queries holds a pointer to its own memory
\* (mpiwrap_ipc.cc:520-575, relied on at comm_mpiwrap.h:49).
THEOREM SelfQueries ==
  ASSUME UniformSwitch
  PROVE  Spec => []SelfQuerySucceeds
<1>1. WindowInv => SelfQuerySucceeds BY DEF WindowInv, OwnPtr, SelfQuerySucceeds, After
<1> QED BY <1>1, WindowInvariant, PTL
=============================================================================

--------------------------- MODULE PeerWindowProof ---------------------------
(***************************************************************************)
(* The window implements PeerWindow when the application aligns its ranks  *)
(* before they store: for every number of ranks, machine and vote, if the  *)
(* switch of the probe is in one position on all ranks.                    *)
(***************************************************************************)
EXTENDS WinIPCProof

\* The refinement mapping of WinIPC!Window.
WState(r) ==
  IF kind[r] = "freed" THEN "closed"
  ELSE IF kind[r] = "none" \/ pc[r] \in {"vote"} \cup SetAside THEN "none"
  ELSE IF kind[r] = "fabric" \/ verdict[r] # NoVerdict THEN "checked"
  ELSE "unchecked"
WContent(r) == IF pc[r] \in SetAside THEN saved[r] ELSE mem[r]

-----------------------------------------------------------------------------
(* What the mapping keeps.                                                 *)

\* The state of every other rank is its own.
LEMMA OtherStates ==
  ASSUME TypeOK, NEW r \in Rank, Step(r), NEW q \in Rank, q # r
  PROVE  WState(q)' = WState(q)
<1>1. pc'[q] = pc[q] BY Frame
<1>2. kind'[q] = kind[q] BY Frame DEF FabricMap, Gather, Free, TypeOK
<1>3. verdict'[q] = verdict[q] BY Frame DEF Verdict, TypeOK
<1> QED BY <1>1, <1>2, <1>3 DEF WState, SetAside, NoVerdict

\* A rank that is written to by a probe has its memory set aside.
LEMMA ProbedIsSetAside ==
  ASSUME TypeOK, Schedule, Barriers, NEW r \in Rank, Probe(r), NEW t \in Rank
  PROVE  pc[t] \in SetAside
<1>1. pc[r] = "probe" BY DEF Probe
<1>2. entered[r] = Base + 3 /\ Base \in {0, 1} BY <1>1, Counts DEF Schedule, ScheduleOf
<1>3. entered[r] <= entered[t] /\ entered[t] <= entered[r] + 1
  <2>1. pc[r] \notin Waiting BY <1>1 DEF Waiting
  <2> QED BY <2>1 DEF Barriers, TypeOK
<1>4. /\ pc[t] \notin {"enter", "fabric", "fabmap", "malloc", "gather", "failed", "store", "done"}
      /\ pc[t] \in {"query", "align", "quiesce", "free"} => entered[t] >= Base + 5
  BY <1>1, NearProbe DEF Probing
<1>5. pc[t] = "vote" => entered[t] = Base + 2 BY DEF Schedule, ScheduleOf
<1>6. pc[t] \in Pc /\ entered[t] \in Nat BY DEF TypeOK
<1> QED BY <1>2, <1>3, <1>4, <1>5, <1>6 DEF Pc, Waiting, SetAside

\* No step but an application's store changes what counts as content.
LEMMA ContentKept ==
  ASSUME TypeOK, Schedule, Barriers, NEW r \in Rank, Step(r), ~\E t \in Rank : Store(r, t),
         NEW q \in Rank
  PROVE  WContent(q)' = WContent(q)
<1>1. CASE q # r
  <2>1. pc'[q] = pc[q] BY <1>1, Frame
  <2>2. saved'[q] = saved[q]
    <3>1. CASE Vote(r) BY <1>1, <3>1 DEF Vote, memVars, TypeOK
    <3>2. CASE ~Vote(r) BY <3>2, Frame
    <3> QED BY <3>1, <3>2
  <2>3. CASE Probe(r)
    <3>1. pc[q] \in SetAside BY <2>3, ProbedIsSetAside
    <3> QED BY <2>1, <2>2, <3>1 DEF WContent, SetAside
  <2>4. CASE ~Probe(r)
    <3>1. mem'[q] = mem[q] BY <1>1, <2>4, Frame DEF Vote, Verdict, memVars, TypeOK
    <3> QED BY <2>1, <2>2, <3>1 DEF WContent, SetAside
  <2> QED BY <2>3, <2>4
<1>2. CASE q = r
  <2>1. CASE Vote(r)
    <3>1. pc[r] = "vote" BY <2>1 DEF Vote, Leaves
    <3>2. CASE \A x \in Rank : ok[x]
      <4>1. pc'[r] = "clear" /\ saved'[r] = mem[r] BY <2>1, <3>2 DEF Vote, Enter, TypeOK
      <4> QED BY <1>2, <3>1, <4>1 DEF WContent, SetAside
    <3>3. CASE ~\A x \in Rank : ok[x]
      <4>1. pc'[r] = "query" /\ mem' = mem BY <2>1, <3>3 DEF Vote, Goto, memVars, TypeOK
      <4> QED BY <1>2, <3>1, <4>1 DEF WContent, SetAside
    <3> QED BY <3>2, <3>3
  <2>2. CASE Verdict(r)
    <3>1. pc[r] = "exchange" /\ pc'[r] = "query" /\ mem'[r] = saved[r]
      BY <2>2 DEF Verdict, Goto, Leaves, TypeOK
    <3> QED BY <1>2, <3>1 DEF WContent, SetAside
  <2>3. CASE Probe(r)
    <3>1. pc[r] = "probe" /\ pc' = pc /\ saved' = saved BY <2>3 DEF Probe
    <3> QED BY <1>2, <3>1 DEF WContent, SetAside
  <2>4. CASE ~Vote(r) /\ ~Verdict(r) /\ ~Probe(r)
    <3>1. mem' = mem /\ saved' = saved BY <2>4, Frame
    <3>2. pc'[r] \in SetAside <=> pc[r] \in SetAside
      <4> USE DEF Enter, Goto, Leaves, SetAside, TypeOK
      <4>1. CASE Start(r) BY <4>1 DEF Start
      <4>2. CASE FabricVote(r) BY <4>2 DEF FabricVote
      <4>3. CASE FabricMap(r) BY <4>3 DEF FabricMap
      <4>4. CASE Malloc(r) BY <4>4 DEF Malloc
      <4>5. CASE Gather(r) BY <4>5 DEF Gather
      <4>6. CASE Cleared(r) BY <4>6 DEF Cleared
      <4>7. CASE Probed(r) BY <4>7 DEF Probed
      <4>8. CASE Inspect(r) BY <4>8 DEF Inspect
      <4>9. CASE Query(r) BY <4>9 DEF Query
      <4>10. CASE Queried(r) BY <4>10 DEF Queried
      <4>11. CASE Align(r) BY <4>11 DEF Align
      <4>12. CASE Quiesce(r) BY <4>12 DEF Quiesce, Stored
      <4>13. CASE Free(r) BY <4>13 DEF Free
      <4>14. CASE Freed(r) BY <4>14 DEF Freed
      <4>15. CASE \E t \in Rank : Store(r, t) BY <4>15 DEF Store
      <4> QED
        BY <2>4, <4>1, <4>2, <4>3, <4>4, <4>5, <4>6, <4>7, <4>8, <4>9, <4>10, <4>11, <4>12,
           <4>13, <4>14, <4>15 DEF Step
    <3> QED BY <1>2, <3>1, <3>2 DEF WContent, SetAside
  <2> QED BY <2>1, <2>2, <2>3, <2>4
<1> QED BY <1>1, <1>2

\* How the state of the rank itself moves.
LEMMA OwnState ==
  ASSUME TypeOK, Holdings, TypeOK', NEW r \in Rank, Step(r)
  PROVE  \/ WState(r)' = WState(r)
         \/ WState(r) = "none" /\ WState(r)' \in {"checked", "unchecked"}
         \/ WState(r) \in {"checked", "unchecked"} /\ WState(r)' = "closed"
<1> USE DEF TypeOK, Enter, Goto, Leaves, metaVars, SetAside
<1>1. KindOf(r) BY DEF Holdings
<1>2. ASSUME UNCHANGED <<kind, verdict>>,
             pc[r] \in {"vote"} \cup SetAside <=> pc'[r] \in {"vote"} \cup SetAside
      PROVE  WState(r)' = WState(r)
  BY <1>2 DEF WState, NoVerdict
<1>3. CASE Start(r) BY <1>2, <1>3 DEF Start
<1>4. CASE FabricVote(r) BY <1>2, <1>4 DEF FabricVote
<1>5. CASE FabricMap(r)
  <2>1. kind[r] = "none" BY <1>1, <1>5 DEF FabricMap, KindOf
  <2>2. kind'[r] = "fabric" /\ pc'[r] = "query" BY <1>5 DEF FabricMap
  <2> QED BY <2>1, <2>2 DEF WState
<1>6. CASE Malloc(r) BY <1>2, <1>6 DEF Malloc
<1>7. CASE Gather(r)
  <2>1. kind[r] = "none" BY <1>1, <1>7 DEF Gather, KindOf
  <2>2. kind'[r] = "ipc" /\ pc'[r] \in {"vote", "query"} BY <1>7 DEF Gather
  <2> QED BY <2>1, <2>2 DEF WState
<1>8. CASE Vote(r)
  <2>1. pc[r] = "vote" /\ pc'[r] \in {"clear", "query"} /\ kind' = kind BY <1>8 DEF Vote
  <2>2. kind[r] \notin {"none", "freed"} BY <1>1, <2>1 DEF KindOf
  <2> QED BY <2>1, <2>2 DEF WState
<1>9. CASE Cleared(r) BY <1>2, <1>9 DEF Cleared
<1>10. CASE Probe(r) BY <1>2, <1>10 DEF Probe
<1>11. CASE Probed(r) BY <1>2, <1>11 DEF Probed
<1>12. CASE Inspect(r) BY <1>2, <1>12 DEF Inspect
<1>13. CASE Verdict(r)
  <2>1. pc[r] = "exchange" /\ pc'[r] = "query" /\ kind' = kind BY <1>13 DEF Verdict
  <2>2. kind[r] \notin {"none", "freed"} BY <1>1, <2>1 DEF KindOf
  <2> QED BY <2>1, <2>2 DEF WState
<1>14. CASE Query(r) BY <1>2, <1>14 DEF Query
<1>15. CASE Queried(r) BY <1>2, <1>15 DEF Queried
<1>16. CASE Align(r) BY <1>2, <1>16 DEF Align
<1>17. CASE Quiesce(r) BY <1>2, <1>17 DEF Quiesce, Stored
<1>18. CASE Free(r)
  <2>1. pc[r] = "quiesce" /\ kind'[r] = "freed" BY <1>18 DEF Free
  <2>2. kind[r] \notin {"none", "freed"} BY <1>1, <2>1 DEF KindOf
  <2> QED BY <2>1, <2>2 DEF WState
<1>19. CASE Freed(r) BY <1>2, <1>19 DEF Freed
<1>20. CASE \E t \in Rank : Store(r, t) BY <1>2, <1>20 DEF Store
<1> QED
  BY <1>3, <1>4, <1>5, <1>6, <1>7, <1>8, <1>9, <1>10, <1>11, <1>12, <1>13,
     <1>14, <1>15, <1>16, <1>17, <1>18, <1>19, <1>20 DEF Step

\* A rank that stores finds its target past the probe and not yet freed.
LEMMA StoreFinds ==
  ASSUME WindowInv, AppSync = TRUE, NEW o \in Rank, NEW t \in Rank, Store(o, t)
  PROVE  /\ WState(o) \in {"checked", "unchecked"} /\ WState(t) # "closed"
         /\ pc[t] \notin SetAside
         /\ WState(o) = "unchecked" \/ Arrives(o, t)
<1> USE DEF WindowInv
<1>1. pc[o] = "store" /\ t \in ptr[o] \ {o} BY DEF Store
<1>2. KindOf(o) /\ KindOf(t) /\ PtrsOf(o) BY DEF Holdings
<1>3. entered[o] = Made + 1 /\ Aligned = Made + 1 /\ Made \in Nat
  BY <1>1, Counts DEF Schedule, ScheduleOf
<1>4. entered[o] <= entered[t] /\ entered[t] <= entered[o] + 1
      /\ (pc[t] \notin Waiting => entered[t] <= entered[o])
  <2>1. pc[o] \notin Waiting BY <1>1 DEF Waiting
  <2> QED BY <2>1 DEF Barriers, TypeOK
<1>5. ScheduleOf(t) /\ entered[t] \in Nat BY DEF Schedule, TypeOK
<1>6. pc[t] \notin SetAside
  <2>1. Taken => Made = Base + 5 /\ Base \in {0, 1} BY Counts
  <2> QED BY <1>3, <1>4, <1>5, <2>1 DEF ScheduleOf, SetAside
<1>7. pc[t] \notin {"free", "done"} BY <1>3, <1>4, <1>5 DEF ScheduleOf, Waiting
<1>8. kind[o] \in {"ipc", "fabric"} BY <1>1, <1>2 DEF KindOf, TypeOK
<1>9. WState(o) = IF kind[o] = "fabric" \/ verdict[o] # NoVerdict THEN "checked" ELSE "unchecked"
  BY <1>1, <1>8 DEF WState, SetAside
<1>10. kind[t] # "freed" /\ WState(t) # "closed" BY <1>2, <1>7 DEF KindOf, WState
<1>11. kind[o] = "ipc" /\ verdict[o] # NoVerdict => <<o, t>> \in topo.lands
  BY <1>1, <1>2 DEF PtrsOf, VerdictExact
<1> QED BY <1>6, <1>8, <1>9, <1>10, <1>11 DEF Arrives

\* A store changes the one cell, if it arrives.
LEMMA StoreWrites ==
  ASSUME TypeOK, NEW o \in Rank, NEW t \in Rank, Store(o, t), pc[t] \notin SetAside, NEW q \in Rank
  PROVE  WContent(q)' = IF q = t /\ Arrives(o, t) THEN [WContent(t) EXCEPT ![o] = "app"]
                        ELSE WContent(q)
<1>1. pc' = pc /\ saved' = saved BY DEF Store
<1>2. mem' = IF Arrives(o, t) THEN [mem EXCEPT ![t][o] = "app"] ELSE mem BY DEF Store
<1>3. CASE q = t BY <1>1, <1>2, <1>3 DEF WContent, SetAside, TypeOK
<1>4. CASE q # t BY <1>1, <1>2, <1>4 DEF WContent, SetAside, TypeOK
<1> QED BY <1>3, <1>4

-----------------------------------------------------------------------------
(* The refinement.                                                         *)

States == [r \in Rank |-> WState(r)]
Contents == [r \in Rank |-> WContent(r)]

LEMMA MappedInit == Init => Window!Init
<1> SUFFICES ASSUME Init PROVE Window!Init OBVIOUS
<1>1. \A r \in Rank : kind[r] = "none" /\ pc[r] = "enter" BY DEF Init
<1>2. \A r \in Rank : mem[r] \in [Rank -> {"live", "magic"}] BY DEF Init
<1>3. States = [r \in Rank |-> "none"] BY <1>1 DEF States, WState
<1>4. Contents \in [Rank -> [Rank -> {"live", "magic"}]]
  BY <1>1, <1>2 DEF Contents, WContent, SetAside
<1>5. issued = {} BY DEF Init
<1> QED BY <1>3, <1>4, <1>5 DEF States, Contents, WState, WContent, Window!Init, Window!Old

LEMMA MappedStep ==
  ASSUME WindowInv, TypeOK', AppSync = TRUE, NEW r \in Rank, Step(r)
  PROVE  [Window!Next]_(Window!vars)
<1> USE DEF WindowInv
<1>1. CASE \E t \in Rank : Store(r, t)
  <2>1. PICK t \in Rank : Store(r, t) BY <1>1
  <2>2. States' = States
    <3>1. UNCHANGED <<kind, verdict, pc>> BY <2>1 DEF Store, metaVars
    <3> QED BY <3>1 DEF States, WState, NoVerdict
  <2>3. /\ States[r] \in {"checked", "unchecked"} /\ States[t] # "closed"
        /\ States[r] = "unchecked" \/ Arrives(r, t)
    BY <2>1, StoreFinds DEF States
  <2>4. <<r, t>> \notin issued /\ issued' = issued \cup {<<r, t>>} BY <2>1 DEF Store
  <2>5. \A q \in Rank : WContent(q)' = IF q = t /\ Arrives(r, t) THEN [WContent(t) EXCEPT ![r] = "app"]
                                       ELSE WContent(q)
    BY <2>1, StoreFinds, StoreWrites
  <2>6. Contents' = IF Arrives(r, t) THEN [Contents EXCEPT ![t][r] = "app"] ELSE Contents
    BY <2>5 DEF Contents
  <2>7. Window!Store(r, t)
    BY <2>2, <2>3, <2>4, <2>6 DEF States, Contents, WState, WContent, Window!Store
  <2> QED BY <2>7 DEF Window!Next
<1>2. CASE ~\E t \in Rank : Store(r, t)
  <2>1. Contents' = Contents BY <1>2, ContentKept DEF Contents
  <2>2. issued' = issued BY <1>2, Frame
  <2>3. \A q \in Rank : q # r => WState(q)' = WState(q) BY OtherStates
  <2>4. CASE WState(r)' = WState(r)
    <3>1. States' = States BY <2>3, <2>4 DEF States
    <3> QED BY <2>1, <2>2, <3>1 DEF States, Contents, WState, WContent, Window!vars
  <2>5. CASE WState(r) = "none" /\ WState(r)' \in {"checked", "unchecked"}
    <3>1. States[r] = "none" /\ \E s \in {"checked", "unchecked"} : States' = [States EXCEPT ![r] = s]
      BY <2>3, <2>5 DEF States
    <3>2. Window!Create(r)
      BY <2>1, <2>2, <3>1 DEF States, Contents, WState, WContent, Window!Create
    <3> QED BY <3>2 DEF Window!Next
  <2>6. CASE WState(r) \in {"checked", "unchecked"} /\ WState(r)' = "closed"
    <3>1. States[r] \in {"checked", "unchecked"} /\ States' = [States EXCEPT ![r] = "closed"]
      BY <2>3, <2>6 DEF States
    <3>2. Window!Close(r)
      BY <2>1, <2>2, <3>1 DEF States, Contents, WState, WContent, Window!Close
    <3> QED BY <3>2 DEF Window!Next
  <2> QED BY <2>4, <2>5, <2>6, OwnState
<1> QED BY <1>1, <1>2

\* If the application aligns its ranks before they store, and all of them have
\* the probe on or all have it off, the window is a PeerWindow: the probe leaves no trace in the memory, and a store on a
\* window whose peers were checked arrives (mpiwrap_ipc.cc:213-338, 520-575).
THEOREM ImplementsPeerWindow ==
  ASSUME AppSync = TRUE, UniformSwitch
  PROVE  Spec => PeerWindowSpec
<1>1. Init => Window!Init BY MappedInit
<1>2. WindowInv /\ WindowInv' /\ [Next]_vars => [Window!Next]_(Window!vars)
  <2> SUFFICES ASSUME WindowInv, WindowInv', [Next]_vars PROVE [Window!Next]_(Window!vars) OBVIOUS
  <2>1. TypeOK' BY DEF WindowInv
  <2>2. CASE \E r \in Rank : Step(r) BY <2>1, <2>2, MappedStep
  <2>3. CASE Rest
    <3>1. UNCHANGED <<kind, verdict, pc, mem, saved, issued>>
      BY <2>3 DEF Rest, metaVars, memVars, appVars
    <3>2. States' = States /\ Contents' = Contents
      BY <3>1 DEF States, Contents, WState, WContent, NoVerdict, SetAside
    <3> QED BY <3>1, <3>2 DEF States, Contents, WState, WContent, Window!vars
  <2> QED BY <2>2, <2>3, StepOrRest
<1> QED BY <1>1, <1>2, WindowInvariant, PTL DEF Spec, PeerWindowSpec, Window!Spec
=============================================================================

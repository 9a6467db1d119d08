--------------------------- MODULE TransposeProof ---------------------------
(***************************************************************************)
(* The safety of the transpose, for any number of ranks and iterations,    *)
(* all transports and any set of pairs that reach each other's window.     *)
(***************************************************************************)
EXTENDS TransposeInv, TLAPS, SequenceTheorems

ModeNames == {"direct", "single", "buffered", "gpumpi", "staged"}
Place == [iter : -1 .. Total, phase : 0 .. P, step : 1 .. 12]
PhaseLen ==
  CASE mode = "direct" -> 10 [] mode = "single" -> 5 [] mode = "buffered" -> 11
    [] mode = "gpumpi" -> 6 [] mode = "staged" -> 8
SyncSteps ==
  CASE mode = "direct" -> {1, 5, 9} [] mode = "single" -> {1, 4} [] mode = "buffered" -> {2, 5, 10}
    [] mode \in {"gpumpi", "staged"} -> {2}
BarrierSteps ==
  CASE mode = "direct" -> {2, 10} [] mode = "single" -> {2, 5} [] mode = "buffered" -> {8, 11}
    [] mode \in {"gpumpi", "staged"} -> {}

\* A host in the iterations, and the step it stands at.
Iterating(p) == p.iter \in 0 .. Total - 1
InPhases(p) == Iterating(p) /\ p.phase \in 1 .. LastPhase
What(p) == Steps(p)[p.step]

-----------------------------------------------------------------------------
(* Arithmetic.                                                             *)

LEMMA Constants ==
  /\ P \in Nat /\ P >= 2 /\ Total \in Nat /\ Total >= 1 /\ Warmup \in Nat
  /\ Modes \subseteq ModeNames
BY TransposeAssumption DEF ModeNames

\* In one phase of an iteration each rank meets one sender and one receiver.
LEMMA MeetingPhase ==
  ASSUME NEW r \in Rank, NEW q \in Rank, q # r
  PROVE  /\ Meeting(r, q) \in 1 .. P - 1
         /\ \A k \in 1 .. P - 1 : (r - k + P) % P = q <=> k = Meeting(r, q)
         /\ \A k \in 1 .. P - 1 : (q + k) % P = r <=> k = Meeting(r, q)
<1>1. ASSUME NEW n \in 0 .. P - 1 PROVE n % P = n BY Constants
<1>2. ASSUME NEW n \in P .. 2 * P - 1 PROVE n % P = n - P BY Constants
<1> QED BY Constants, <1>1, <1>2 DEF Rank, Meeting

LEMMA RingRanks ==
  ASSUME NEW r \in Rank, NEW k \in 1 .. P - 1
  PROVE  /\ (r - k + P) % P \in Rank /\ (r - k + P) % P # r
         /\ (r + k) % P \in Rank /\ (r + k) % P # r
<1>1. ASSUME NEW n \in 0 .. P - 1 PROVE n % P = n BY Constants
<1>2. ASSUME NEW n \in P .. 2 * P - 1 PROVE n % P = n - P BY Constants
<1> QED BY Constants, <1>1, <1>2 DEF Rank

-----------------------------------------------------------------------------
(* The steps of a phase.                                                   *)

LEMMA DirectSteps ==
  LET s == PhaseSteps["direct"] IN
  /\ Len(s) = 10
  /\ s[1] = "sync" /\ s[2] = "barrier" /\ s[3] = "post" /\ s[4] = "write" /\ s[5] = "sync"
  /\ s[6] = "isend" /\ s[7] = "waitall" /\ s[8] = "unpackFallback" /\ s[9] = "sync"
  /\ s[10] = "barrier"
BY DEF PhaseSteps

LEMMA SingleSteps ==
  LET s == PhaseSteps["single"] IN
  /\ Len(s) = 5
  /\ s[1] = "sync" /\ s[2] = "barrier" /\ s[3] = "writeAll" /\ s[4] = "sync" /\ s[5] = "barrier"
BY DEF PhaseSteps

LEMMA BufferedSteps ==
  LET s == PhaseSteps["buffered"] IN
  /\ Len(s) = 11
  /\ s[1] = "pack" /\ s[2] = "sync" /\ s[3] = "post" /\ s[4] = "copy" /\ s[5] = "sync"
  /\ s[6] = "isend" /\ s[7] = "waitall" /\ s[8] = "barrier" /\ s[9] = "unpack" /\ s[10] = "sync"
  /\ s[11] = "barrier"
BY DEF PhaseSteps

LEMMA GpumpiSteps ==
  LET s == PhaseSteps["gpumpi"] IN
  /\ Len(s) = 6
  /\ s[1] = "pack" /\ s[2] = "sync" /\ s[3] = "post" /\ s[4] = "isend" /\ s[5] = "waitall"
  /\ s[6] = "unpack"
BY DEF PhaseSteps

LEMMA StagedSteps ==
  LET s == PhaseSteps["staged"] IN
  /\ Len(s) = 8
  /\ s[1] = "pack" /\ s[2] = "sync" /\ s[3] = "d2h" /\ s[4] = "post" /\ s[5] = "isend"
  /\ s[6] = "waitall" /\ s[7] = "h2d" /\ s[8] = "unpack"
BY DEF PhaseSteps

LEMMA PhaseLength ==
  ASSUME mode \in ModeNames PROVE Len(PhaseSteps[mode]) = PhaseLen /\ PhaseLen \in 5 .. 11
<1>1. CASE mode = "direct" BY <1>1, DirectSteps DEF PhaseLen
<1>2. CASE mode = "single" BY <1>2, SingleSteps DEF PhaseLen
<1>3. CASE mode = "buffered" BY <1>3, BufferedSteps DEF PhaseLen
<1>4. CASE mode = "gpumpi" BY <1>4, GpumpiSteps DEF PhaseLen
<1>5. CASE mode = "staged" BY <1>5, StagedSteps DEF PhaseLen
<1> QED BY <1>1, <1>2, <1>3, <1>4, <1>5 DEF ModeNames

LEMMA Phases == ASSUME mode \in ModeNames PROVE LastPhase \in 1 .. P - 1
BY Constants DEF LastPhase

\* The kinds of positions, with what is done there.
LEMMA Sections ==
  ASSUME mode \in ModeNames, NEW p \in Place, Position(p)
  PROVE  \/ /\ p.iter = -1 /\ p.phase = 0
            /\ \/ p.step = 1 /\ What(p) = "init"
               \/ p.step = 2 /\ What(p) = "sync"
               \/ p.step = 3 /\ What(p) = "barrier"
            /\ Len(Steps(p)) = 3
         \/ /\ p.iter = Total /\ p.phase = 0
            /\ \/ p.step = 1 /\ What(p) = "sync" /\ p # Done
               \/ p.step = 2 /\ What(p) = "barrier" /\ p # Done
               \/ p.step = 3 /\ What(p) = "verify" /\ p # Done
               \/ p = Done /\ p.step = 4
            /\ Len(Steps(p)) = 3
         \/ /\ Iterating(p) /\ p.phase = 0
            /\ \/ p.iter = Warmup /\ p.step = 1 /\ What(p) = "sync" /\ Len(Steps(p)) = 3
               \/ p.iter = Warmup /\ p.step = 2 /\ What(p) = "barrier" /\ Len(Steps(p)) = 3
               \/ p.iter = Warmup /\ p.step = 3 /\ What(p) = "local" /\ Len(Steps(p)) = 3
               \/ p.iter # Warmup /\ p.step = 1 /\ What(p) = "local" /\ Len(Steps(p)) = 1
         \/ /\ Iterating(p) /\ p.phase \in 1 .. LastPhase /\ p.step \in 1 .. PhaseLen
            /\ Steps(p) = PhaseSteps[mode] /\ Len(Steps(p)) = PhaseLen
         \/ /\ Iterating(p) /\ p.phase = LastPhase + 1 /\ p.step = 1 /\ What(p) = "sync"
            /\ Len(Steps(p)) = 1
<1> USE Constants, Phases
<1>1. CASE p.iter = -1
  <2>1. Steps(p) = <<"init", "sync", "barrier">> BY <1>1 DEF Steps
  <2>2. p.phase = 0 /\ p # Done BY <1>1 DEF Position, LastSection, Done
  <2>3. p.step \in 1 .. 3 BY <2>1, <2>2 DEF Position
  <2> QED BY <1>1, <2>1, <2>2, <2>3 DEF What
<1>2. CASE p.iter = Total
  <2>1. Steps(p) = <<"sync", "barrier", "verify">> BY <1>2 DEF Steps
  <2>2. p.phase = 0 BY <1>2 DEF Position, LastSection
  <2>3. p.step \in 1 .. 3 \/ p = Done BY <2>1 DEF Position
  <2>4. CASE p = Done BY <1>2, <2>1, <2>2, <2>4 DEF Done
  <2>5. CASE p.step \in 1 .. 3 BY <1>2, <2>1, <2>2, <2>5 DEF What, Done
  <2> QED BY <2>3, <2>4, <2>5
<1>3. CASE Iterating(p)
  <2>1. p # Done /\ p.phase \in 0 .. LastPhase + 1 /\ p.iter # -1 /\ p.iter # Total
    BY <1>3 DEF Position, LastSection, Done, Iterating
  <2>2. p.step \in 1 .. Len(Steps(p)) BY <2>1 DEF Position
  <2>3. CASE p.phase = 0 /\ p.iter = Warmup
    <3>1. Steps(p) = <<"sync", "barrier", "local">> BY <2>1, <2>3 DEF Steps
    <3>2. Len(Steps(p)) = 3 /\ p.step \in {1, 2, 3} BY <2>2, <3>1
    <3>3. /\ p.step = 1 => What(p) = "sync"
          /\ p.step = 2 => What(p) = "barrier"
          /\ p.step = 3 => What(p) = "local"
      BY <3>1 DEF What
    <3> QED BY <1>3, <2>3, <3>2, <3>3
  <2>4. CASE p.phase = 0 /\ p.iter # Warmup
    <3>1. Steps(p) = <<"local">> BY <2>1, <2>4 DEF Steps
    <3> QED BY <1>3, <2>2, <2>4, <3>1 DEF What
  <2>5. CASE p.phase = LastPhase + 1
    <3>1. Steps(p) = <<"sync">> BY <2>1, <2>5 DEF Steps
    <3> QED BY <1>3, <2>2, <2>5, <3>1 DEF What
  <2>6. CASE p.phase \in 1 .. LastPhase
    <3>1. Steps(p) = PhaseSteps[mode] BY <2>1, <2>6 DEF Steps
    <3> QED BY <1>3, <2>2, <2>6, <3>1, PhaseLength
  <2> QED BY <2>1, <2>3, <2>4, <2>5, <2>6
<1> QED BY <1>1, <1>2, <1>3 DEF Place, Iterating


\* Where a host is when it does something in a phase.
PlaceOf(what, p) ==
  /\ what \notin {"init", "local", "verify"}
  /\ what = "sync" => p.step \in SyncSteps
  /\ what = "barrier" => p.step \in BarrierSteps
  /\ what = "write" => mode = "direct" /\ p.step = PackStep
  /\ what = "writeAll" => mode = "single" /\ p.step = PackStep
  /\ what = "pack" => mode \in {"buffered", "gpumpi", "staged"} /\ p.step = PackStep
  /\ what = "d2h" => mode = "staged" /\ p.step = 3
  /\ what = "post" => mode # "single" /\ p.step = PostStep
  /\ what = "copy" => mode = "buffered" /\ p.step = 4
  /\ what = "isend" => mode # "single" /\ p.step = SendStep
  /\ what = "waitall" => mode # "single" /\ p.step = WaitStep
  /\ what = "h2d" => mode = "staged" /\ p.step = 7
  /\ what = "unpackFallback" => mode = "direct" /\ p.step = UnpackStep
  /\ what = "unpack" => mode \in {"buffered", "gpumpi", "staged"} /\ p.step = UnpackStep

LEMMA InAPhase ==
  ASSUME mode \in ModeNames, NEW p, InPhases(p), p.step \in 1 .. PhaseLen,
         Steps(p) = PhaseSteps[mode]
  PROVE  /\ PlaceOf(What(p), p)
         /\ p.step \in BarrierSteps => What(p) = "barrier"
         /\ p.step \in SyncSteps => What(p) = "sync"
         /\ mode \in {"buffered", "gpumpi", "staged"} /\ p.step = 1 => What(p) = "pack"
<1>1. CASE mode = "direct"
  BY <1>1, DirectSteps DEF What, PlaceOf, PhaseLen, SyncSteps, BarrierSteps, PackStep, PostStep,
     SendStep, WaitStep, UnpackStep
<1>2. CASE mode = "single"
  BY <1>2, SingleSteps DEF What, PlaceOf, PhaseLen, SyncSteps, BarrierSteps, PackStep, PostStep,
     SendStep, WaitStep, UnpackStep
<1>3. CASE mode = "buffered"
  BY <1>3, BufferedSteps DEF What, PlaceOf, PhaseLen, SyncSteps, BarrierSteps, PackStep, PostStep,
     SendStep, WaitStep, UnpackStep
<1>4. CASE mode = "gpumpi"
  BY <1>4, GpumpiSteps DEF What, PlaceOf, PhaseLen, SyncSteps, BarrierSteps, PackStep, PostStep,
     SendStep, WaitStep, UnpackStep
<1>5. CASE mode = "staged"
  BY <1>5, StagedSteps DEF What, PlaceOf, PhaseLen, SyncSteps, BarrierSteps, PackStep, PostStep,
     SendStep, WaitStep, UnpackStep
<1> QED BY <1>1, <1>2, <1>3, <1>4, <1>5 DEF ModeNames

\* Where a host is when it does something at all.
LEMMA Where ==
  ASSUME mode \in ModeNames, NEW p \in Place, Position(p), p # Done
  PROVE  \/ p.iter = -1 /\ p.phase = 0 /\ p.step = 1 /\ What(p) = "init"
         \/ p.iter = -1 /\ p.phase = 0 /\ p.step = 2 /\ What(p) = "sync"
         \/ p.iter = -1 /\ p.phase = 0 /\ p.step = 3 /\ What(p) = "barrier"
         \/ p.iter = Total /\ p.phase = 0 /\ p.step = 1 /\ What(p) = "sync"
         \/ p.iter = Total /\ p.phase = 0 /\ p.step = 2 /\ What(p) = "barrier"
         \/ p.iter = Total /\ p.phase = 0 /\ p.step = 3 /\ What(p) = "verify"
         \/ Iterating(p) /\ p.phase = 0 /\ p.step = 1 /\ What(p) = "sync"
         \/ Iterating(p) /\ p.phase = 0 /\ p.step = 2 /\ What(p) = "barrier"
         \/ Iterating(p) /\ p.phase = 0 /\ p.step \in {1, 3} /\ What(p) = "local"
         \/ InPhases(p) /\ p.step \in 1 .. PhaseLen /\ PlaceOf(What(p), p)
         \/ Iterating(p) /\ p.phase = LastPhase + 1 /\ p.step = 1 /\ What(p) = "sync"
<1>1. InPhases(p) /\ p.step \in 1 .. PhaseLen /\ Steps(p) = PhaseSteps[mode]
        => PlaceOf(What(p), p)
  BY InAPhase
<1> QED BY <1>1, Sections DEF InPhases

LEMMA BarrierPlaces ==
  ASSUME mode \in ModeNames, NEW p \in Place, Position(p), p # Done
  PROVE  /\ p.iter = -1 /\ p.step = 3 => BarrierAt(p)
         /\ p.iter = Total /\ p.step = 2 => BarrierAt(p)
         /\ InPhases(p) /\ p.step \in BarrierSteps => BarrierAt(p)
<1>1. BarrierAt(p) <=> What(p) = "barrier" BY DEF BarrierAt, What
<1>2. CASE InPhases(p)
  <2>1. p.step \in 1 .. PhaseLen /\ Steps(p) = PhaseSteps[mode]
    BY <1>2, Sections, Constants, Phases DEF InPhases, Iterating
  <2> QED BY <1>1, <1>2, <2>1, InAPhase, Constants DEF InPhases, Iterating
<1> QED BY <1>1, <1>2, Where, Constants DEF InPhases, Iterating

-----------------------------------------------------------------------------
(* The order of the positions.                                             *)

LEMMA SectionLength ==
  ASSUME mode \in ModeNames, NEW p
  PROVE  Len(Steps(p)) \in 1 .. 11
<1>1. \/ Steps(p) = <<"init", "sync", "barrier">> \/ Steps(p) = <<"sync", "barrier", "verify">>
      \/ Steps(p) = <<"sync", "barrier", "local">> \/ Steps(p) = <<"local">> \/ Steps(p) = <<"sync">>
      \/ Steps(p) = PhaseSteps[mode]
  BY DEF Steps
<1>2. CASE Steps(p) = PhaseSteps[mode]
  <2>1. Len(Steps(p)) = PhaseLen /\ PhaseLen \in 5 .. 11 BY <1>2, PhaseLength
  <2> QED BY <2>1
<1> QED BY <1>1, <1>2

LEMMA LocalSection ==
  ASSUME mode \in ModeNames, NEW p \in Place, Position(p), Iterating(p), p.phase = 0
  PROVE  \/ p.step = Len(Steps(p)) /\ What(p) = "local"
         \/ Len(Steps(p)) = 3 /\ p.step \in {1, 2} /\ What(p) # "local"
<1> USE Constants
<1>1. p.iter # -1 /\ p.iter # Total /\ p # Done BY DEF Iterating, Done
<1>2. p.step \in 1 .. Len(Steps(p)) BY <1>1 DEF Position
<1>3. CASE p.iter = Warmup
  <2>1. Steps(p) = <<"sync", "barrier", "local">> BY <1>1, <1>3 DEF Steps
  <2>2. Len(Steps(p)) = 3 /\ p.step \in {1, 2, 3} BY <1>2, <2>1
  <2>3. /\ p.step = 1 => What(p) = "sync"
        /\ p.step = 2 => What(p) = "barrier"
        /\ p.step = 3 => What(p) = "local"
    BY <2>1 DEF What
  <2> QED BY <2>2, <2>3
<1>4. CASE p.iter # Warmup
  <2>1. Steps(p) = <<"local">> BY <1>1, <1>4 DEF Steps
  <2>2. Len(Steps(p)) = 1 /\ p.step = 1 BY <1>2, <2>1
  <2> QED BY <2>1, <2>2 DEF What
<1> QED BY <1>3, <1>4

LEMMA SameSection ==
  ASSUME NEW p, NEW o, o.iter = p.iter, o.phase = p.phase
  PROVE  Steps(o) = Steps(p)
BY DEF Steps

\* One step of a host.
LEMMA HostStep ==
  ASSUME mode \in ModeNames, NEW p \in Place, Position(p), p # Done
  PROVE  LET o == Following(p) IN
         /\ o \in Place /\ Position(o)
         /\ \/ p.iter = -1 /\ p.step < 3 /\ o = [iter |-> -1, phase |-> 0, step |-> p.step + 1]
            \/ p.iter = -1 /\ p.step = 3 /\ o = [iter |-> 0, phase |-> 0, step |-> 1]
            \/ p.iter = Total /\ p.step < 4 /\ o = [iter |-> Total, phase |-> 0, step |-> p.step + 1]
            \/ /\ Iterating(p) /\ p.phase = 0 /\ What(p) # "local" /\ p.step \in {1, 2}
               /\ o = [iter |-> p.iter, phase |-> 0, step |-> p.step + 1]
            \/ /\ Iterating(p) /\ p.phase = 0 /\ What(p) = "local"
               /\ o = [iter |-> p.iter, phase |-> 1, step |-> 1]
            \/ /\ InPhases(p) /\ p.step < PhaseLen
               /\ o = [iter |-> p.iter, phase |-> p.phase, step |-> p.step + 1]
            \/ /\ InPhases(p) /\ p.step = PhaseLen
               /\ o = [iter |-> p.iter, phase |-> p.phase + 1, step |-> 1]
            \/ /\ Iterating(p) /\ p.phase = LastPhase + 1
               /\ o = [iter |-> p.iter + 1, phase |-> 0, step |-> 1]
<1> USE Constants, Phases, PhaseLength DEF Place
<1> DEFINE o == Following(p)  n == Len(Steps(p))
<1> HIDE DEF n
<1>0. n \in 1 .. 11 BY SectionLength DEF n
<1>a. ASSUME p.step < n \/ p.iter = Total
      PROVE  o = [iter |-> p.iter, phase |-> p.phase, step |-> p.step + 1]
  BY <1>a DEF Following, n
<1>b. ASSUME ~(p.step < n \/ p.iter = Total), p.phase < LastSection(p.iter)
      PROVE  o = [iter |-> p.iter, phase |-> p.phase + 1, step |-> 1]
  BY <1>b DEF Following, n
<1>c. ASSUME ~(p.step < n \/ p.iter = Total), ~(p.phase < LastSection(p.iter))
      PROVE  o = [iter |-> p.iter + 1, phase |-> 0, step |-> 1]
  BY <1>c DEF Following, n
<1>d. ASSUME p.step < n, o = [iter |-> p.iter, phase |-> p.phase, step |-> p.step + 1],
             p.phase \in 0 .. LastSection(p.iter)
      PROVE  Position(o)
  <2>1. Len(Steps(o)) = n BY <1>d, SameSection DEF n
  <2> QED BY <1>0, <1>d, <2>1 DEF Position
<1>e. ASSUME NEW q \in Place, q.phase \in 0 .. LastSection(q.iter), q.step = 1 PROVE Position(q)
  <2>1. Len(Steps(q)) \in 1 .. 11 BY SectionLength
  <2>a. ASSUME NEW m \in 1 .. 11 PROVE 1 \in 1 .. m OBVIOUS
  <2>2. q.step \in 1 .. Len(Steps(q)) BY <1>e, <2>1, <2>a
  <2>3. q.iter \in -1 .. Total OBVIOUS
  <2> QED BY <1>e, <2>2, <2>3 DEF Position
<1>f. p.phase \in 0 .. LastSection(p.iter) BY DEF Position
<1> HIDE DEF o
<1>1. CASE p.iter = -1 /\ p.step < 3
  <2>1. p.phase = 0 /\ n = 3 /\ p.step \in {1, 2} BY <1>1, Sections DEF Iterating, n
  <2>2. o = [iter |-> -1, phase |-> 0, step |-> p.step + 1] BY <1>1, <1>a, <2>1
  <2>3. Position(o) BY <1>1, <1>d, <1>f, <2>1, <2>2
  <2> QED BY <1>1, <2>1, <2>2, <2>3 DEF o
<1>2. CASE p.iter = -1 /\ p.step >= 3
  <2>1. p.phase = 0 /\ n = 3 /\ p.step = 3 BY <1>2, Sections DEF Iterating, n
  <2>2. o = [iter |-> 0, phase |-> 0, step |-> 1] BY <1>2, <2>1, <1>c DEF LastSection
  <2>3. Position(o) BY <2>2, <1>e DEF LastSection
  <2> QED BY <1>2, <2>1, <2>2, <2>3 DEF o
<1>3. CASE p.iter = Total
  <2>1. p.phase = 0 /\ n = 3 /\ p.step \in {1, 2, 3} BY <1>3, Sections DEF Iterating, n
  <2>2. o = [iter |-> Total, phase |-> 0, step |-> p.step + 1] BY <1>3, <2>1, <1>a
  <2>3. CASE p.step = 3
    <3>1. o = Done BY <2>2, <2>3 DEF Done
    <3> QED BY <1>3, <2>1, <2>2, <2>3, <3>1 DEF Position, LastSection, o
  <2>4. CASE p.step \in {1, 2}
    <3>1. Position(o) BY <1>3, <1>d, <1>f, <2>1, <2>2, <2>4
    <3> QED BY <1>3, <2>1, <2>2, <2>4, <3>1 DEF o
  <2> QED BY <2>1, <2>3, <2>4
<1>4. CASE Iterating(p) /\ p.phase = 0 /\ p.step < n
  <2>1. n = 3 /\ What(p) # "local" /\ p.step \in {1, 2} BY <1>0, <1>4, LocalSection DEF n
  <2>2. o = [iter |-> p.iter, phase |-> 0, step |-> p.step + 1] BY <1>4, <2>1, <1>a
  <2>3. Position(o) BY <1>4, <1>d, <1>f, <2>1, <2>2
  <2> QED BY <1>4, <2>1, <2>2, <2>3 DEF Iterating, o
<1>5. CASE Iterating(p) /\ p.phase = 0 /\ ~(p.step < n)
  <2>1. What(p) = "local"
    <3>1. CASE n = 3 /\ p.step \in {1, 2} BY <1>5, <3>1
    <3>2. What(p) = "local" \/ (n = 3 /\ p.step \in {1, 2}) BY <1>5, LocalSection DEF n
    <3> QED BY <3>1, <3>2
  <2>2. o = [iter |-> p.iter, phase |-> 1, step |-> 1] BY <1>5, <1>b DEF LastSection, Iterating
  <2>3. Position(o) BY <1>5, <2>2, <1>e DEF LastSection, Iterating
  <2> QED BY <1>5, <2>1, <2>2, <2>3 DEF Iterating, o
<1>6. CASE InPhases(p) /\ p.step < PhaseLen
  <2>1. n = PhaseLen BY <1>6, Sections DEF Iterating, InPhases, n
  <2>2. o = [iter |-> p.iter, phase |-> p.phase, step |-> p.step + 1] BY <1>6, <2>1, <1>a
  <2>3. Position(o) BY <1>6, <1>d, <1>f, <2>1, <2>2
  <2>4. p.step + 1 \in 1 .. 12
    <3>1. PhaseLen \in 1 .. 11 /\ p.step \in 1 .. 12 OBVIOUS
    <3> QED BY <1>6, <3>1
  <2>5. o \in Place BY <2>2, <2>4
  <2> QED BY <1>6, <2>2, <2>3, <2>5 DEF o
<1>7. CASE InPhases(p) /\ ~(p.step < PhaseLen)
  <2>1. n = PhaseLen /\ p.step = PhaseLen BY <1>7, Sections DEF Iterating, InPhases, n
  <2>2. o = [iter |-> p.iter, phase |-> p.phase + 1, step |-> 1]
    BY <1>7, <2>1, <1>b DEF InPhases, Iterating, LastSection
  <2>3. o \in Place BY <1>7, <2>2 DEF InPhases, Iterating
  <2>4. Position(o) BY <1>7, <2>2, <2>3, <1>e DEF InPhases, Iterating, LastSection
  <2> QED BY <1>7, <2>1, <2>2, <2>3, <2>4 DEF o
<1>8. CASE Iterating(p) /\ p.phase = LastPhase + 1
  <2>1. n = 1 /\ p.step = 1 BY <1>8, Sections DEF Iterating, n
  <2>2. o = [iter |-> p.iter + 1, phase |-> 0, step |-> 1]
    BY <1>8, <2>1, <1>c DEF Iterating, LastSection
  <2>3. o \in Place BY <1>8, <2>2 DEF Iterating
  <2>4. Position(o) BY <1>8, <2>2, <2>3, <1>e DEF LastSection
  <2> QED BY <1>8, <2>1, <2>2, <2>3, <2>4 DEF o
<1>9. p.iter = -1 \/ p.iter = Total \/ (Iterating(p) /\ (p.phase = 0 \/ p.phase = LastPhase + 1))
      \/ InPhases(p)
  BY Sections DEF InPhases
<1> QED BY <1>1, <1>2, <1>3, <1>4, <1>5, <1>6, <1>7, <1>8, <1>9

LEMMA AtLeastOrder ==
  ASSUME NEW p \in Place, NEW o \in Place, NEW q \in Place
  PROVE  /\ AtLeast(p, p)
         /\ AtLeast(p, o) /\ AtLeast(o, q) => AtLeast(p, q)
         /\ AtLeast(p, o) \/ AtLeast(o, p)
         /\ AtLeast(p, o) /\ AtLeast(o, p) => p = o
BY Constants DEF AtLeast, Place

\* There is nothing between a position and the following one.
LEMMA Successor ==
  ASSUME mode \in ModeNames, NEW p \in Place, Position(p), p # Done,
         NEW b \in Place, Position(b)
  PROVE  /\ AtLeast(Following(p), p)
         /\ AtLeast(Following(p), b) /\ Following(p) # b => AtLeast(p, b)
<1> USE Constants DEF Place
<1> DEFINE o == Following(p)  n == Len(Steps(p))
<1> HIDE DEF n
<1>0. n \in 1 .. 11 /\ o \in Place BY SectionLength, HostStep DEF n
<1>1. b.iter = p.iter /\ b.phase = p.phase /\ p.iter # Total => b.step <= n
  <2>1. b.iter = p.iter /\ b.phase = p.phase => Len(Steps(b)) = n BY SameSection DEF n
  <2>2. b.iter # Total => b # Done BY DEF Done
  <2> QED BY <1>0, <2>1, <2>2 DEF Position
<1>2. b.iter = p.iter => b.phase <= LastSection(p.iter) /\ LastSection(p.iter) \in Nat
  BY Phases DEF Position, LastSection
<1>a. ASSUME p.step < n \/ p.iter = Total
      PROVE  o = [iter |-> p.iter, phase |-> p.phase, step |-> p.step + 1]
  BY <1>a DEF Following, n
<1>b. ASSUME ~(p.step < n \/ p.iter = Total), p.phase < LastSection(p.iter)
      PROVE  o = [iter |-> p.iter, phase |-> p.phase + 1, step |-> 1]
  BY <1>b DEF Following, n
<1>c. ASSUME ~(p.step < n \/ p.iter = Total), ~(p.phase < LastSection(p.iter))
      PROVE  o = [iter |-> p.iter + 1, phase |-> 0, step |-> 1]
  BY <1>c DEF Following, n
<1> HIDE DEF o
<1>3. CASE p.step < n \/ p.iter = Total
  <2>1. o.iter = p.iter /\ o.phase = p.phase /\ o.step = p.step + 1 BY <1>3, <1>a
  <2> QED BY <1>0, <2>1 DEF AtLeast, o
<1>4. CASE ~(p.step < n \/ p.iter = Total) /\ p.phase < LastSection(p.iter)
  <2>1. o.iter = p.iter /\ o.phase = p.phase + 1 /\ o.step = 1 BY <1>4, <1>b
  <2> QED BY <1>0, <1>1, <1>4, <2>1 DEF AtLeast, o
<1>5. CASE ~(p.step < n \/ p.iter = Total) /\ ~(p.phase < LastSection(p.iter))
  <2>1. o.iter = p.iter + 1 /\ o.phase = 0 /\ o.step = 1 BY <1>5, <1>c
  <2> QED BY <1>0, <1>1, <1>2, <1>5, <2>1 DEF AtLeast, o
<1> QED BY <1>3, <1>4, <1>5

-----------------------------------------------------------------------------
(* How often a step was done.                                              *)

LEMMA TimesType ==
  ASSUME NEW p \in Place, NEW k \in Nat, NEW s \in Nat, Position(p)
  PROVE  /\ Times(p, k, s) \in 0 .. Total
         /\ p.iter = -1 => Times(p, k, s) = 0
         /\ p.iter = Total => Times(p, k, s) = Total
         /\ Iterating(p) => Times(p, k, s) \in {p.iter, p.iter + 1}
BY Constants DEF Times, One, Place, Iterating

\* A host that goes on has done the step it was at once more, and no other.
LEMMA TimesStep ==
  ASSUME mode \in ModeNames, NEW p \in Place, Position(p), p # Done,
         NEW k \in 1 .. LastPhase, NEW s \in 1 .. PhaseLen
  PROVE  Times(Following(p), k, s) =
           Times(p, k, s) + One(Iterating(p) /\ p.phase = k /\ p.step = s)
<1>0. One(p.phase > k \/ (p.phase = k /\ p.step + 1 > s)) =
        One(p.phase > k \/ (p.phase = k /\ p.step > s)) + One(p.phase = k /\ p.step = s)
  <2>1. p.phase \in Nat /\ p.step \in Nat /\ k \in Nat /\ s \in Nat
    BY Constants, Phases, PhaseLength DEF Place
  <2> DEFINE a == p.phase  b == p.step
  <2>2. a \in Nat /\ b \in Nat BY <2>1
  <2> HIDE DEF a, b
  <2>3. One(a > k \/ (a = k /\ b + 1 > s)) = One(a > k \/ (a = k /\ b > s)) + One(a = k /\ b = s)
    BY <2>1, <2>2 DEF One
  <2> QED BY <2>3 DEF a, b
<1> USE Constants, Phases, PhaseLength
<1> DEFINE o == Following(p)
<1> HIDE DEF o
<1>1. \/ p.iter = -1 /\ o.iter = -1
      \/ p.iter = -1 /\ o.iter = 0 /\ o.phase = 0
      \/ p.iter = Total /\ o.iter = Total
      \/ Iterating(p) /\ p.phase = 0 /\ o.iter = p.iter /\ o.phase = 0
      \/ Iterating(p) /\ p.phase = 0 /\ o.iter = p.iter /\ o.phase = 1 /\ o.step = 1
      \/ InPhases(p) /\ p.step < PhaseLen /\ o.iter = p.iter /\ o.phase = p.phase /\ o.step = p.step + 1
      \/ InPhases(p) /\ p.step = PhaseLen /\ o.iter = p.iter /\ o.phase = p.phase + 1 /\ o.step = 1
      \/ Iterating(p) /\ p.phase = LastPhase + 1 /\ o.iter = p.iter + 1 /\ o.phase = 0
  BY HostStep DEF o
<1> DEFINE G == Times(o, k, s) = Times(p, k, s) + One(Iterating(p) /\ p.phase = k /\ p.step = s)
<1> USE DEF Iterating, InPhases, Place
<1>2. G
  <2>1. CASE p.iter = -1 /\ o.iter = -1 BY <2>1 DEF Times, One
  <2>2. CASE p.iter = -1 /\ o.iter = 0 /\ o.phase = 0 BY <2>2 DEF Times, One
  <2>3. CASE p.iter = Total /\ o.iter = Total BY <2>3 DEF Times, One
  <2>4. CASE Iterating(p) /\ p.phase = 0 /\ o.iter = p.iter /\ o.phase = 0 BY <2>4 DEF Times, One
  <2>5. CASE Iterating(p) /\ p.phase = 0 /\ o.iter = p.iter /\ o.phase = 1 /\ o.step = 1
    BY <2>5 DEF Times, One
  <2>6. CASE InPhases(p) /\ p.step < PhaseLen /\ o.iter = p.iter /\ o.phase = p.phase
               /\ o.step = p.step + 1
    <3>1. /\ Times(p, k, s) = p.iter + One(p.phase > k \/ (p.phase = k /\ p.step > s))
          /\ Times(o, k, s) = p.iter + One(p.phase > k \/ (p.phase = k /\ p.step + 1 > s))
      BY <2>6 DEF Times
    <3>2. One(p.phase > k \/ (p.phase = k /\ p.step + 1 > s)) =
            One(p.phase > k \/ (p.phase = k /\ p.step > s)) + One(p.phase = k /\ p.step = s)
      BY <1>0
    <3>3. One(p.phase = k /\ p.step = s) = One(Iterating(p) /\ p.phase = k /\ p.step = s)
      BY <2>6 DEF One
    <3>4. /\ p.iter \in Int /\ One(p.phase = k /\ p.step = s) \in Int
          /\ One(p.phase > k \/ (p.phase = k /\ p.step > s)) \in Int
      BY DEF One, Place
    <3> QED BY <3>1, <3>2, <3>3, <3>4
  <2>7. CASE InPhases(p) /\ p.step = PhaseLen /\ o.iter = p.iter /\ o.phase = p.phase + 1
               /\ o.step = 1
    BY <2>7 DEF Times, One
  <2>8. CASE Iterating(p) /\ p.phase = LastPhase + 1 /\ o.iter = p.iter + 1 /\ o.phase = 0
    BY <2>8 DEF Times, One
  <2> QED BY <1>1, <2>1, <2>2, <2>3, <2>4, <2>5, <2>6, <2>7, <2>8
<1> QED BY <1>2 DEF o

LEMMA TimesLocal ==
  ASSUME mode \in ModeNames, NEW p \in Place, Position(p), p # Done
  PROVE  Times(Following(p), 0, 3) = Times(p, 0, 3) + One(What(p) = "local")
<1> USE Constants, Phases, PhaseLength
<1> DEFINE o == Following(p)
<1> HIDE DEF o
<1>1. \/ p.iter = -1 /\ o.iter = -1
      \/ p.iter = -1 /\ o.iter = 0 /\ o.phase = 0 /\ o.step = 1
      \/ p.iter = Total /\ o.iter = Total
      \/ Iterating(p) /\ p.phase = 0 /\ o.iter = p.iter /\ o.phase = 0 /\ p.step \in {1, 2}
         /\ o.step = p.step + 1 /\ What(p) # "local"
      \/ Iterating(p) /\ p.phase = 0 /\ o.iter = p.iter /\ o.phase = 1 /\ What(p) = "local"
      \/ InPhases(p) /\ o.iter = p.iter /\ o.phase \in {p.phase, p.phase + 1}
      \/ Iterating(p) /\ p.phase = LastPhase + 1 /\ o.iter = p.iter + 1 /\ o.phase = 0 /\ o.step = 1
  BY HostStep DEF o
<1>2. What(p) = "local" => Iterating(p) /\ p.phase = 0 /\ p.step <= 3
  BY Where DEF PlaceOf
<1> DEFINE G == Times(o, 0, 3) = Times(p, 0, 3) + One(What(p) = "local")
<1> USE DEF Times, One, Iterating, InPhases, Place
<1>3. G
  <2>1. CASE p.iter = -1 /\ o.iter = -1 BY <1>2, <2>1
  <2>2. CASE p.iter = -1 /\ o.iter = 0 /\ o.phase = 0 /\ o.step = 1 BY <1>2, <2>2
  <2>3. CASE p.iter = Total /\ o.iter = Total BY <1>2, <2>3
  <2>4. CASE Iterating(p) /\ p.phase = 0 /\ o.iter = p.iter /\ o.phase = 0 /\ p.step \in {1, 2}
               /\ o.step = p.step + 1 /\ What(p) # "local"
    BY <2>4
  <2>5. CASE Iterating(p) /\ p.phase = 0 /\ o.iter = p.iter /\ o.phase = 1 /\ What(p) = "local"
    <3>1. Times(o, 0, 3) = p.iter + 1 BY <2>5
    <3>2. Times(p, 0, 3) = p.iter + 0 BY <1>2, <2>5
    <3> QED BY <2>5, <3>1, <3>2
  <2>6. CASE InPhases(p) /\ o.iter = p.iter /\ o.phase \in {p.phase, p.phase + 1} BY <1>2, <2>6
  <2>7. CASE Iterating(p) /\ p.phase = LastPhase + 1 /\ o.iter = p.iter + 1 /\ o.phase = 0
               /\ o.step = 1
    BY <1>2, <2>7
  <2> QED BY <1>1, <2>1, <2>2, <2>3, <2>4, <2>5, <2>6, <2>7
<1> QED BY <1>3 DEF o

-----------------------------------------------------------------------------
(* Streams.                                                                *)

\* No operation is in the stream twice.
Once(r) ==
  \A i, j \in 1 .. Len(stream[r]) : stream[r][i] = stream[r][j] => i = j
Queues == stream \in [Rank -> Seq(Op)]

LEMMA StreamsByOp ==
  Streams <=> \A r \in Rank : Once(r) /\ \A op : InStream(r, op) => MayRun(r, op)
BY Zenon DEF Streams, Once, InStream

LEMMA Enqueue ==
  ASSUME Queues, NEW r \in Rank, NEW s \in Seq(Op), stream' = [stream EXCEPT ![r] = @ \o s]
  PROVE  /\ Queues'
         /\ \A q \in Rank : q # r => stream'[q] = stream[q]
         /\ \A op : InStream(r, op)' <=> InStream(r, op) \/ \E i \in 1 .. Len(s) : s[i] = op
         /\ Once(r) /\ (\A i, j \in 1 .. Len(s) : s[i] = s[j] => i = j)
              /\ (\A i \in 1 .. Len(s) : ~InStream(r, s[i])) => Once(r)'
<1> DEFINE t == stream[r]  u == stream'[r]
<1>1. t \in Seq(Op) /\ u = t \o s BY DEF Queues
<1>2. u \in Seq(Op) BY <1>1
<1>3. Len(t) \in Nat /\ Len(s) \in Nat /\ Len(u) = Len(t) + Len(s) BY <1>1
<1>4. \A i \in 1 .. Len(t) : u[i] = t[i] BY <1>1
<1>5. \A i \in 1 .. Len(s) : u[Len(t) + i] = s[i] BY <1>1
<1>6. \A i \in 1 .. Len(u) : i \in 1 .. Len(t) \/ \E j \in 1 .. Len(s) : i = Len(t) + j
  <2>1. TAKE i \in 1 .. Len(u)
  <2>2. i <= Len(t) \/ (i - Len(t) \in 1 .. Len(s) /\ i = Len(t) + (i - Len(t))) BY <1>3
  <2> QED BY <1>3, <2>2
<1>7. Queues' BY <1>2 DEF Queues
<1>8. ASSUME NEW op PROVE InStream(r, op)' <=> InStream(r, op) \/ \E i \in 1 .. Len(s) : s[i] = op
  <2> HIDE DEF t, u
  <2>1. ASSUME NEW i \in 1 .. Len(t), t[i] = op PROVE \E j \in 1 .. Len(u) : u[j] = op
    BY <1>3, <1>4, <2>1
  <2>2. ASSUME NEW i \in 1 .. Len(s), s[i] = op PROVE \E j \in 1 .. Len(u) : u[j] = op
    BY <1>3, <1>5, <2>2
  <2>3. ASSUME NEW i \in 1 .. Len(u), u[i] = op
        PROVE  (\E j \in 1 .. Len(t) : t[j] = op) \/ \E j \in 1 .. Len(s) : s[j] = op
    BY <1>4, <1>5, <1>6, <2>3
  <2>4. (\E j \in 1 .. Len(u) : u[j] = op)
         <=> (\E j \in 1 .. Len(t) : t[j] = op) \/ \E j \in 1 .. Len(s) : s[j] = op
    BY <2>1, <2>2, <2>3
  <2> QED BY <2>4 DEF InStream, t, u
<1>9. ASSUME Once(r), \A i, j \in 1 .. Len(s) : s[i] = s[j] => i = j,
             \A i \in 1 .. Len(s) : ~InStream(r, s[i])
      PROVE  Once(r)'
  <2> HIDE DEF t, u
  <2>1. \A i \in 1 .. Len(t), j \in 1 .. Len(s) : t[i] # s[j] BY <1>9 DEF InStream, t
  <2>2. \A i, j \in 1 .. Len(t) : t[i] = t[j] => i = j BY <1>9 DEF Once, t
  <2>3. ASSUME NEW i \in 1 .. Len(u), NEW j \in 1 .. Len(u), u[i] = u[j] PROVE i = j
    <3>1. CASE i \in 1 .. Len(t) /\ j \in 1 .. Len(t) BY <1>4, <2>2, <2>3, <3>1
    <3>2. CASE \E k \in 1 .. Len(s) : i = Len(t) + k
      <4>1. PICK k \in 1 .. Len(s) : i = Len(t) + k BY <3>2
      <4>2. u[i] = s[k] BY <1>5, <4>1
      <4>3. ~(j \in 1 .. Len(t)) BY <1>4, <2>1, <2>3, <4>2
      <4>4. PICK l \in 1 .. Len(s) : j = Len(t) + l BY <1>6, <4>3
      <4>5. u[j] = s[l] BY <1>5, <4>4
      <4>6. k = l BY <1>9, <2>3, <4>2, <4>5
      <4> QED BY <4>1, <4>4, <4>6
    <3>3. CASE \E k \in 1 .. Len(s) : j = Len(t) + k
      <4>1. PICK k \in 1 .. Len(s) : j = Len(t) + k BY <3>3
      <4>2. u[j] = s[k] BY <1>5, <4>1
      <4>3. ~(i \in 1 .. Len(t)) BY <1>4, <2>1, <2>3, <4>2
      <4> QED BY <1>6, <3>2, <4>3
    <3> QED BY <1>6, <3>1, <3>2, <3>3
  <2> QED BY <2>3 DEF Once, u
<1> QED BY <1>7, <1>8, <1>9 DEF Queues

LEMMA Dequeue ==
  ASSUME Queues, NEW r \in Rank, stream[r] # <<>>, Once(r),
         stream' = [stream EXCEPT ![r] = Tail(@)]
  PROVE  /\ Queues'
         /\ \A q \in Rank : q # r => stream'[q] = stream[q]
         /\ Head(stream[r]) \in Op /\ InStream(r, Head(stream[r]))
         /\ \A op : InStream(r, op)' <=> InStream(r, op) /\ op # Head(stream[r])
         /\ Once(r)'
<1> DEFINE t == stream[r]  u == stream'[r]
<1>1. t \in Seq(Op) /\ t # <<>> /\ u = Tail(t) BY DEF Queues
<1>2. u \in Seq(Op) /\ Len(t) \in Nat \ {0} /\ Len(u) = Len(t) - 1
  <2>1. Len(t) \in Nat \ {0} BY <1>1
  <2> QED BY <1>1, <2>1, HeadTailProperties
<1>3. \A i \in 1 .. Len(u) : u[i] = t[i + 1] BY <1>1, HeadTailProperties
<1>4. Head(t) = t[1] /\ Head(t) \in Op BY <1>1
<1>5. Queues' BY <1>2 DEF Queues
<1>6. \A i, j \in 1 .. Len(t) : t[i] = t[j] => i = j BY DEF Once
<1>7. InStream(r, Head(t)) BY <1>2, <1>4 DEF InStream
<1> HIDE DEF t, u
<1>8. ASSUME NEW op PROVE InStream(r, op)' <=> InStream(r, op) /\ op # Head(t)
  <2>1. ASSUME NEW i \in 1 .. Len(u), u[i] = op
        PROVE  (\E j \in 1 .. Len(t) : t[j] = op) /\ op # Head(t)
    <3>1. i + 1 \in 1 .. Len(t) /\ 1 \in 1 .. Len(t) /\ i + 1 # 1 BY <1>2
    <3>2. t[i + 1] = op BY <1>3, <2>1
    <3> QED BY <1>4, <1>6, <3>1, <3>2
  <2>2. ASSUME NEW i \in 1 .. Len(t), t[i] = op, op # Head(t) PROVE \E j \in 1 .. Len(u) : u[j] = op
    <3>1. i # 1 BY <1>4, <2>2
    <3>2. i - 1 \in 1 .. Len(u) /\ (i - 1) + 1 = i BY <1>2, <3>1
    <3>3. u[i - 1] = op BY <1>3, <2>2, <3>2
    <3> QED BY <3>2, <3>3
  <2> QED BY <2>1, <2>2 DEF InStream, t, u
<1>9. Once(r)'
  <2>1. ASSUME NEW i \in 1 .. Len(u), NEW j \in 1 .. Len(u), u[i] = u[j] PROVE i = j
    <3>1. i + 1 \in 1 .. Len(t) /\ j + 1 \in 1 .. Len(t) BY <1>2
    <3>2. t[i + 1] = t[j + 1] BY <1>3, <2>1
    <3>3. i + 1 = j + 1 BY <1>6, <3>1, <3>2
    <3> QED BY <3>3
  <2> QED BY <2>1 DEF Once, u
<1>10. \A q \in Rank : q # r => stream'[q] = stream[q] BY DEF Queues
<1> QED BY <1>4, <1>5, <1>7, <1>8, <1>9, <1>10 DEF t

\* A stream that has run empty holds nothing.
LEMMA DrainedHoldsNothing ==
  ASSUME Queues, NEW r \in Rank
  PROVE  Drained(r) <=> \A op : ~InStream(r, op)
<1>1. stream[r] \in Seq(Op) BY DEF Queues
<1>2. CASE Drained(r)
  <2>1. Len(stream[r]) = 0 BY <1>2 DEF Drained
  <2> QED BY <1>2, <2>1 DEF InStream
<1>3. CASE ~Drained(r)
  <2>1. Len(stream[r]) \in Nat \ {0} BY <1>1, <1>3 DEF Drained
  <2>2. 1 \in 1 .. Len(stream[r]) BY <2>1
  <2>3. InStream(r, stream[r][1]) BY <2>2 DEF InStream
  <2> QED BY <1>3, <2>3
<1> QED BY <1>2, <1>3

-----------------------------------------------------------------------------
(* The positions and the barriers.                                         *)

Hosts == mode \in ModeNames /\ pos \in [Rank -> Place] /\ \A r \in Rank : Position(pos[r])

LEMMA TypesGive ==
  ASSUME Types
  PROVE  Hosts /\ Queues /\ (TwoSided => ipc = {})
         /\ (mode = "single" => \A r, q \in Rank : r # q => IpcOk(r, q))
BY Constants DEF Types, TypeOK, Hosts, Queues, Place

LEMMA DoingWhat ==
  ASSUME NEW r, NEW w PROVE Doing(r, w) <=> pos[r] # Done /\ What(pos[r]) = w
BY DEF Doing, What

\* The definitions that depend on the mode only.
LEMMA SameMode ==
  ASSUME mode' = mode
  PROVE  /\ PackStep' = PackStep /\ PostStep' = PostStep /\ SendStep' = SendStep
         /\ WaitStep' = WaitStep /\ UnpackStep' = UnpackStep /\ LastPhase' = LastPhase
         /\ TwoSided' = TwoSided
         /\ \A p : Position(p)' <=> Position(p)
         /\ \A p : BarrierAt(p)' <=> BarrierAt(p)
         /\ \A p : What(p)' = What(p)
         /\ \A p, o : AtLeast(p, o)' <=> AtLeast(p, o)
         /\ \A p, k, s : Times(p, k, s)' = Times(p, k, s)
BY DEF PackStep, PostStep, SendStep, WaitStep, UnpackStep, LastPhase, Position, BarrierAt, What,
   Steps, LastSection, AtLeast, Times, One, Done, TwoSided

LEMMA HostPositions ==
  ASSUME Hosts, mode' = mode, NEW r \in Rank, pos[r] # Done, GoOn(r)
  PROVE  /\ Hosts' /\ pos'[r] = Following(pos[r])
         /\ \A q \in Rank : q # r => pos'[q] = pos[q]
<1>1. pos'[r] = Following(pos[r]) /\ \A q \in Rank : q # r => pos'[q] = pos[q]
  BY DEF GoOn, Hosts
<1>2. Following(pos[r]) \in Place /\ Position(Following(pos[r])) BY HostStep DEF Hosts
<1>3. pos' \in [Rank -> Place] BY <1>1, <1>2 DEF GoOn, Hosts
<1>4. \A q \in Rank : Position(pos'[q]) BY <1>1, <1>2 DEF Hosts
<1>5. \A q \in Rank : Position(pos[q])' BY <1>4, SameMode
<1> QED BY <1>1, <1>3, <1>5 DEF Hosts, ModeNames

LEMMA HostBarriers ==
  ASSUME Hosts, Barriers, mode' = mode, NEW r \in Rank, pos[r] # Done, GoOn(r),
         What(pos[r]) = "barrier" => \A q \in Rank : AtLeast(pos[q], pos[r])
  PROVE  Barriers'
<1>1. Hosts' /\ pos'[r] = Following(pos[r]) /\ \A q \in Rank : q # r => pos'[q] = pos[q]
  BY HostPositions
<1>2. pos \in [Rank -> Place] /\ pos' \in [Rank -> Place] /\ \A q \in Rank : Position(pos[q])
  BY <1>1 DEF Hosts
<1>3. ASSUME NEW q \in Rank, NEW b \in Rank, NEW p \in Place, Position(p), p # Done, BarrierAt(p),
             AtLeast(pos'[q], p), pos'[q] # p
      PROVE  AtLeast(pos'[b], p)
  <2>1. AtLeast(pos[b], p)
    <3>1. CASE q # r BY <1>1, <1>3, <3>1 DEF Barriers, Place
    <3>2. CASE q = r
      <4>1. AtLeast(pos[r], p) BY <1>1, <1>2, <1>3, <3>2, Successor DEF Hosts
      <4>2. CASE pos[r] = p
        <5>1. What(p) = "barrier" BY <1>3 DEF BarrierAt, What
        <5> QED BY <4>2, <5>1
      <4>3. CASE pos[r] # p BY <1>3, <4>1, <4>3 DEF Barriers, Place
      <4> QED BY <4>2, <4>3
    <3> QED BY <3>1, <3>2
  <2>2. CASE b # r BY <1>1, <2>1, <2>2
  <2>3. CASE b = r
    <3>1. AtLeast(pos'[r], pos[r]) BY <1>1, <1>2, Successor DEF Hosts
    <3> QED BY <1>2, <2>1, <2>3, <3>1, AtLeastOrder
  <2> QED BY <2>2, <2>3
<1>4. \A p : (Position(p)' <=> Position(p)) /\ (BarrierAt(p)' <=> BarrierAt(p))
        BY SameMode
<1>5. \A q, b \in Rank : \A p \in Place :
        Position(p)' /\ p # Done /\ BarrierAt(p)' /\ AtLeast(pos'[q], p) /\ pos'[q] # p
          => AtLeast(pos'[b], p)
  BY <1>3, <1>4
<1> QED BY <1>5 DEF Barriers, Place, Done, AtLeast

-----------------------------------------------------------------------------
(* Where a stream is busy.                                                 *)

LEMMA PhasePlaces ==
  ASSUME mode \in ModeNames, NEW p \in Place, Position(p), InPhases(p)
  PROVE  /\ p.step \in 1 .. PhaseLen /\ PlaceOf(What(p), p) /\ p # Done
         /\ p.step \in BarrierSteps => What(p) = "barrier"
         /\ p.step \in SyncSteps => What(p) = "sync"
         /\ mode \in {"buffered", "gpumpi", "staged"} /\ p.step = 1 => What(p) = "pack"
<1>1. p.step \in 1 .. PhaseLen /\ Steps(p) = PhaseSteps[mode]
  BY Sections, Constants, Phases DEF InPhases, Iterating
<1>2. p # Done BY Phases DEF InPhases, Iterating, Done
<1> QED BY <1>1, <1>2, InAPhase

LEMMA InPhaseIs == ASSUME NEW r PROVE InPhase(r) <=> InPhases(pos[r])
BY DEF InPhase, InPhases, Iterating

\* A host whose stream is busy is about to wait for it, or to pack.
LEMMA Busy ==
  ASSUME Hosts, NEW r \in Rank, NEW op \in Op, MayRun(r, op)
  PROVE  /\ pos[r] # Done
         /\ \/ What(pos[r]) = "sync"
            \/ /\ What(pos[r]) = "pack" /\ InPhases(pos[r]) /\ pos[r].step = 1
               /\ mode \in {"buffered", "gpumpi", "staged"}
               /\ op[1] \in {"write", "pack"} => op = Moved(r, r) /\ pos[r].phase = 1
               /\ op # <<"init", r>> /\ op[1] # "copy"
<1> DEFINE p == pos[r]  q == op[2]
<1> USE Constants, Phases
<1>0. mode \in ModeNames /\ p \in Place /\ Position(p) BY DEF Hosts
<1>1. CASE op = <<"init", r>> /\ p = [iter |-> -1, phase |-> 0, step |-> 2]
  <2>1. p # Done /\ p.iter = -1 /\ p.step = 2 BY <1>1 DEF Done
  <2> QED BY <1>0, <2>1, Where DEF Iterating, InPhases
<1>2. CASE /\ op[1] \in {"write", "pack"} /\ op = Moved(r, q) /\ InPhase(r)
           /\ \/ q = r /\ p.phase = 1 /\ p.step <= (IF mode \in {"direct", "single"} THEN 1 ELSE 2)
              \/ q # r /\ p.step = PackStep + 1 /\ (mode # "single" => p.phase = Meeting(r, q))
  <2>1. InPhases(p) BY <1>2, InPhaseIs
  <2>2. p.step \in SyncSteps \/ (q = r /\ p.phase = 1 /\ p.step = 1 /\ mode \in {"buffered", "gpumpi", "staged"})
    BY <1>0, <1>2 DEF SyncSteps, PackStep, ModeNames, Place
  <2> QED BY <1>0, <1>2, <2>1, <2>2, PhasePlaces DEF Moved
<1>3. CASE /\ op[1] = "copy" /\ mode = "buffered" /\ InPhase(r)
           /\ q # r /\ IpcOk(r, q) /\ p.phase = Meeting(r, q) /\ p.step = 5
  <2>1. InPhases(p) /\ p.step \in SyncSteps BY <1>3, InPhaseIs DEF SyncSteps
  <2> QED BY <1>0, <2>1, PhasePlaces
<1>4. CASE /\ op[1] = "unpack" /\ q # r /\ ~Straight(q, r) /\ p.iter \in 0 .. Total - 1
           /\ IF mode \in {"direct", "buffered"}
              THEN p.phase = Meeting(q, r) /\ p.step = UnpackStep + 1
              ELSE p.phase = Meeting(q, r) + 1 /\ p.step <= 2
  <2>1. CASE InPhases(p)
    <3>1. p.step \in SyncSteps \/ (p.step = 1 /\ mode \in {"buffered", "gpumpi", "staged"})
      BY <1>0, <1>4 DEF SyncSteps, UnpackStep, ModeNames, Place, Straight
    <3> QED BY <1>0, <1>4, <2>1, <3>1, PhasePlaces
  <2>2. CASE ~InPhases(p)
    <3>0. q \in Rank BY DEF Op
    <3>1. p.phase # 0 /\ Iterating(p) BY <1>0, <1>4, <2>2, <3>0, MeetingPhase DEF Iterating, Place
    <3> QED BY <1>0, <2>2, <3>1, Where DEF Iterating, InPhases, Done
  <2> QED BY <2>1, <2>2
<1> QED BY <1>1, <1>2, <1>3, <1>4 DEF MayRun

\* What the step a host is at puts on its stream.
New(r, op) ==
  LET w == What(pos[r]) IN
  \/ w = "init" /\ op = <<"init", r>>
  \/ w = "local" /\ op = <<"write", r>>
  \/ w \in {"write", "pack"} /\ op = Moved(r, send_to(r))
  \/ w = "writeAll" /\ \E q \in Rank : q # r /\ op = <<"write", q>>
  \/ w = "copy" /\ IpcOk(r, send_to(r)) /\ op = <<"copy", send_to(r)>>
  \/ w = "unpackFallback" /\ ~IpcOk(r, recv_from(r)) /\ op = <<"unpack", recv_from(r)>>
  \/ w = "unpack" /\ op = <<"unpack", recv_from(r)>>

LEMMA OneOp ==
  ASSUME NEW o \in Op
  PROVE  /\ <<o>> \in Seq(Op)
         /\ \A op : (\E i \in 1 .. Len(<<o>>) : <<o>>[i] = op) <=> op = o
         /\ \A i, j \in 1 .. Len(<<o>>) : <<o>>[i] = <<o>>[j] => i = j
OBVIOUS

LEMMA NoOp ==
  /\ <<>> \in Seq(Op)
  /\ \A op : ~\E i \in 1 .. Len(<<>>) : <<>>[i] = op
  /\ \A i, j \in 1 .. Len(<<>>) : <<>>[i] = <<>>[j] => i = j
OBVIOUS

\* Peers of a host in a phase.
LEMMA Peers ==
  ASSUME Hosts, NEW r \in Rank, InPhases(pos[r])
  PROVE  /\ send_to(r) \in Rank /\ send_to(r) # r /\ recv_from(r) \in Rank /\ recv_from(r) # r
         /\ \A q \in Rank : q # r => (send_to(r) = q <=> pos[r].phase = Meeting(r, q))
         /\ \A q \in Rank : q # r => (recv_from(r) = q <=> pos[r].phase = Meeting(q, r))
<1>1. pos[r].phase \in 1 .. P - 1 BY Phases, Constants DEF Hosts, InPhases
<1>2. send_to(r) = (r - pos[r].phase + P) % P /\ recv_from(r) = (r + pos[r].phase) % P
  BY DEF send_to, recv_from, phase
<1>3. ASSUME NEW q \in Rank, q # r
      PROVE  /\ send_to(r) = q <=> pos[r].phase = Meeting(r, q)
             /\ recv_from(r) = q <=> pos[r].phase = Meeting(q, r)
  <2>1. (r - pos[r].phase + P) % P = q <=> pos[r].phase = Meeting(r, q) BY <1>1, <1>3, MeetingPhase
  <2>2. (r + pos[r].phase) % P = q <=> pos[r].phase = Meeting(q, r) BY <1>1, <1>3, MeetingPhase
  <2> QED BY <1>2, <2>1, <2>2
<1> QED BY <1>1, <1>2, <1>3, RingRanks

LEMMA LaunchedIs ==
  ASSUME Hosts, NEW r \in Rank, Launch(r)
  PROVE  LET s == Launched(r) IN
         /\ s \in Seq(Op)
         /\ \A op : (\E i \in 1 .. Len(s) : s[i] = op) <=> New(r, op)
         /\ \A i, j \in 1 .. Len(s) : s[i] = s[j] => i = j
<1> DEFINE p == pos[r]  w == What(p)  s == Launched(r)  to == send_to(r)  from == recv_from(r)
<1>1. pos[r] # Done
      /\ w \in {"init", "local", "write", "writeAll", "pack", "copy", "unpackFallback", "unpack"}
  BY DoingWhat DEF Launch
<1>2. mode \in ModeNames /\ p \in Place /\ Position(p) BY DEF Hosts
<1>3. w \notin {"init", "local"} => InPhases(p) /\ PlaceOf(w, p) BY <1>1, <1>2, Where
<1>4. w \notin {"init", "local"} => to \in Rank /\ from \in Rank /\ to # r /\ from # r BY <1>3, Peers
<1>5. s = CASE w = "init"  -> << <<"init", r>> >>
            [] w = "local" -> << <<"write", r>> >>
            [] w = "write" -> IF IpcOk(r, to) THEN << <<"write", to>> >> ELSE << <<"pack", to>> >>
            [] w = "writeAll" -> WritesOfAll(r)
            [] w = "pack"  -> << <<"pack", to>> >>
            [] w = "copy"  -> IF IpcOk(r, to) THEN << <<"copy", to>> >> ELSE <<>>
            [] w = "unpackFallback" -> IF IpcOk(r, from) THEN <<>> ELSE << <<"unpack", from>> >>
            [] w = "unpack" -> << <<"unpack", from>> >>
  BY DEF Launched, What
<1>6. ASSUME w \in {"write", "pack"}
      PROVE  s = << Moved(r, to) >> /\ Moved(r, to) \in Op
  <2>1. mode # "single" /\ to # r /\ to \in Rank BY <1>1, <1>3, <1>4, <1>6 DEF PlaceOf
  <2>2. CASE w = "write" /\ IpcOk(r, to)
    <3>1. Straight(r, to) BY <1>3, <2>2 DEF PlaceOf, Straight
    <3>2. Moved(r, to) = <<"write", to>> BY <3>1 DEF Moved
    <3> QED BY <1>5, <2>1, <2>2, <3>2 DEF Op
  <2>3. CASE w = "write" /\ ~IpcOk(r, to)
    <3>1. ~Straight(r, to) BY <2>1, <2>3 DEF Straight
    <3>2. Moved(r, to) = <<"pack", to>> BY <3>1 DEF Moved
    <3> QED BY <1>5, <2>1, <2>3, <3>2 DEF Op
  <2>4. CASE w = "pack"
    <3>1. ~Straight(r, to) BY <1>3, <2>1, <2>4 DEF Straight, PlaceOf
    <3>2. Moved(r, to) = <<"pack", to>> BY <3>1 DEF Moved
    <3> QED BY <1>5, <2>1, <2>4, <3>2 DEF Op
  <2> QED BY <1>6, <2>2, <2>3, <2>4
<1> DEFINE G == /\ s \in Seq(Op)
                /\ \A op : (\E i \in 1 .. Len(s) : s[i] = op) <=> New(r, op)
                /\ \A i, j \in 1 .. Len(s) : s[i] = s[j] => i = j
<1>a. ASSUME NEW o \in Op, s = <<o>>, \A op : New(r, op) <=> op = o PROVE G
  BY <1>a, OneOp
<1>b. ASSUME s = <<>>, \A op : ~New(r, op) PROVE G
  BY <1>b, NoOp
<1> SUFFICES G BY DEF G
<1> HIDE DEF G, s
<1>10. CASE w = "init"
  <2>1. s = << <<"init", r>> >> /\ <<"init", r>> \in Op BY <1>5, <1>10 DEF Op
  <2>2. \A op : New(r, op) <=> op = <<"init", r>> BY <1>10 DEF New
  <2> QED BY <1>a, <2>1, <2>2
<1>11. CASE w = "local"
  <2>1. s = << <<"write", r>> >> /\ <<"write", r>> \in Op BY <1>5, <1>11 DEF Op
  <2>2. \A op : New(r, op) <=> op = <<"write", r>> BY <1>11 DEF New
  <2> QED BY <1>a, <2>1, <2>2
<1>12. CASE w \in {"write", "pack"}
  <2>1. \A op : New(r, op) <=> op = Moved(r, to) BY <1>12 DEF New
  <2> QED BY <1>12, <1>6, <1>a, <2>1
<1>13. CASE w = "writeAll"
  <2>1. s = [k \in 1 .. P - 1 |-> <<"write", (r - k + P) % P>>] BY <1>5, <1>13 DEF WritesOfAll
  <2>2. \A k \in 1 .. P - 1 : (r - k + P) % P \in Rank /\ (r - k + P) % P # r BY RingRanks
  <2>3. \A k \in 1 .. P - 1 : <<"write", (r - k + P) % P>> \in Op BY <2>2 DEF Op
  <2>4. s \in Seq(Op) /\ Len(s) = P - 1 BY <2>1, <2>3, Constants
  <2>5. \A op : (\E i \in 1 .. Len(s) : s[i] = op) <=> New(r, op)
    <3>1. ASSUME NEW i \in 1 .. Len(s) PROVE New(r, s[i])
      BY <1>13, <2>1, <2>2, <2>4, <3>1 DEF New
    <3>2. ASSUME NEW op, New(r, op) PROVE \E i \in 1 .. Len(s) : s[i] = op
      <4>1. PICK q \in Rank : q # r /\ op = <<"write", q>> BY <1>13, <3>2 DEF New
      <4>2. Meeting(r, q) \in 1 .. P - 1 /\ (r - Meeting(r, q) + P) % P = q BY <4>1, MeetingPhase
      <4>3. s[Meeting(r, q)] = op BY <2>1, <4>1, <4>2
      <4> QED BY <2>4, <4>2, <4>3
    <3> QED BY <3>1, <3>2
  <2>6. ASSUME NEW i \in 1 .. Len(s), NEW j \in 1 .. Len(s), s[i] = s[j] PROVE i = j
    <3>1. (r - i + P) % P = (r - j + P) % P BY <2>1, <2>4, <2>6
    <3> QED BY <2>2, <2>4, <3>1, MeetingPhase
  <2>7. \A i, j \in 1 .. Len(s) : s[i] = s[j] => i = j BY <2>6
  <2> QED BY <2>4, <2>5, <2>7 DEF G
<1>14. CASE w = "copy"
  <2>1. CASE IpcOk(r, to)
    <3>1. s = << <<"copy", to>> >> /\ <<"copy", to>> \in Op BY <1>4, <1>5, <1>14, <2>1 DEF Op
    <3>2. \A op : New(r, op) <=> op = <<"copy", to>> BY <1>14, <2>1 DEF New
    <3> QED BY <1>a, <3>1, <3>2
  <2>2. CASE ~IpcOk(r, to)
    <3>1. s = <<>> BY <1>5, <1>14, <2>2
    <3>2. \A op : ~New(r, op) BY <1>14, <2>2 DEF New
    <3> QED BY <1>b, <3>1, <3>2
  <2> QED BY <2>1, <2>2
<1>15. CASE w = "unpackFallback"
  <2>1. CASE ~IpcOk(r, from)
    <3>1. s = << <<"unpack", from>> >> /\ <<"unpack", from>> \in Op BY <1>4, <1>5, <1>15, <2>1 DEF Op
    <3>2. \A op : New(r, op) <=> op = <<"unpack", from>> BY <1>15, <2>1 DEF New
    <3> QED BY <1>a, <3>1, <3>2
  <2>2. CASE IpcOk(r, from)
    <3>1. s = <<>> BY <1>5, <1>15, <2>2
    <3>2. \A op : ~New(r, op) BY <1>15, <2>2 DEF New
    <3> QED BY <1>b, <3>1, <3>2
  <2> QED BY <2>1, <2>2
<1>16. CASE w = "unpack"
  <2>1. s = << <<"unpack", from>> >> /\ <<"unpack", from>> \in Op BY <1>4, <1>5, <1>16 DEF Op
  <2>2. \A op : New(r, op) <=> op = <<"unpack", from>> BY <1>16 DEF New
  <2> QED BY <1>a, <2>1, <2>2
<1> QED BY <1>1, <1>10, <1>11, <1>12, <1>13, <1>14, <1>15, <1>16 DEF G, s

-----------------------------------------------------------------------------
(* The steps of a host.                                                    *)

\* What is done at the named steps of a phase.
LEMMA NamedSteps ==
  ASSUME mode \in ModeNames, NEW p \in Place, Position(p), InPhases(p)
  PROVE  /\ p.step = PackStep => What(p) \in {"write", "writeAll", "pack"}
         /\ mode # "single" /\ p.step = PostStep => What(p) = "post"
         /\ mode # "single" /\ p.step = SendStep => What(p) = "isend"
         /\ mode # "single" /\ p.step = WaitStep => What(p) = "waitall"
         /\ mode = "staged" /\ p.step = 3 => What(p) = "d2h"
         /\ mode = "staged" /\ p.step = 7 => What(p) = "h2d"
         /\ mode = "buffered" /\ p.step = 4 => What(p) = "copy"
<1>0. Steps(p) = PhaseSteps[mode] BY Sections, Constants, Phases DEF InPhases, Iterating
<1>1. CASE mode = "direct"
  BY <1>0, <1>1, DirectSteps DEF What, PackStep, PostStep, SendStep, WaitStep
<1>2. CASE mode = "single"
  BY <1>0, <1>2, SingleSteps DEF What, PackStep, PostStep, SendStep, WaitStep
<1>3. CASE mode = "buffered"
  BY <1>0, <1>3, BufferedSteps DEF What, PackStep, PostStep, SendStep, WaitStep
<1>4. CASE mode = "gpumpi"
  BY <1>0, <1>4, GpumpiSteps DEF What, PackStep, PostStep, SendStep, WaitStep
<1>5. CASE mode = "staged"
  BY <1>0, <1>5, StagedSteps DEF What, PackStep, PostStep, SendStep, WaitStep
<1> QED BY <1>1, <1>2, <1>3, <1>4, <1>5 DEF ModeNames

LaunchKinds == {"init", "local", "write", "writeAll", "pack", "copy", "unpackFallback", "unpack"}

\* What a host step changes, by what the host does.
Effect(r, w) ==
  /\ pos[r] # Done /\ w = What(pos[r]) /\ GoOn(r)
  /\ mode' = mode /\ ipc' = ipc /\ A' = A /\ B' = B
  /\ sendBuf' = sendBuf /\ fbRecv' = fbRecv /\ hostRecv' = hostRecv
  /\ w = "sync" => Drained(r)
  /\ w = "barrier" => \A q \in Rank : AtLeast(pos[q], pos[r])
  /\ w = "waitall" => Received(r) /\ AllSent(r)
  /\ IF w = "post" /\ ~IpcOk(r, recv_from(r))
     THEN posted' = [posted EXCEPT ![r] = recv_from(r)] ELSE posted' = posted
  /\ IF w = "isend" /\ ~IpcOk(r, send_to(r))
     THEN msgs' = [msgs EXCEPT ![r][send_to(r)] = Append(@, Held)] ELSE msgs' = msgs
  /\ IF w = "d2h" THEN hostSend' = [hostSend EXCEPT ![r] = sendBuf[r]] ELSE hostSend' = hostSend
  /\ IF w = "h2d" THEN recvBuf' = [recvBuf EXCEPT ![r] = hostRecv[r]] ELSE recvBuf' = recvBuf
  /\ IF w \in LaunchKinds THEN Launch(r) ELSE stream' = stream

LEMMA HostEffect == ASSUME NEW r \in Rank, Host(r) PROVE Effect(r, What(pos[r]))
<1> USE DoingWhat DEF Effect, conf, bufVars, LaunchKinds
<1>1. CASE Sync(r) BY <1>1 DEF Sync
<1>2. CASE Barrier(r) BY <1>2 DEF Barrier
<1>3. CASE Launch(r)
  <2>1. /\ pos[r] # Done /\ What(pos[r]) \in LaunchKinds
    BY <1>3 DEF Launch
  <2>2. GoOn(r) /\ UNCHANGED <<conf, A, B, bufVars, posted, msgs>> BY <1>3 DEF Launch
  <2> QED BY <1>3, <2>1, <2>2
<1>4. CASE Post(r) BY <1>4 DEF Post
<1>5. CASE Isend(r) BY <1>5 DEF Isend
<1>6. CASE Waitall(r) BY <1>6 DEF Waitall
<1>7. CASE CopyToHost(r) BY <1>7 DEF CopyToHost
<1>8. CASE CopyToDevice(r) BY <1>8 DEF CopyToDevice
<1>9. CASE Verify(r) BY <1>9 DEF Verify
<1> QED BY <1>1, <1>2, <1>3, <1>4, <1>5, <1>6, <1>7, <1>8, <1>9 DEF Host

\* A host finds its stream empty, except where it packs.
LEMMA HostIdle ==
  ASSUME Hosts, Queues, Streams, NEW r \in Rank, Host(r), What(pos[r]) # "pack", NEW op
  PROVE  ~InStream(r, op)
<1> SUFFICES ASSUME InStream(r, op) PROVE FALSE OBVIOUS
<1>1. MayRun(r, op) /\ op \in Op BY StreamsByOp DEF InStream, Queues
<1>2. What(pos[r]) = "sync" BY <1>1, Busy
<1>3. Drained(r) BY <1>2, HostEffect DEF Effect
<1> QED BY <1>3, DrainedHoldsNothing

\* Before a pack there may be the local block or an unpack in the stream.
LEMMA BeforePack ==
  ASSUME Hosts, Queues, Streams, NEW r \in Rank, Host(r), What(pos[r]) = "pack",
         NEW op, InStream(r, op)
  PROVE  /\ op \in Op /\ MayRun(r, op) /\ InPhases(pos[r]) /\ pos[r].step = 1
         /\ mode \in {"buffered", "gpumpi", "staged"}
         /\ (op = <<"write", r>> /\ pos[r].phase = 1) \/ op[1] = "unpack"
<1>1. MayRun(r, op) /\ op \in Op BY StreamsByOp DEF InStream, Queues
<1>2. Moved(r, r) = <<"write", r>> BY DEF Moved, Straight
<1>3. What(pos[r]) # "sync" OBVIOUS
<1>4. /\ InPhases(pos[r]) /\ pos[r].step = 1 /\ mode \in {"buffered", "gpumpi", "staged"}
      /\ op[1] \in {"write", "pack"} => op = <<"write", r>> /\ pos[r].phase = 1
      /\ op # <<"init", r>> /\ op[1] # "copy"
  BY <1>1, <1>2, <1>3, Busy
<1>5. op[1] = "init" => op = <<"init", r>> BY <1>1 DEF MayRun
<1>6. op[1] \in {"init", "write", "pack", "copy", "unpack"} BY <1>1 DEF Op
<1> QED BY <1>1, <1>4, <1>5, <1>6

\* A host step adds to its stream what it launches, which is not in it yet.
LEMMA NewIsNew ==
  ASSUME Hosts, Queues, Streams, NEW r \in Rank, Host(r), NEW op, New(r, op)
  PROVE  ~InStream(r, op) /\ What(pos[r]) \in LaunchKinds
<1>1. What(pos[r]) \in LaunchKinds BY Zenon DEF New, LaunchKinds
<1>2. CASE What(pos[r]) # "pack" BY <1>1, <1>2, HostIdle
<1>3. CASE What(pos[r]) = "pack"
  <2>1. ASSUME InStream(r, op) PROVE FALSE
    <3>1. InPhases(pos[r]) /\ (op = <<"write", r>> \/ op[1] = "unpack") BY <1>3, <2>1, BeforePack
    <3>2. op = Moved(r, send_to(r)) /\ send_to(r) # r BY <1>3, <3>1, Peers DEF New
    <3> QED BY <3>1, <3>2 DEF Moved
  <2> QED BY <1>1, <2>1
<1> QED BY <1>2, <1>3

LEMMA HostQueue ==
  ASSUME Hosts, Queues, Streams, NEW r \in Rank, Host(r)
  PROVE  /\ Queues' /\ Once(r)'
         /\ \A q \in Rank : q # r => stream'[q] = stream[q]
         /\ \A op : InStream(r, op)' <=> InStream(r, op) \/ New(r, op)
<1>0. Once(r) BY StreamsByOp
<1>1. CASE What(pos[r]) \in LaunchKinds
  <2> DEFINE s == Launched(r)
  <2>1. Launch(r) BY <1>1, HostEffect DEF Effect
  <2>2. /\ s \in Seq(Op)
        /\ \A op : (\E i \in 1 .. Len(s) : s[i] = op) <=> New(r, op)
        /\ \A i, j \in 1 .. Len(s) : s[i] = s[j] => i = j
    BY <2>1, LaunchedIs
  <2>3. stream' = [stream EXCEPT ![r] = @ \o s] BY <2>1 DEF Launch
  <2> HIDE DEF s
  <2>4. \A i \in 1 .. Len(s) : ~InStream(r, s[i]) BY <2>2, NewIsNew
  <2>5. /\ Queues'
        /\ \A q \in Rank : q # r => stream'[q] = stream[q]
        /\ \A op : InStream(r, op)' <=> InStream(r, op) \/ \E i \in 1 .. Len(s) : s[i] = op
        /\ Once(r)'
    BY <1>0, <2>2, <2>3, <2>4, Enqueue
  <2> QED BY <2>2, <2>5
<1>2. CASE What(pos[r]) \notin LaunchKinds
  <2>1. stream' = stream BY <1>2, HostEffect DEF Effect
  <2>2. \A op : ~New(r, op) BY <1>2, NewIsNew
  <2>3. Queues' BY <2>1 DEF Queues
  <2>4. Once(r)' BY <1>0, <2>1 DEF Once
  <2>5. \A op : InStream(r, op)' <=> InStream(r, op) BY <2>1 DEF InStream
  <2> QED BY <2>1, <2>2, <2>3, <2>4, <2>5
<1> QED BY <1>1, <1>2

LEMMA OtherStreams ==
  ASSUME NEW r, stream'[r] = stream[r]
  PROVE  (Once(r)' <=> Once(r)) /\ \A op : InStream(r, op)' <=> InStream(r, op)
BY DEF Once, InStream

LEMMA OtherMayRun ==
  ASSUME NEW r, NEW op, mode' = mode, ipc' = ipc, pos'[r] = pos[r]
  PROVE  MayRun(r, op)' <=> MayRun(r, op)
BY DEF MayRun, Moved, Straight, IpcOk, InPhase, PackStep, UnpackStep, LastPhase

\* What a host launches runs before its next synchronisation.
LEMMA NewMayRun ==
  ASSUME Hosts, NEW r \in Rank, NEW op, New(r, op), pos[r] # Done,
         mode' = mode, ipc' = ipc, pos'[r] = Following(pos[r])
  PROVE  MayRun(r, op)'
<1> DEFINE p == pos[r]  w == What(p)  o == pos'[r]
<1> USE Constants, Phases, PhaseLength
<1>0. mode \in ModeNames /\ p \in Place /\ Position(p) BY DEF Hosts
<1>1. Moved(r, r) = <<"write", r>> /\ \A q : Moved(r, q)[2] = q /\ Moved(r, q)[1] \in {"write", "pack"}
  BY DEF Moved, Straight
<1>2. \A q \in Rank : Moved(r, q)' = Moved(r, q) BY DEF Moved, Straight, IpcOk
<1>3. CASE w = "init"
  <2>1. p.iter = -1 /\ p.phase = 0 /\ p.step = 1 BY <1>0, <1>3, Where DEF PlaceOf
  <2>2. o = [iter |-> -1, phase |-> 0, step |-> 2] BY <1>0, <2>1, HostStep DEF Iterating, InPhases
  <2>3. op = <<"init", r>> BY <1>3 DEF New
  <2> QED BY <2>2, <2>3 DEF MayRun
<1>4. CASE w = "local"
  <2>1. Iterating(p) /\ p.phase = 0 BY <1>0, <1>4, Where DEF PlaceOf
  <2>2. o = [iter |-> p.iter, phase |-> 1, step |-> 1]
    BY <1>0, <1>4, <2>1, HostStep DEF Iterating, InPhases
  <2>3. op = <<"write", r>> BY <1>4 DEF New
  <2>4. InPhase(r)' BY <1>0, <2>1, <2>2 DEF InPhase, Iterating, LastPhase
  <2> QED BY <1>1, <1>2, <2>2, <2>3, <2>4 DEF MayRun
<1>5. CASE w \notin {"init", "local"}
  <2>0. w \in LaunchKinds BY Zenon DEF New, LaunchKinds
  <2>1. InPhases(p) /\ p.step \in 1 .. PhaseLen /\ PlaceOf(w, p)
    BY <1>0, <1>5, <2>0, Where DEF LaunchKinds
  <2>2. /\ send_to(r) \in Rank /\ send_to(r) # r /\ recv_from(r) \in Rank /\ recv_from(r) # r
        /\ \A q \in Rank : q # r => (send_to(r) = q <=> p.phase = Meeting(r, q))
        /\ \A q \in Rank : q # r => (recv_from(r) = q <=> p.phase = Meeting(q, r))
    BY <2>1, Peers
  <2>3. \/ p.step < PhaseLen /\ o = [iter |-> p.iter, phase |-> p.phase, step |-> p.step + 1]
        \/ p.step = PhaseLen /\ o = [iter |-> p.iter, phase |-> p.phase + 1, step |-> 1]
    BY <1>0, <2>1, HostStep DEF Iterating, InPhases
  <2>4. p.iter \in 0 .. Total - 1 /\ p.phase \in 1 .. LastPhase BY <2>1 DEF InPhases, Iterating
  <2>a. p.step \in 1 .. 12 /\ p.phase \in 0 .. P BY <1>0 DEF Place
  <2>b. ASSUME p.step < PhaseLen PROVE InPhase(r)'
    <3>1. o.iter = p.iter /\ o.phase = p.phase BY <2>3, <2>a, <2>b
    <3> QED BY <2>4, <3>1, SameMode DEF InPhase
  <2>5. CASE w \in {"write", "pack"}
    <3>1. op = Moved(r, send_to(r)) BY <2>5 DEF New
    <3>2. p.step = PackStep /\ p.step < PhaseLen /\ mode # "single"
      BY <1>0, <2>1, <2>5 DEF PlaceOf, PackStep, PhaseLen, ModeNames
    <3>3. o.step = PackStep + 1 /\ o.phase = p.phase BY <2>3, <2>a, <3>2
    <3>4. InPhase(r)' BY <2>b, <3>2
    <3> QED BY <1>1, <1>2, <2>2, <3>1, <3>2, <3>3, <3>4, SameMode DEF MayRun
  <2>6. CASE w = "writeAll"
    <3>1. PICK q \in Rank : q # r /\ op = <<"write", q>> BY <2>6 DEF New
    <3>2. p.step = PackStep /\ p.step < PhaseLen /\ mode = "single"
      BY <1>0, <2>1, <2>6 DEF PlaceOf, PackStep, PhaseLen
    <3>3. o.step = PackStep + 1 BY <2>3, <2>a, <3>2
    <3>4. InPhase(r)' BY <2>b, <3>2
    <3>5. Moved(r, q)' = op BY <1>2, <3>1, <3>2 DEF Moved, Straight
    <3> QED BY <3>1, <3>2, <3>3, <3>4, <3>5, SameMode DEF MayRun
  <2>7. CASE w = "copy"
    <3>1. op = <<"copy", send_to(r)>> /\ IpcOk(r, send_to(r)) BY <2>7 DEF New
    <3>2. p.step = 4 /\ mode = "buffered" /\ p.step < PhaseLen BY <2>1, <2>7 DEF PlaceOf, PhaseLen
    <3>3. o.step = 5 /\ o.phase = p.phase BY <2>3, <2>a, <3>2
    <3>4. InPhase(r)' BY <2>b, <3>2
    <3>6. IpcOk(r, op[2])' BY <3>1 DEF IpcOk
    <3> QED BY <2>2, <3>1, <3>2, <3>3, <3>4, <3>6 DEF MayRun
  <2>8. CASE w \in {"unpackFallback", "unpack"}
    <3>1. op = <<"unpack", recv_from(r)>> BY <2>8 DEF New
    <3>2. p.step = UnpackStep /\ mode # "single" BY <2>1, <2>8 DEF PlaceOf
    <3>3. ~Straight(recv_from(r), r)
      <4>1. CASE w = "unpackFallback"
        <5>1. ~IpcOk(r, recv_from(r)) BY <4>1 DEF New
        <5> QED BY <2>2, <3>2, <5>1 DEF Straight, IpcOk
      <4>2. CASE w = "unpack" BY <2>1, <2>2, <3>2, <4>2 DEF Straight, PlaceOf
      <4> QED BY <2>8, <4>1, <4>2
    <3>4. ~Straight(op[2], r)' BY <3>1, <3>3 DEF Straight, IpcOk
    <3>5. IF mode \in {"direct", "buffered"} THEN p.step < PhaseLen ELSE p.step = PhaseLen
      BY <1>0, <3>2 DEF UnpackStep, PhaseLen, ModeNames
    <3>6. CASE mode \in {"direct", "buffered"}
      <4>1. o.step = UnpackStep + 1 /\ o.phase = p.phase /\ o.iter = p.iter BY <2>3, <2>a, <3>2, <3>5, <3>6
      <4>2. o.phase = Meeting(op[2], r) BY <2>2, <3>1, <4>1
      <4> QED BY <2>2, <2>4, <3>1, <3>4, <3>6, <4>1, <4>2, SameMode DEF MayRun
    <3>7. CASE mode \notin {"direct", "buffered"}
      <4>1. o.step = 1 /\ o.phase = p.phase + 1 /\ o.iter = p.iter BY <2>3, <2>a, <3>2, <3>5, <3>7
      <4>2. o.phase = Meeting(op[2], r) + 1 BY <2>2, <3>1, <4>1
      <4> QED BY <2>2, <2>4, <3>1, <3>4, <3>7, <4>1, <4>2, SameMode DEF MayRun
    <3> QED BY <3>6, <3>7
  <2> QED BY <1>5, <2>0, <2>5, <2>6, <2>7, <2>8 DEF LaunchKinds
<1> QED BY <1>3, <1>4, <1>5

LEMMA HostStreams ==
  ASSUME Hosts, Queues, Streams, NEW r \in Rank, Host(r)
  PROVE  Streams'
<1> DEFINE p == pos[r]  o == pos'[r]
<1> USE Constants, Phases, PhaseLength
<1>0. mode \in ModeNames /\ p \in Place /\ Position(p) BY DEF Hosts
<1>1. /\ pos[r] # Done /\ GoOn(r) /\ mode' = mode /\ ipc' = ipc BY HostEffect DEF Effect
<1>2. /\ pos'[r] = Following(pos[r]) /\ \A q \in Rank : q # r => pos'[q] = pos[q]
  BY <1>1, HostPositions
<1>3. ASSUME NEW op, InStream(r, op), What(p) = "pack" PROVE MayRun(r, op)'
  <2>1. /\ op \in Op /\ MayRun(r, op) /\ InPhases(p) /\ p.step = 1
        /\ mode \in {"buffered", "gpumpi", "staged"}
        /\ (op = <<"write", r>> /\ p.phase = 1) \/ op[1] = "unpack"
    BY <1>3, BeforePack
  <2>2. PhaseLen > 1 BY <2>1, <1>0
  <2>3. o = [iter |-> p.iter, phase |-> p.phase, step |-> 2]
    BY <1>0, <1>1, <1>2, <2>1, <2>2, HostStep DEF Iterating, InPhases
  <2>4. p.iter \in 0 .. Total - 1 /\ p.phase \in 1 .. LastPhase BY <2>1 DEF InPhases, Iterating
  <2>5. InPhase(r)' BY <1>1, <2>3, <2>4, SameMode DEF InPhase
  <2>6. CASE op = <<"write", r>> /\ p.phase = 1
    <3>1. Moved(r, r)' = op BY <2>6 DEF Moved, Straight
    <3> QED BY <1>1, <2>1, <2>3, <2>5, <2>6, <3>1 DEF MayRun
  <2>7. CASE op[1] = "unpack"
    <3>1. /\ op[2] # r /\ ~Straight(op[2], r) /\ p.iter \in 0 .. Total - 1
          /\ IF mode \in {"direct", "buffered"}
             THEN p.phase = Meeting(op[2], r) /\ p.step = UnpackStep + 1
             ELSE p.phase = Meeting(op[2], r) + 1 /\ p.step <= 2
      BY <2>1, <2>7 DEF MayRun
    <3>2. mode \notin {"direct", "buffered"} BY <2>1, <3>1 DEF UnpackStep
    <3>3. (~Straight(op[2], r))' BY <1>1, <3>1 DEF Straight, IpcOk
    <3>4. o.phase = Meeting(op[2], r) + 1 /\ o.step <= 2 /\ o.iter \in 0 .. Total - 1
      BY <2>3, <2>4, <3>1, <3>2
    <3> QED BY <1>1, <2>7, <3>1, <3>2, <3>3, <3>4 DEF MayRun
  <2> QED BY <2>1, <2>6, <2>7
<1>4. ASSUME NEW op, InStream(r, op)' PROVE MayRun(r, op)'
  <2>1. CASE New(r, op) BY <1>1, <1>2, <2>1, NewMayRun
  <2>2. CASE ~New(r, op)
    <3>1. InStream(r, op) BY <1>4, <2>2, HostQueue
    <3>2. What(p) = "pack" BY <3>1, HostIdle
    <3> QED BY <1>3, <3>1, <3>2
  <2> QED BY <2>1, <2>2
<1>5. ASSUME NEW q \in Rank, q # r PROVE Once(q)' /\ \A op : InStream(q, op)' => MayRun(q, op)'
  <2>1. stream'[q] = stream[q] BY <1>5, HostQueue
  <2>2. Once(q)' /\ \A op : InStream(q, op)' => InStream(q, op)
    BY <2>1, StreamsByOp, OtherStreams
  <2>3. \A op : InStream(q, op) => MayRun(q, op) BY StreamsByOp
  <2>4. \A op : MayRun(q, op)' <=> MayRun(q, op) BY <1>1, <1>2, <1>5, OtherMayRun
  <2> QED BY <2>2, <2>3, <2>4
<1>6. Once(r)' BY HostQueue
<1>7. \A q \in Rank : Once(q)' /\ \A op : InStream(q, op)' => MayRun(q, op)'
  BY <1>4, <1>5, <1>6
<1>8. Streams' <=> \A q \in Rank : Once(q)' /\ \A op : InStream(q, op)' => MayRun(q, op)'
  BY Zenon DEF Streams, Once, InStream
<1> QED BY <1>7, <1>8

LEMMA RunQueue ==
  ASSUME Hosts, Queues, Streams, NEW r \in Rank, Run(r)
  PROVE  /\ Queues' /\ Streams'
         /\ mode' = mode /\ ipc' = ipc /\ pos' = pos /\ posted' = posted /\ msgs' = msgs
         /\ stream[r] # <<>> /\ Head(stream[r]) \in Op
         /\ InStream(r, Head(stream[r])) /\ MayRun(r, Head(stream[r]))
         /\ \A q \in Rank : q # r => stream'[q] = stream[q]
         /\ \A op : InStream(r, op)' <=> InStream(r, op) /\ op # Head(stream[r])
<1>1. /\ stream[r] # <<>> /\ stream' = [stream EXCEPT ![r] = Tail(@)]
      /\ mode' = mode /\ ipc' = ipc /\ pos' = pos /\ posted' = posted /\ msgs' = msgs
  BY DEF Run, conf
<1>2. Once(r) BY StreamsByOp
<1>3. /\ Queues' /\ Once(r)'
      /\ \A q \in Rank : q # r => stream'[q] = stream[q]
      /\ Head(stream[r]) \in Op /\ InStream(r, Head(stream[r]))
      /\ \A op : InStream(r, op)' <=> InStream(r, op) /\ op # Head(stream[r])
  BY <1>1, <1>2, Dequeue
<1>4. ASSUME NEW q \in Rank PROVE Once(q)' /\ \A op : InStream(q, op)' => MayRun(q, op)'
  <2>1. \A op : MayRun(q, op)' <=> MayRun(q, op) BY <1>1, OtherMayRun
  <2>2. \A op : InStream(q, op) => MayRun(q, op) BY StreamsByOp
  <2>3. CASE q = r BY <1>3, <2>1, <2>2, <2>3
  <2>4. CASE q # r
    <3>1. stream'[q] = stream[q] BY <1>3, <2>4
    <3>2. Once(q)' /\ \A op : InStream(q, op)' => InStream(q, op)
      BY <3>1, StreamsByOp, OtherStreams
    <3> QED BY <2>1, <2>2, <3>2
  <2> QED BY <2>3, <2>4
<1>5. Streams' <=> \A q \in Rank : Once(q)' /\ \A op : InStream(q, op)' => MayRun(q, op)'
  BY Zenon DEF Streams, Once, InStream
<1>6. MayRun(r, Head(stream[r])) BY <1>3, StreamsByOp
<1> QED BY <1>1, <1>3, <1>4, <1>5, <1>6

-----------------------------------------------------------------------------
(* What a host has launched.                                               *)

LEMMA LocalNew ==
  ASSUME Hosts, NEW r \in Rank, pos[r] # Done
  PROVE  New(r, Moved(r, r)) <=> What(pos[r]) = "local"
<1> DEFINE p == pos[r]  w == What(p)
<1>0. mode \in ModeNames /\ p \in Place /\ Position(p) BY DEF Hosts
<1>1. Moved(r, r) = <<"write", r>> BY DEF Moved, Straight
<1>2. ASSUME w \in {"write", "pack"} PROVE Moved(r, send_to(r)) # <<"write", r>>
  <2>1. InPhases(p) BY <1>0, <1>2, Where
  <2>2. send_to(r) # r BY <2>1, Peers
  <2> QED BY <2>2 DEF Moved
<1> QED BY <1>1, <1>2 DEF New

LEMMA MovedNew ==
  ASSUME Hosts, NEW r \in Rank, pos[r] # Done, NEW q \in Rank, q # r
  PROVE  New(r, Moved(r, q)) <=>
           /\ Iterating(pos[r]) /\ pos[r].step = PackStep
           /\ pos[r].phase = IF mode = "single" THEN 1 ELSE Meeting(r, q)
<1> DEFINE p == pos[r]  w == What(p)
<1> USE Constants, Phases, PhaseLength
<1>0. mode \in ModeNames /\ p \in Place /\ Position(p) BY DEF Hosts
<1>1. \A b : Moved(r, b) = <<"write", b>> \/ Moved(r, b) = <<"pack", b>> BY DEF Moved
<1>2. Meeting(r, q) \in 1 .. P - 1 BY MeetingPhase
<1>3. InPhases(p) /\ p.step = PackStep => w \in {"write", "writeAll", "pack"}
  BY <1>0, NamedSteps
<1>4. w \in {"write", "writeAll", "pack"} =>
        InPhases(p) /\ p.step = PackStep /\ (w = "writeAll" <=> mode = "single")
  BY <1>0, Where DEF PlaceOf
<1>5. CASE mode = "single"
  <2>1. Moved(r, q) = <<"write", q>> BY <1>5 DEF Moved, Straight
  <2>2. LastPhase = 1 BY <1>5 DEF LastPhase
  <2>3. w = "writeAll" <=> Iterating(p) /\ p.step = PackStep /\ p.phase = 1
    BY <1>0, <1>3, <1>4, <1>5, <2>2 DEF InPhases
  <2>4. New(r, Moved(r, q)) <=> w = "writeAll"
    <3>1. w \notin {"write", "pack"} BY <1>4, <1>5
    <3> QED BY <2>1, <3>1 DEF New
  <2> QED BY <1>5, <2>3, <2>4
<1>6. CASE mode # "single"
  <2>1. LastPhase = P - 1 /\ w # "writeAll" BY <1>4, <1>6 DEF LastPhase
  <2>2. New(r, Moved(r, q)) <=> w \in {"write", "pack"} /\ send_to(r) = q
    BY <1>1, <2>1 DEF New
  <2>3. InPhases(p) => (send_to(r) = q <=> p.phase = Meeting(r, q)) BY Peers
  <2>4. Iterating(p) /\ p.phase = Meeting(r, q) => InPhases(p) BY <1>2, <2>1 DEF InPhases
  <2> QED BY <1>3, <1>4, <1>6, <2>1, <2>2, <2>3, <2>4 DEF InPhases
<1> QED BY <1>5, <1>6

LEMMA UnpackNew ==
  ASSUME Hosts, NEW r \in Rank, pos[r] # Done, NEW q \in Rank, q # r, ~Straight(q, r)
  PROVE  New(r, <<"unpack", q>>) <=>
           Iterating(pos[r]) /\ pos[r].step = UnpackStep /\ pos[r].phase = Meeting(q, r)
<1> DEFINE p == pos[r]  w == What(p)
<1> USE Constants, Phases, PhaseLength
<1>0. mode \in ModeNames /\ p \in Place /\ Position(p) BY DEF Hosts
<1>1. mode # "single" /\ LastPhase = P - 1 BY DEF Straight, LastPhase
<1>2. Meeting(q, r) \in 1 .. P - 1 BY MeetingPhase
<1>3. Iterating(p) /\ p.phase = Meeting(q, r) => InPhases(p) BY <1>1, <1>2 DEF InPhases
<1>4. w \in {"unpackFallback", "unpack"} => InPhases(p) /\ p.step = UnpackStep
  BY <1>0, Where DEF PlaceOf
<1>5. InPhases(p) /\ p.step = UnpackStep =>
        w = IF mode = "direct" THEN "unpackFallback" ELSE "unpack"
  <2> SUFFICES ASSUME InPhases(p), p.step = UnpackStep
               PROVE  w = IF mode = "direct" THEN "unpackFallback" ELSE "unpack"
    OBVIOUS
  <2>0. Steps(p) = PhaseSteps[mode] BY <1>0, Sections DEF InPhases, Iterating
  <2>1. CASE mode = "direct" BY <2>0, <2>1, DirectSteps DEF What, UnpackStep
  <2>2. CASE mode = "buffered" BY <2>0, <2>2, BufferedSteps DEF What, UnpackStep
  <2>3. CASE mode = "gpumpi" BY <2>0, <2>3, GpumpiSteps DEF What, UnpackStep
  <2>4. CASE mode = "staged" BY <2>0, <2>4, StagedSteps DEF What, UnpackStep
  <2> QED BY <1>0, <1>1, <2>1, <2>2, <2>3, <2>4 DEF ModeNames
<1>6. InPhases(p) => (recv_from(r) = q <=> p.phase = Meeting(q, r)) BY Peers
<1>7. mode = "direct" => ~IpcOk(r, q) BY DEF Straight, IpcOk
<1>8. \A b : Moved(r, b) # <<"unpack", q>> BY DEF Moved
<1>9. New(r, <<"unpack", q>>) <=>
        \/ w = "unpackFallback" /\ ~IpcOk(r, recv_from(r)) /\ recv_from(r) = q
        \/ w = "unpack" /\ recv_from(r) = q
  BY <1>8 DEF New
<1>10. ASSUME New(r, <<"unpack", q>>)
       PROVE  Iterating(p) /\ p.step = UnpackStep /\ p.phase = Meeting(q, r)
  <2>1. w \in {"unpackFallback", "unpack"} /\ recv_from(r) = q BY <1>9, <1>10
  <2>2. InPhases(p) /\ p.step = UnpackStep BY <1>4, <2>1
  <2> QED BY <1>6, <2>1, <2>2 DEF InPhases
<1>11. ASSUME Iterating(p), p.step = UnpackStep, p.phase = Meeting(q, r)
       PROVE  New(r, <<"unpack", q>>)
  <2>1. InPhases(p) BY <1>3, <1>11
  <2>2. recv_from(r) = q BY <1>6, <1>11, <2>1
  <2>3. CASE mode = "direct"
    <3>1. w = "unpackFallback" /\ ~IpcOk(r, recv_from(r)) BY <1>5, <1>7, <1>11, <2>1, <2>2, <2>3
    <3> QED BY <1>9, <2>2, <3>1
  <2>4. CASE mode # "direct"
    <3>1. w = "unpack" BY <1>5, <1>11, <2>1, <2>4
    <3> QED BY <1>9, <2>2, <3>1
  <2> QED BY <2>3, <2>4
<1> QED BY <1>10, <1>11

LEMMA LaunchCount ==
  ASSUME Hosts, NEW r \in Rank, pos[r] # Done, pos'[r] = Following(pos[r]),
         mode' = mode, ipc' = ipc, NEW q \in Rank
  PROVE  /\ Launching(r, q)' = Launching(r, q) + One(New(r, Moved(r, q)))
         /\ q # r /\ ~Straight(q, r) =>
              Times(pos'[r], Meeting(q, r), UnpackStep) =
                Times(pos[r], Meeting(q, r), UnpackStep) + One(New(r, <<"unpack", q>>))
<1> DEFINE p == pos[r]
<1> USE Constants, Phases, PhaseLength
<1>0. mode \in ModeNames /\ p \in Place /\ Position(p) BY DEF Hosts
<1>1. PackStep \in 1 .. PhaseLen /\ (mode # "single" => UnpackStep \in 1 .. PhaseLen)
  BY <1>0 DEF PackStep, UnpackStep, PhaseLen, ModeNames
<1>2. CASE q = r
  <2>1. Launching(r, q) = Times(p, 0, 3) /\ Launching(r, q)' = Times(pos'[r], 0, 3)
    BY <1>2 DEF Launching
  <2>2. Times(pos'[r], 0, 3) = Times(p, 0, 3) + One(What(p) = "local") BY <1>0, TimesLocal
  <2>3. New(r, Moved(r, q)) <=> What(p) = "local" BY <1>2, LocalNew
  <2> QED BY <1>2, <2>1, <2>2, <2>3 DEF One
<1>3. CASE q # r /\ mode = "single"
  <2>1. PackStep = 3 /\ LastPhase = 1 BY <1>3 DEF PackStep, LastPhase
  <2>2. Launching(r, q) = Times(p, 1, 3) /\ Launching(r, q)' = Times(pos'[r], 1, 3)
    BY <1>3 DEF Launching
  <2>3. Times(pos'[r], 1, 3) = Times(p, 1, 3) + One(Iterating(p) /\ p.phase = 1 /\ p.step = 3)
    BY <1>0, <1>1, <2>1, TimesStep
  <2>4. New(r, Moved(r, q)) <=> Iterating(p) /\ p.phase = 1 /\ p.step = 3
    BY <1>3, <2>1, MovedNew
  <2> QED BY <1>3, <2>2, <2>3, <2>4 DEF One, Straight
<1>4. CASE q # r /\ mode # "single"
  <2> DEFINE k == Meeting(r, q)  l == Meeting(q, r)
  <2>1. k \in 1 .. LastPhase /\ l \in 1 .. LastPhase BY <1>4, MeetingPhase DEF LastPhase
  <2> HIDE DEF k, l
  <2>2. Launching(r, q) = Times(p, k, PackStep) /\ Launching(r, q)' = Times(pos'[r], k, PackStep)
    BY <1>4, SameMode DEF Launching, k
  <2>3. /\ Times(pos'[r], k, PackStep) =
             Times(p, k, PackStep) + One(Iterating(p) /\ p.phase = k /\ p.step = PackStep)
        /\ Times(pos'[r], l, UnpackStep) =
             Times(p, l, UnpackStep) + One(Iterating(p) /\ p.phase = l /\ p.step = UnpackStep)
    BY <1>0, <1>1, <1>4, <2>1, TimesStep
  <2>4. New(r, Moved(r, q)) <=> Iterating(p) /\ p.phase = k /\ p.step = PackStep
    BY <1>4, MovedNew DEF k
  <2>5. ~Straight(q, r) =>
          (New(r, <<"unpack", q>>) <=> Iterating(p) /\ p.phase = l /\ p.step = UnpackStep)
    BY <1>4, UnpackNew DEF l
  <2> QED BY <2>2, <2>3, <2>4, <2>5 DEF One, l
<1> QED BY <1>2, <1>3, <1>4

\* What is in a stream has been launched in this iteration.
LEMMA InFlight ==
  ASSUME Hosts, NEW r \in Rank, NEW q \in Rank
  PROVE  /\ MayRun(r, Moved(r, q)) => Iterating(pos[r]) /\ Launching(r, q) = pos[r].iter + 1
         /\ MayRun(r, <<"unpack", q>>) =>
              /\ Iterating(pos[r]) /\ q # r /\ ~Straight(q, r)
              /\ Times(pos[r], Meeting(q, r), UnpackStep) = pos[r].iter + 1
<1> DEFINE p == pos[r]
<1> USE Constants, Phases, PhaseLength
<1>0. mode \in ModeNames /\ p \in Place /\ Position(p) BY DEF Hosts
<1>a. q # r => Meeting(r, q) \in 1 .. P - 1 /\ Meeting(q, r) \in 1 .. P - 1 BY MeetingPhase
<1>1. ASSUME MayRun(r, Moved(r, q))
      PROVE  Iterating(p) /\ Launching(r, q) = p.iter + 1
  <2>1. Moved(r, q)[2] = q /\ Moved(r, q)[1] \in {"write", "pack"} /\ Moved(r, q) # <<"init", r>>
    BY DEF Moved
  <2>2. /\ InPhase(r)
        /\ \/ q = r /\ p.phase = 1
           \/ q # r /\ p.step = PackStep + 1 /\ (mode # "single" => p.phase = Meeting(r, q))
    BY <1>1, <2>1 DEF MayRun
  <2>3. InPhases(p) /\ p.iter \in 0 .. Total - 1 /\ p.phase \in 1 .. LastPhase
    BY <2>2, InPhaseIs DEF InPhases, Iterating
  <2>4. CASE q = r
    BY <1>0, <2>2, <2>3, <2>4 DEF Launching, Times, One, InPhases, Iterating, Place
  <2>5. CASE q # r /\ mode = "single"
    <3>1. p.phase = 1 /\ p.step = 4 BY <2>2, <2>3, <2>5 DEF LastPhase, PackStep
    <3> QED BY <1>0, <2>3, <2>5, <3>1 DEF Launching, Times, One, InPhases, Iterating, Place
  <2>6. CASE q # r /\ mode # "single"
    <3>1. p.phase = Meeting(r, q) /\ p.step = PackStep + 1 BY <2>2, <2>6
    <3>2. PackStep \in Nat BY DEF PackStep
    <3>3. Launching(r, q) = Times(p, p.phase, PackStep) BY <2>6, <3>1 DEF Launching
    <3>4. Times(p, p.phase, PackStep) = p.iter + 1
      BY <1>0, <2>3, <3>1, <3>2 DEF Times, One, InPhases, Iterating, Place
    <3> QED BY <2>3, <3>3, <3>4 DEF InPhases
  <2> QED BY <2>4, <2>5, <2>6
<1>2. ASSUME MayRun(r, <<"unpack", q>>)
      PROVE  /\ Iterating(p) /\ q # r /\ ~Straight(q, r)
             /\ Times(p, Meeting(q, r), UnpackStep) = p.iter + 1
  <2>1. /\ q # r /\ ~Straight(q, r) /\ p.iter \in 0 .. Total - 1
        /\ IF mode \in {"direct", "buffered"}
           THEN p.phase = Meeting(q, r) /\ p.step = UnpackStep + 1
           ELSE p.phase = Meeting(q, r) + 1 /\ p.step <= 2
    BY <1>2 DEF MayRun
  <2>2. UnpackStep \in Nat BY DEF UnpackStep
  <2>3. Meeting(q, r) \in 1 .. P - 1 BY <1>a, <2>1
  <2>4. CASE mode \in {"direct", "buffered"}
    BY <1>0, <2>1, <2>2, <2>3, <2>4 DEF Times, One, Iterating, Place
  <2>5. CASE mode \notin {"direct", "buffered"}
    BY <1>0, <2>1, <2>2, <2>3, <2>5 DEF Times, One, Iterating, Place
  <2> QED BY <2>1, <2>4, <2>5 DEF Iterating
<1> QED BY <1>1, <1>2

LEMMA CountType ==
  ASSUME Hosts, NEW r \in Rank, NEW q \in Rank
  PROVE  /\ Meeting(q, r) \in 0 .. P - 1 /\ Meeting(r, q) \in 0 .. P - 1
         /\ Launching(r, q) \in 0 .. Total
         /\ \A s \in Nat : /\ Times(pos[r], Meeting(q, r), s) \in 0 .. Total
                           /\ Times(pos[r], Meeting(r, q), s) \in 0 .. Total
<1>1. Meeting(q, r) \in 0 .. P - 1 /\ Meeting(r, q) \in 0 .. P - 1 BY Constants DEF Meeting, Rank
<1>2. pos[r] \in Place /\ Position(pos[r]) BY DEF Hosts
<1>3. ASSUME NEW k \in Nat, NEW s \in Nat PROVE Times(pos[r], k, s) \in 0 .. Total
  BY <1>2, TimesType
<1>4. PackStep \in Nat BY DEF PackStep
<1>5. Launching(r, q) \in 0 .. Total BY <1>1, <1>3, <1>4, Constants DEF Launching
<1>6. Meeting(q, r) \in Nat /\ Meeting(r, q) \in Nat BY <1>1, Constants
<1>7. \A s \in Nat : /\ Times(pos[r], Meeting(q, r), s) \in 0 .. Total
                    /\ Times(pos[r], Meeting(r, q), s) \in 0 .. Total
  BY Zenon, <1>3, <1>6
<1> QED BY <1>1, <1>5, <1>7

LEMMA CountsNext ==
  ASSUME mode' = mode, ipc' = ipc, NEW r, NEW q, NEW m, m = Moved(r, q)
  PROVE  /\ Written(r, q)' = Launching(r, q)' - One(InStream(r, m)')
         /\ Unpacked(r, q)' =
              Times(pos'[r], Meeting(q, r), UnpackStep) - One(InStream(r, <<"unpack", q>>)')
         /\ Straight(r, q)' <=> Straight(r, q)
<1>1. m = Moved(r, q)' BY DEF Moved, Straight, IpcOk
<1>2. Times(pos[r], Meeting(q, r), UnpackStep)' = Times(pos'[r], Meeting(q, r), UnpackStep)
  BY SameMode
<1> QED BY <1>1, <1>2 DEF Written, Unpacked, InStream, Straight, IpcOk

LEMMA OtherCounts ==
  ASSUME mode' = mode, ipc' = ipc, NEW r, pos'[r] = pos[r], NEW q, NEW m, m = Moved(r, q)
  PROVE  /\ (InStream(r, m)' <=> InStream(r, m)) => Written(r, q)' = Written(r, q)
         /\ (InStream(r, <<"unpack", q>>)' <=> InStream(r, <<"unpack", q>>))
              => Unpacked(r, q)' = Unpacked(r, q)
         /\ Launching(r, q)' = Launching(r, q)
<1>1. Launching(r, q)' = Launching(r, q) BY SameMode DEF Launching
<1> QED BY <1>1, CountsNext DEF Written, Unpacked, One

\* A host step changes none of the counts, and A and B stay as they are.
LEMMA HostCounts ==
  ASSUME Hosts, Queues, Streams, NEW h \in Rank, Host(h), NEW r \in Rank, NEW q \in Rank
  PROVE  /\ Written(r, q)' = Written(r, q)
         /\ q # r /\ ~Straight(q, r) => Unpacked(r, q)' = Unpacked(r, q)
         /\ Straight(q, r)' <=> Straight(q, r)
<1>1. /\ pos[h] # Done /\ GoOn(h) /\ mode' = mode /\ ipc' = ipc BY HostEffect DEF Effect
<1>2. /\ pos'[h] = Following(pos[h]) /\ \A b \in Rank : b # h => pos'[b] = pos[b]
  BY <1>1, HostPositions
<1>3. Straight(q, r)' <=> Straight(q, r) BY <1>1 DEF Straight, IpcOk
<1> DEFINE m == Moved(r, q)  u == <<"unpack", q>>
<1>a. PICK n : n = m OBVIOUS
<1>4. CASE r # h
  <2>1. pos'[r] = pos[r] /\ stream'[r] = stream[r] BY <1>2, <1>4, HostQueue
  <2>2. \A op : InStream(r, op)' <=> InStream(r, op) BY <2>1, OtherStreams
  <2>3. (InStream(r, n)' <=> InStream(r, n)) /\ (InStream(r, u)' <=> InStream(r, u)) BY <2>2
  <2> QED BY <1>1, <1>3, <1>a, <2>1, <2>3, OtherCounts
<1>5. CASE r = h
  <2>1. /\ Launching(r, q)' = Launching(r, q) + One(New(r, n))
        /\ q # r /\ ~Straight(q, r) =>
             Times(pos'[r], Meeting(q, r), UnpackStep) =
               Times(pos[r], Meeting(q, r), UnpackStep) + One(New(r, u))
    BY <1>1, <1>2, <1>5, <1>a, LaunchCount
  <2>2. \A op : InStream(r, op)' <=> InStream(r, op) \/ New(r, op) BY <1>5, HostQueue
  <2>3. \A op : New(r, op) => ~InStream(r, op) BY <1>5, NewIsNew
  <2>4. /\ Written(r, q)' = Launching(r, q)' - One(InStream(r, n)')
        /\ Unpacked(r, q)' = Times(pos'[r], Meeting(q, r), UnpackStep) - One(InStream(r, u)')
    BY <1>1, <1>a, CountsNext
  <2>5. Written(r, q) = Launching(r, q) - One(InStream(r, n))
        /\ Unpacked(r, q) = Times(pos[r], Meeting(q, r), UnpackStep) - One(InStream(r, u))
    BY <1>a DEF Written, Unpacked
  <2> HIDE DEF m, u
  <2>6. UnpackStep \in Nat BY DEF UnpackStep
  <2>7. Launching(r, q) \in Int /\ Times(pos[r], Meeting(q, r), UnpackStep) \in Int
    BY <2>6, CountType
  <2>8. (InStream(r, n)' <=> InStream(r, n) \/ New(r, n)) /\ (New(r, n) => ~InStream(r, n))
        /\ (InStream(r, u)' <=> InStream(r, u) \/ New(r, u)) /\ (New(r, u) => ~InStream(r, u))
    BY <2>2, <2>3 DEF u
  <2> QED BY <1>3, <2>1, <2>4, <2>5, <2>7, <2>8 DEF One
<1> QED BY <1>4, <1>5

-----------------------------------------------------------------------------
(* The blocks.                                                             *)

\* A host is past the first barrier only when all blocks are initialised.
LEMMA PastStart ==
  ASSUME Hosts, Barriers, NEW r \in Rank, pos[r].iter >= 0, NEW q \in Rank
  PROVE  pos[q].iter >= 0 \/ (pos[q].iter = -1 /\ pos[q].step = 3)
<1> DEFINE p == [iter |-> -1, phase |-> 0, step |-> 3]
<1>1. p \in Place BY Constants DEF Place
<1>2. mode \in ModeNames /\ pos[r] \in Place /\ pos[q] \in Place /\ Position(pos[q]) BY DEF Hosts
<1>3. p # Done BY Constants DEF Done
<1>4. Steps(p) = <<"init", "sync", "barrier">> BY DEF Steps
<1>5. Position(p) /\ BarrierAt(p) BY <1>4, Constants DEF Position, BarrierAt, LastSection
<1>6. AtLeast(pos[r], p) /\ pos[r] # p BY <1>2 DEF AtLeast, Place
<1>7. AtLeast(pos[q], p) BY <1>1, <1>3, <1>5, <1>6 DEF Barriers, Place
<1>8. pos[q].iter = -1 => pos[q].step \in 1 .. 3 /\ pos[q].phase = 0
  BY <1>2, Sections, Constants DEF Iterating
<1> QED BY <1>2, <1>7, <1>8, Constants DEF AtLeast, Place

LEMMA HostInitialised ==
  ASSUME Hosts, Queues, Streams, NEW h \in Rank, Host(h), NEW r \in Rank, Initialised(r)'
  PROVE  Initialised(r)
<1> DEFINE p == pos[r]  o == pos'[r]
<1>1. /\ pos[h] # Done /\ GoOn(h) /\ mode' = mode /\ ipc' = ipc BY HostEffect DEF Effect
<1>2. /\ pos'[h] = Following(pos[h]) /\ \A b \in Rank : b # h => pos'[b] = pos[b]
  BY <1>1, HostPositions
<1>3. CASE r # h BY <1>2, <1>3, HostQueue DEF Initialised
<1>4. CASE r = h
  <2>0. mode \in ModeNames /\ p \in Place /\ Position(p) BY DEF Hosts
  <2>1. CASE p.iter >= 0 BY <2>1 DEF Initialised
  <2>2. CASE p.iter = -1 /\ p.step = 3 BY <2>2 DEF Initialised
  <2>3. CASE p.iter = -1 /\ p.step = 2
    <3>1. What(p) = "sync" BY <1>1, <1>4, <2>0, <2>3, Where, Constants DEF Iterating, InPhases
    <3>2. Drained(r) BY <1>4, <3>1, HostEffect DEF Effect
    <3> QED BY <2>3, <3>2 DEF Initialised, Drained
  <2>4. CASE p.iter = -1 /\ p.step = 1
    <3>1. What(p) = "init" BY <1>1, <1>4, <2>0, <2>4, Where, Constants DEF Iterating, InPhases
    <3>2. New(r, <<"init", r>>) BY <3>1 DEF New
    <3>3. InStream(r, <<"init", r>>)' BY <1>4, <3>2, HostQueue
    <3>4. stream'[r] # <<>>
      <4>1. SUFFICES ASSUME stream'[r] = <<>> PROVE FALSE OBVIOUS
      <4>2. Len(stream'[r]) = 0 BY <4>1
      <4> QED BY <3>3, <4>2 DEF InStream
    <3>5. o = [iter |-> -1, phase |-> 0, step |-> 2]
      BY <1>1, <1>2, <1>4, <2>0, <2>4, HostStep, Constants DEF Iterating, InPhases
    <3> QED BY <3>4, <3>5 DEF Initialised
  <2>5. p.iter = -1 => p.step \in {1, 2, 3} BY <2>0, Sections, Constants DEF Iterating
  <2>6. p.iter >= 0 \/ p.iter = -1 BY <2>0, Constants DEF Place
  <2> QED BY <2>1, <2>2, <2>3, <2>4, <2>5, <2>6
<1> QED BY <1>3, <1>4

LEMMA HostBlocks ==
  ASSUME Hosts, Queues, Streams, Blocks, NEW h \in Rank, Host(h)
  PROVE  Blocks'
<1>1. A' = A /\ B' = B BY HostEffect DEF Effect
<1>2. ASSUME NEW r \in Rank, NEW q \in Rank, Initialised(r)'
      PROVE  /\ A'[r][q] = Written(r, q)'
             /\ B'[r][q] = IF Straight(q, r)' THEN Written(q, r)' ELSE Unpacked(r, q)'
  <2>1. Initialised(r) BY <1>2, HostInitialised
  <2>2. /\ A[r][q] = Written(r, q)
        /\ B[r][q] = IF Straight(q, r) THEN Written(q, r) ELSE Unpacked(r, q)
    BY <2>1 DEF Blocks
  <2>3. ~Straight(q, r) => q # r BY DEF Straight
  <2>4. Written(r, q)' = Written(r, q) /\ Written(q, r)' = Written(q, r)
        /\ (Straight(q, r)' <=> Straight(q, r))
        /\ (q # r /\ ~Straight(q, r) => Unpacked(r, q)' = Unpacked(r, q))
    BY HostCounts
  <2> QED BY <1>1, <2>2, <2>3, <2>4
<1> QED BY <1>2 DEF Blocks

BlockValue == {None} \cup 0 .. Total
Buffers ==
  /\ sendBuf \in [Rank -> Block] /\ recvBuf \in [Rank -> Block] /\ fbRecv \in [Rank -> Block]
  /\ hostSend \in [Rank -> Block] /\ hostRecv \in [Rank -> Block]
Matrices == A \in [Rank -> [Rank -> BlockValue]] /\ B \in [Rank -> [Rank -> BlockValue]]
Mail == posted \in [Rank -> Rank \cup {None}] /\ msgs \in [Rank -> [Rank -> Seq(Block)]]
Conf ==
  /\ mode \in Modes /\ ipc \in Mappings /\ (TwoSided => ipc = {})
  /\ (mode = "single" => \A r, q \in Rank : r # q => IpcOk(r, q))

LEMMA TypesAre == Types <=> Hosts /\ Queues /\ Conf /\ Buffers /\ Matrices /\ Mail
<1>1. ASSUME Types PROVE Hosts /\ Queues /\ Conf /\ Buffers /\ Matrices /\ Mail
  <2>1. Hosts /\ Queues BY <1>1, TypesGive
  <2>2. Conf BY <1>1 DEF Types, TypeOK, Conf
  <2>3. Buffers BY <1>1 DEF Types, TypeOK, Buffers
  <2>4. Matrices /\ Mail BY <1>1 DEF Types, TypeOK, Matrices, Mail, BlockValue
  <2> QED BY <2>1, <2>2, <2>3, <2>4
<1>2. ASSUME Hosts, Queues, Conf, Buffers, Matrices, Mail PROVE Types
  <2>1. ASSUME NEW r \in Rank, NEW i \in DOMAIN stream[r] PROVE stream[r][i] \in Op
    BY <1>2 DEF Queues
  <2>2. ASSUME NEW q \in Rank, NEW r \in Rank, NEW i \in DOMAIN msgs[q][r] PROVE msgs[q][r][i] \in Block
    BY <1>2 DEF Mail
  <2>3. pos \in [Rank -> [iter : -1 .. Total, phase : 0 .. P, step : 1 .. 12]] BY <1>2 DEF Hosts, Place
  <2>4. TypeOK BY <1>2, <2>1, <2>2, <2>3 DEF TypeOK, Conf, Buffers, Matrices, Mail, BlockValue, Op
  <2> QED BY <1>2, <2>4 DEF Types, Hosts, Queues, Conf, Mail
<1> QED BY <1>1, <1>2


\* What running an operation changes of the counts.
LEMMA RunCounts ==
  ASSUME Hosts, Queues, Streams, NEW h \in Rank, Run(h), NEW r \in Rank, NEW q \in Rank
  PROVE  /\ Written(r, q)' = Written(r, q) + One(r = h /\ Head(stream[h]) = Moved(h, q))
         /\ Unpacked(r, q)' = Unpacked(r, q) + One(r = h /\ Head(stream[h]) = <<"unpack", q>>)
         /\ Straight(r, q)' <=> Straight(r, q)
         /\ Initialised(r)' => Initialised(r) \/ (r = h /\ Head(stream[h]) = <<"init", h>>)
<1> DEFINE m == Moved(r, q)  u == <<"unpack", q>>  e == Head(stream[h])
<1>a. PICK n : n = m OBVIOUS
<1>1. /\ mode' = mode /\ ipc' = ipc /\ pos' = pos
      /\ e \in Op /\ InStream(h, e) /\ MayRun(h, e)
      /\ \A b \in Rank : b # h => stream'[b] = stream[b]
      /\ \A op : InStream(h, op)' <=> InStream(h, op) /\ op # e
  BY RunQueue
<1>2. Straight(r, q)' <=> Straight(r, q) BY <1>1 DEF Straight, IpcOk
<1>3. /\ Written(r, q)' = Launching(r, q)' - One(InStream(r, n)')
      /\ Unpacked(r, q)' = Times(pos'[r], Meeting(q, r), UnpackStep) - One(InStream(r, u)')
      /\ Written(r, q) = Launching(r, q) - One(InStream(r, n))
      /\ Unpacked(r, q) = Times(pos[r], Meeting(q, r), UnpackStep) - One(InStream(r, u))
      /\ Launching(r, q)' = Launching(r, q)
  BY <1>1, <1>a, CountsNext, OtherCounts DEF Written, Unpacked
<1>4. UnpackStep \in Nat BY DEF UnpackStep
<1>5. Launching(r, q) \in Int /\ Times(pos[r], Meeting(q, r), UnpackStep) \in Int
  BY <1>4, CountType
<1>6. CASE r # h
  <2>1. \A op : InStream(r, op)' <=> InStream(r, op) BY <1>1, <1>6, OtherStreams
  <2>2. (InStream(r, n)' <=> InStream(r, n)) /\ (InStream(r, u)' <=> InStream(r, u)) BY <2>1
  <2>3. Initialised(r)' => Initialised(r) BY <1>1, <1>6 DEF Initialised
  <2> HIDE DEF m, u, e
  <2> QED BY <1>1, <1>2, <1>3, <1>5, <1>6, <2>2, <2>3 DEF One
<1>7. CASE r = h
  <2>1. /\ InStream(r, n)' <=> InStream(r, n) /\ n # e
        /\ InStream(r, u)' <=> InStream(r, u) /\ u # e
        /\ e = n => InStream(r, n)
        /\ e = u => InStream(r, u)
    BY <1>1, <1>7
  <2>2. Initialised(r)' => Initialised(r) \/ e = <<"init", h>>
    <3>1. pos[r].iter = -1 => e = <<"init", h>> BY <1>1, <1>7, Constants DEF MayRun, InPhase
    <3>2. pos[r].iter = -1 \/ pos[r].iter >= 0 BY Constants DEF Hosts, Place
    <3> QED BY <3>1, <3>2 DEF Initialised
  <2>3. e = Moved(h, q) <=> e = n BY <1>7, <1>a
  <2>4. UnpackStep \in Nat BY DEF UnpackStep
  <2> HIDE DEF m, e
  <2>5. Written(r, q)' = Written(r, q) + One(e = n)
    BY <1>3, <1>5, <2>1 DEF One
  <2>6. Unpacked(r, q)' = Unpacked(r, q) + One(e = u)
    BY <1>1, <1>3, <1>5, <2>1 DEF One
  <2> QED BY <1>2, <1>7, <2>2, <2>3, <2>5, <2>6 DEF e, One
<1> QED BY <1>6, <1>7

LEMMA RunKind ==
  ASSUME Hosts, Queues, Streams, NEW h \in Rank, Run(h)
  PROVE  \E q \in Rank :
           \/ Head(stream[h]) = <<"init", h>> /\ q = h /\ InitKernel(h)
           \/ Head(stream[h]) = <<"write", q>> /\ Moved(h, q) = <<"write", q>> /\ Write(h, q)
           \/ /\ Head(stream[h]) = <<"pack", q>> /\ Moved(h, q) = <<"pack", q>> /\ Pack(h, q)
              /\ q # h /\ InPhase(h) /\ mode # "single" /\ pos[h].phase = Meeting(h, q)
              /\ pos[h].step = PackStep + 1
           \/ /\ Head(stream[h]) = <<"copy", q>> /\ Copy(h, q)
              /\ q # h /\ InPhase(h) /\ mode = "buffered" /\ IpcOk(h, q)
              /\ pos[h].phase = Meeting(h, q) /\ pos[h].step = 5
           \/ Head(stream[h]) = <<"unpack", q>> /\ Unpack(h, q) /\ q # h /\ ~Straight(q, h)
<1> DEFINE e == Head(stream[h])  q == e[2]
<1>1. e \in Op /\ MayRun(h, e) BY RunQueue
<1>2. q \in Rank /\ e = <<e[1], q>> BY <1>1 DEF Op
<1>3. \/ e[1] = "init" /\ InitKernel(h)
      \/ e[1] = "write" /\ Write(h, q)
      \/ e[1] = "pack" /\ Pack(h, q)
      \/ e[1] = "copy" /\ Copy(h, q)
      \/ e[1] = "unpack" /\ Unpack(h, q)
  BY DEF Run
<1> HIDE DEF q, e
<1>4. CASE e[1] = "init" /\ InitKernel(h)
  <2>1. e = <<"init", h>> BY <1>1, <1>4 DEF MayRun
  <2> QED BY <1>4, <2>1 DEF e
<1>5. CASE e[1] = "write" /\ Write(h, q)
  <2>1. e = Moved(h, q) BY <1>1, <1>5 DEF MayRun, q
  <2> QED BY <1>2, <1>5, <2>1 DEF e
<1>6. CASE e[1] = "pack" /\ Pack(h, q)
  <2>1. /\ e = Moved(h, q) /\ InPhase(h)
        /\ \/ q = h /\ pos[h].phase = 1
           \/ q # h /\ pos[h].step = PackStep + 1 /\ (mode # "single" => pos[h].phase = Meeting(h, q))
    BY <1>1, <1>6 DEF MayRun, q
  <2>2. ~Straight(h, q) BY <1>6, <2>1 DEF Moved
  <2>3. q # h /\ mode # "single" BY <2>2 DEF Straight
  <2> QED BY <1>2, <1>6, <2>1, <2>3 DEF e
<1>7. CASE e[1] = "copy" /\ Copy(h, q)
  <2>1. /\ mode = "buffered" /\ InPhase(h) /\ q # h /\ IpcOk(h, q)
        /\ pos[h].phase = Meeting(h, q) /\ pos[h].step = 5
    BY <1>1, <1>7 DEF MayRun, q
  <2> QED BY <1>2, <1>7, <2>1 DEF e
<1>8. CASE e[1] = "unpack" /\ Unpack(h, q)
  <2>1. q # h /\ ~Straight(q, h) BY <1>1, <1>8 DEF MayRun, q
  <2> QED BY <1>2, <1>8, <2>1 DEF e
<1> QED BY <1>3, <1>4, <1>5, <1>6, <1>7, <1>8

\* A block in flight is worth the iteration, and so is what it is added to.
LEMMA InFlightValue ==
  ASSUME Hosts, Queues, Streams, Barriers, Blocks, NEW r \in Rank, NEW q \in Rank
  PROVE  /\ InStream(r, Moved(r, q)) =>
              /\ pos[r].iter \in 0 .. Total - 1 /\ Initialised(r) /\ Initialised(q)
              /\ A[r][q] = pos[r].iter /\ Written(r, q) = pos[r].iter
              /\ Straight(r, q) => B[q][r] = pos[r].iter
         /\ InStream(r, <<"unpack", q>>) =>
              /\ pos[r].iter \in 0 .. Total - 1 /\ Initialised(r) /\ q # r /\ ~Straight(q, r)
              /\ B[r][q] = pos[r].iter /\ Unpacked(r, q) = pos[r].iter
<1> USE Constants
<1>1. ASSUME InStream(r, Moved(r, q))
      PROVE  /\ pos[r].iter \in 0 .. Total - 1 /\ Initialised(r) /\ Initialised(q)
             /\ A[r][q] = pos[r].iter /\ Written(r, q) = pos[r].iter
             /\ Straight(r, q) => B[q][r] = pos[r].iter
  <2>1. MayRun(r, Moved(r, q)) BY <1>1, StreamsByOp
  <2>2. Iterating(pos[r]) /\ Launching(r, q) = pos[r].iter + 1 BY <2>1, InFlight
  <2>3. pos[r].iter \in 0 .. Total - 1 BY <2>2 DEF Iterating
  <2>4. Initialised(r) BY <2>3 DEF Initialised
  <2>5. Initialised(q) BY <2>3, PastStart DEF Initialised
  <2>6. Written(r, q) = pos[r].iter BY <1>1, <2>2, <2>3 DEF Written, One
  <2> QED BY <2>3, <2>4, <2>5, <2>6 DEF Blocks
<1>2. ASSUME InStream(r, <<"unpack", q>>)
      PROVE  /\ pos[r].iter \in 0 .. Total - 1 /\ Initialised(r) /\ q # r /\ ~Straight(q, r)
             /\ B[r][q] = pos[r].iter /\ Unpacked(r, q) = pos[r].iter
  <2>1. MayRun(r, <<"unpack", q>>) BY <1>2, StreamsByOp
  <2>2. /\ Iterating(pos[r]) /\ q # r /\ ~Straight(q, r)
        /\ Times(pos[r], Meeting(q, r), UnpackStep) = pos[r].iter + 1
    BY <2>1, InFlight
  <2>3. pos[r].iter \in 0 .. Total - 1 BY <2>2 DEF Iterating
  <2>4. Initialised(r) BY <2>3 DEF Initialised
  <2>5. Unpacked(r, q) = pos[r].iter BY <1>2, <2>2, <2>3 DEF Unpacked, One
  <2> QED BY <2>2, <2>3, <2>4, <2>5 DEF Blocks
<1> QED BY <1>1, <1>2

LEMMA NothingYet ==
  ASSUME Hosts, Queues, Streams, NEW r \in Rank, pos[r].iter = -1, NEW q \in Rank
  PROVE  Written(r, q) = 0 /\ Unpacked(r, q) = 0
<1> USE Constants
<1>1. ~InStream(r, Moved(r, q)) /\ ~InStream(r, <<"unpack", q>>)
  BY StreamsByOp, InFlight DEF Iterating
<1>2. \A k, s : Times(pos[r], k, s) = 0 BY DEF Times
<1>3. Launching(r, q) = 0 BY <1>2 DEF Launching
<1>4. Times(pos[r], Meeting(q, r), UnpackStep) = 0 BY Zenon, <1>2
<1>5. One(InStream(r, Moved(r, q))) = 0 /\ One(InStream(r, <<"unpack", q>>)) = 0 BY <1>1 DEF One
<1> QED BY <1>3, <1>4, <1>5 DEF Written, Unpacked

LEMMA RunBlocks ==
  ASSUME Hosts, Queues, Streams, Barriers, Blocks, Matrices, UnpacksExact, NEW h \in Rank, Run(h)
  PROVE  Blocks' /\ Matrices'
<1> DEFINE e == Head(stream[h])
<1> USE Constants
<1>0. /\ InStream(h, e) /\ MayRun(h, e)
      /\ A \in [Rank -> [Rank -> BlockValue]] /\ B \in [Rank -> [Rank -> BlockValue]]
  BY RunQueue DEF Matrices
<1>a. \A r, q \in Rank :
        /\ Written(r, q)' = Written(r, q) + One(r = h /\ e = Moved(h, q))
        /\ Unpacked(r, q)' = Unpacked(r, q) + One(r = h /\ e = <<"unpack", q>>)
        /\ Straight(r, q)' <=> Straight(r, q)
        /\ Initialised(r)' => Initialised(r) \/ (r = h /\ e = <<"init", h>>)
  BY RunCounts
<1>b. \A r, q \in Rank : Initialised(r) =>
        /\ A[r][q] = Written(r, q)
        /\ B[r][q] = IF Straight(q, r) THEN Written(q, r) ELSE Unpacked(r, q)
  BY DEF Blocks
<1>c. \A q : \/ Moved(h, q) = <<"write", q>> /\ Straight(h, q)
             \/ Moved(h, q) = <<"pack", q>> /\ ~Straight(h, q)
  BY DEF Moved
<1> DEFINE Good(r, q) == /\ A'[r][q] = Written(r, q)'
                         /\ B'[r][q] = IF Straight(q, r)' THEN Written(q, r)' ELSE Unpacked(r, q)'
<1>d. SUFFICES /\ \A r, q \in Rank : Initialised(r)' => Good(r, q)
               /\ A' \in [Rank -> [Rank -> BlockValue]] /\ B' \in [Rank -> [Rank -> BlockValue]]
  BY DEF Blocks, Matrices, BlockValue, None
<1>e. \A r, q \in Rank : Written(r, q) + 0 = Written(r, q) /\ Unpacked(r, q) + 0 = Unpacked(r, q)
  <2>1. UnpackStep \in Nat BY DEF UnpackStep
  <2>2. \A r, q \in Rank : Launching(r, q) \in Int /\ Times(pos[r], Meeting(q, r), UnpackStep) \in Int
    BY <2>1, CountType
  <2> QED BY <2>2 DEF Written, Unpacked, One
<1>1. PICK q \in Rank :
           \/ e = <<"init", h>> /\ q = h /\ InitKernel(h)
           \/ e = <<"write", q>> /\ Moved(h, q) = <<"write", q>> /\ Write(h, q)
           \/ e = <<"pack", q>> /\ Moved(h, q) = <<"pack", q>> /\ Pack(h, q)
           \/ e = <<"copy", q>> /\ Copy(h, q)
           \/ e = <<"unpack", q>> /\ Unpack(h, q) /\ q # h /\ ~Straight(q, h)
  BY RunKind
<1> HIDE DEF e, Good
<1>2. CASE e = <<"init", h>> /\ InitKernel(h)
  <2>1. /\ A' = [A EXCEPT ![h] = [x \in Rank |-> 0]] /\ B' = [B EXCEPT ![h] = [x \in Rank |-> 0]]
    BY <1>2 DEF InitKernel
  <2>2. \A r, x \in Rank : Written(r, x)' = Written(r, x) /\ Unpacked(r, x)' = Unpacked(r, x)
    BY <1>2, <1>a, <1>c, <1>e DEF One
  <2>3. pos[h] = [iter |-> -1, phase |-> 0, step |-> 2] BY <1>0, <1>2, <1>c DEF MayRun
  <2>4. \A x \in Rank : pos[x].iter = -1
    <3>1. \A x \in Rank : ~(pos[x].iter >= 0) BY <2>3, PastStart
    <3> QED BY <3>1 DEF Hosts, Place
  <2>5. \A r, x \in Rank : Written(r, x) = 0 /\ Unpacked(r, x) = 0 BY <2>4, NothingYet
  <2>6. ASSUME NEW r \in Rank, NEW x \in Rank, Initialised(r)' PROVE Good(r, x)
    <3>1. CASE r = h BY <1>0, <2>1, <2>2, <2>5, <3>1 DEF Good
    <3>2. CASE r # h
      <4>1. Initialised(r) BY <1>a, <2>6, <3>2
      <4>2. A'[r][x] = A[r][x] /\ B'[r][x] = B[r][x] BY <1>0, <2>1, <3>2
      <4> QED BY <1>a, <1>b, <2>2, <4>1, <4>2 DEF Good
    <3> QED BY <3>1, <3>2
  <2>7. A' \in [Rank -> [Rank -> BlockValue]] /\ B' \in [Rank -> [Rank -> BlockValue]]
    BY <1>0, <2>1 DEF BlockValue
  <2> QED BY <2>6, <2>7
<1>3. CASE e = <<"write", q>> /\ Moved(h, q) = <<"write", q>> /\ Write(h, q)
  <2>1. /\ A' = [A EXCEPT ![h][q] = @ + 1] /\ B' = [B EXCEPT ![q][h] = Sum(@, A[h][q])]
    BY <1>3 DEF Write
  <2>2. Straight(h, q) BY <1>3, <1>c
  <2>3. /\ pos[h].iter \in 0 .. Total - 1 /\ A[h][q] = pos[h].iter /\ B[q][h] = pos[h].iter
        /\ Written(h, q) = pos[h].iter
    BY <1>0, <1>3, <2>2, InFlightValue
  <2>4. Sum(B[q][h], A[h][q]) = pos[h].iter + 1 BY <2>3 DEF Sum, None
  <2>5. \A x \in Rank : e = Moved(h, x) <=> x = q BY <1>3, <1>c
  <2>6. \A r, x \in Rank : /\ Unpacked(r, x)' = Unpacked(r, x)
                           /\ r # h \/ x # q => Written(r, x)' = Written(r, x)
    BY <1>3, <1>a, <1>e, <2>5 DEF One
  <2>7. Written(h, q)' = pos[h].iter + 1 BY <1>a, <2>3, <2>5 DEF One
  <2>8. ASSUME NEW r \in Rank, NEW x \in Rank
        PROVE  /\ A'[r][x] = IF r = h /\ x = q THEN pos[h].iter + 1 ELSE A[r][x]
               /\ B'[r][x] = IF r = q /\ x = h THEN pos[h].iter + 1 ELSE B[r][x]
    BY <1>0, <2>1, <2>3, <2>4
  <2>9. ASSUME NEW r \in Rank, NEW x \in Rank, Initialised(r)' PROVE Good(r, x)
    <3>1. Initialised(r) BY <1>3, <1>a, <2>9
    <3>2. A'[r][x] = Written(r, x)' BY <1>b, <2>6, <2>7, <2>8, <3>1
    <3>3. B'[r][x] = IF Straight(x, r)' THEN Written(x, r)' ELSE Unpacked(r, x)'
      <4>1. CASE r = q /\ x = h BY <1>a, <2>2, <2>7, <2>8, <4>1
      <4>2. CASE ~(r = q /\ x = h) BY <1>a, <1>b, <2>6, <2>8, <3>1, <4>2
      <4> QED BY <4>1, <4>2
    <3> QED BY <3>2, <3>3 DEF Good
  <2>10. A' \in [Rank -> [Rank -> BlockValue]] /\ B' \in [Rank -> [Rank -> BlockValue]]
    BY <1>0, <2>1, <2>3, <2>4 DEF BlockValue
  <2> QED BY <2>9, <2>10
<1>4. CASE e = <<"pack", q>> /\ Moved(h, q) = <<"pack", q>> /\ Pack(h, q)
  <2>1. A' = [A EXCEPT ![h][q] = @ + 1] /\ B' = B BY <1>4 DEF Pack
  <2>2. ~Straight(h, q) BY <1>4, <1>c
  <2>3. /\ pos[h].iter \in 0 .. Total - 1 /\ A[h][q] = pos[h].iter /\ Written(h, q) = pos[h].iter
    BY <1>0, <1>4, InFlightValue
  <2>5. \A x \in Rank : e = Moved(h, x) <=> x = q BY <1>4, <1>c
  <2>6. \A r, x \in Rank : /\ Unpacked(r, x)' = Unpacked(r, x)
                           /\ r # h \/ x # q => Written(r, x)' = Written(r, x)
    BY <1>4, <1>a, <1>e, <2>5 DEF One
  <2>7. Written(h, q)' = pos[h].iter + 1 BY <1>a, <2>3, <2>5 DEF One
  <2>8. ASSUME NEW r \in Rank, NEW x \in Rank
        PROVE  A'[r][x] = IF r = h /\ x = q THEN pos[h].iter + 1 ELSE A[r][x]
    BY <1>0, <2>1, <2>3
  <2>9. ASSUME NEW r \in Rank, NEW x \in Rank, Initialised(r)' PROVE Good(r, x)
    <3>1. Initialised(r) BY <1>4, <1>a, <2>9
    <3>2. A'[r][x] = Written(r, x)' BY <1>b, <2>6, <2>7, <2>8, <3>1
    <3>3. B'[r][x] = IF Straight(x, r)' THEN Written(x, r)' ELSE Unpacked(r, x)'
      BY <1>a, <1>b, <2>1, <2>2, <2>6, <3>1
    <3> QED BY <3>2, <3>3 DEF Good
  <2>10. A' \in [Rank -> [Rank -> BlockValue]] /\ B' \in [Rank -> [Rank -> BlockValue]]
    BY <1>0, <2>1, <2>3 DEF BlockValue
  <2> QED BY <2>9, <2>10
<1>5. CASE e = <<"copy", q>> /\ Copy(h, q)
  <2>1. A' = A /\ B' = B BY <1>5 DEF Copy
  <2>2. \A r, x \in Rank : Written(r, x)' = Written(r, x) /\ Unpacked(r, x)' = Unpacked(r, x)
    BY <1>5, <1>a, <1>c, <1>e DEF One
  <2>3. ASSUME NEW r \in Rank, NEW x \in Rank, Initialised(r)' PROVE Good(r, x)
    <3>1. Initialised(r) BY <1>5, <1>a, <2>3
    <3> QED BY <1>a, <1>b, <2>1, <2>2, <3>1 DEF Good
  <2> QED BY <1>0, <2>1, <2>3
<1>6. CASE e = <<"unpack", q>> /\ Unpack(h, q) /\ q # h /\ ~Straight(q, h)
  <2>1. /\ A' = A
        /\ B' = [B EXCEPT ![h][q] = IF Source(h, q).from = q /\ Source(h, q).to = h
                                    THEN Sum(@, Source(h, q).value) ELSE None]
    BY <1>6 DEF Unpack
  <2>2. pos[h].iter \in 0 .. Total - 1 /\ B[h][q] = pos[h].iter /\ Unpacked(h, q) = pos[h].iter
    BY <1>0, <1>6, InFlightValue
  <2>3. Source(h, q) = [from |-> q, to |-> h, value |-> B[h][q]]
    <3>1. PICK i \in 1 .. Len(stream[h]) : stream[h][i] = <<"unpack", q>>
      BY <1>0, <1>6 DEF InStream
    <3>2. i \in DOMAIN stream[h] BY <3>1 DEF Queues
    <3>3. stream[h][i][1] = "unpack" /\ stream[h][i][2] = q BY <3>1
    <3>4. LET x == stream[h][i][2] IN Source(h, x) = [from |-> x, to |-> h, value |-> B[h][x]]
      BY Zenon, <3>2, <3>3 DEF UnpacksExact
    <3> QED BY <3>3, <3>4
  <2>a. /\ Source(h, q).from = q /\ Source(h, q).to = h /\ Source(h, q).value = pos[h].iter
    BY <2>2, <2>3
  <2>b. Sum(B[h][q], Source(h, q).value) = pos[h].iter + 1 BY <2>2, <2>a DEF Sum, None
  <2>4. B' = [B EXCEPT ![h][q] = pos[h].iter + 1] BY <2>1, <2>a, <2>b
  <2>5. \A x \in Rank : e # Moved(h, x) BY <1>6, <1>c
  <2>6. \A r, x \in Rank : /\ Written(r, x)' = Written(r, x)
                           /\ r # h \/ x # q => Unpacked(r, x)' = Unpacked(r, x)
    BY <1>6, <1>a, <1>e, <2>5 DEF One
  <2>7. Unpacked(h, q)' = pos[h].iter + 1 BY <1>6, <1>a, <2>2 DEF One
  <2>8. ASSUME NEW r \in Rank, NEW x \in Rank
        PROVE  B'[r][x] = IF r = h /\ x = q THEN pos[h].iter + 1 ELSE B[r][x]
    BY <1>0, <2>4
  <2>9. ASSUME NEW r \in Rank, NEW x \in Rank, Initialised(r)' PROVE Good(r, x)
    <3>1. Initialised(r) BY <1>6, <1>a, <2>9
    <3>2. A'[r][x] = Written(r, x)' BY <1>b, <2>1, <2>6, <3>1
    <3>3. B'[r][x] = IF Straight(x, r)' THEN Written(x, r)' ELSE Unpacked(r, x)'
      BY <1>6, <1>a, <1>b, <2>6, <2>7, <2>8, <3>1
    <3> QED BY <3>2, <3>3 DEF Good
  <2>10. B' \in [Rank -> [Rank -> BlockValue]] BY <1>0, <2>2, <2>4 DEF BlockValue
  <2> QED BY <1>0, <2>1, <2>9, <2>10
<1> QED BY <1>1, <1>2, <1>3, <1>4, <1>5, <1>6

-----------------------------------------------------------------------------
(* The send buffers.                                                       *)

\* Past the first step of a phase a host was in that phase before.
LEMMA SamePhase ==
  ASSUME Hosts, NEW h \in Rank, pos[h] # Done, pos'[h] = Following(pos[h]), mode' = mode,
         InPhase(h)', pos'[h].step > 1
  PROVE  /\ InPhase(h) /\ InPhases(pos[h]) /\ pos[h].step \in 1 .. PhaseLen
         /\ pos'[h].iter = pos[h].iter /\ pos'[h].phase = pos[h].phase
         /\ pos'[h].step = pos[h].step + 1
         /\ send_to(h)' = send_to(h) /\ recv_from(h)' = recv_from(h)
<1> DEFINE p == pos[h]  o == pos'[h]
<1> USE Constants, Phases, PhaseLength
<1>1. mode \in ModeNames /\ p \in Place /\ Position(p) BY DEF Hosts
<1>2. o.iter \in 0 .. Total - 1 /\ o.phase \in 1 .. LastPhase BY SameMode DEF InPhase
<1>3. InPhases(p) /\ p.step < PhaseLen /\ o = [iter |-> p.iter, phase |-> p.phase, step |-> p.step + 1]
  BY <1>1, <1>2, HostStep DEF Iterating, InPhases
<1>4. p.step \in 1 .. PhaseLen BY <1>1, <1>3, PhasePlaces
<1>5. send_to(h)' = send_to(h) /\ recv_from(h)' = recv_from(h)
  BY <1>3 DEF send_to, recv_from, phase
<1> QED BY <1>3, <1>4, <1>5, InPhaseIs

LEMMA OtherPhase ==
  ASSUME NEW r, pos'[r] = pos[r], mode' = mode
  PROVE  /\ InPhase(r)' <=> InPhase(r)
         /\ send_to(r)' = send_to(r) /\ recv_from(r)' = recv_from(r)
BY SameMode DEF InPhase, send_to, recv_from, phase

SendBufOf(r, q, i, s) ==
  LET b == [from |-> r, to |-> q, value |-> i] IN
  /\ ~Straight(r, q) /\ s > PackStep /\ ~InStream(r, <<"pack", q>>) => sendBuf[r] = b
  /\ mode = "staged" /\ s > 3 => hostSend[r] = b

LEMMA SendBufsAre ==
  SendBufs <=> \A r \in Rank : InPhase(r) /\ mode # "single" =>
                 SendBufOf(r, send_to(r), pos[r].iter, pos[r].step)
BY Zenon DEF SendBufs, SendBufOf

LEMMA SendBufsNext ==
  ASSUME mode' = mode,
         \A r \in Rank : InPhase(r)' /\ mode # "single" =>
           \A q, i, s : q = send_to(r)' /\ i = pos'[r].iter /\ s = pos'[r].step
                          => SendBufOf(r, q, i, s)'
  PROVE  SendBufs'
<1> SUFFICES ASSUME NEW r \in Rank, InPhase(r)', mode' # "single"
             PROVE  LET q == send_to(r)'  b == [from |-> r, to |-> q, value |-> pos'[r].iter] IN
                    /\ ~Straight(r, send_to(r))' /\ pos'[r].step > PackStep' /\ ~InStream(r, <<"pack", send_to(r)>>)' => sendBuf'[r] = b
                    /\ mode' = "staged" /\ pos'[r].step > 3 => hostSend'[r] = b
  BY Zenon DEF SendBufs
<1>1. PICK q, i, s : q = send_to(r)' /\ i = pos'[r].iter /\ s = pos'[r].step OBVIOUS
<1>2. SendBufOf(r, q, i, s)' BY <1>1
<1> QED BY <1>1, <1>2 DEF SendBufOf, Straight, InStream, IpcOk

LEMMA HostSendBufs ==
  ASSUME Hosts, Queues, Conf, Streams, Buffers, SendBufs, NEW h \in Rank, Host(h)
  PROVE  SendBufs'
<1> DEFINE p == pos[h]  w == What(p)
<1>0. Effect(h, w) BY HostEffect
<1>1. /\ pos[h] # Done /\ GoOn(h) /\ mode' = mode /\ ipc' = ipc /\ sendBuf' = sendBuf
      /\ IF w = "d2h" THEN hostSend' = [hostSend EXCEPT ![h] = sendBuf[h]] ELSE hostSend' = hostSend
  BY <1>0 DEF Effect
<1>2. /\ pos'[h] = Following(pos[h]) /\ \A b \in Rank : b # h => pos'[b] = pos[b]
  BY <1>1, HostPositions
<1>3. mode \in ModeNames /\ p \in Place /\ Position(p) BY DEF Hosts
<1>4. ASSUME NEW r \in Rank, InPhase(r)', mode # "single", NEW q, NEW i, NEW s,
             q = send_to(r)', i = pos'[r].iter, s = pos'[r].step
      PROVE  SendBufOf(r, q, i, s)'
  <2>1. CASE r # h
    <3>1. pos'[r] = pos[r] /\ stream'[r] = stream[r] /\ hostSend'[r] = hostSend[r]
      BY <1>1, <1>2, <2>1, HostQueue DEF Buffers
    <3>2. InPhase(r) /\ q = send_to(r) BY <1>1, <1>4, <3>1, OtherPhase
    <3>3. SendBufOf(r, q, i, s) BY <1>4, <3>1, <3>2, SendBufsAre
    <3> QED BY <1>1, <3>1, <3>3, SameMode DEF SendBufOf, Straight, IpcOk, InStream
  <2>2. CASE r = h /\ s <= 1
    <3>1. PackStep' >= 1 BY DEF PackStep
    <3>2. ~(s > PackStep') /\ ~(s > 3)
      <4>1. s \in Nat BY <1>1, <1>4, HostPositions DEF Hosts, Place
      <4>2. PackStep' \in Nat BY DEF PackStep
      <4> QED BY <2>2, <3>1, <4>1, <4>2
    <3> QED BY <3>2 DEF SendBufOf
  <2>3. CASE r = h /\ ~(s <= 1)
    <3>1. s \in Nat BY <1>1, <1>4, HostPositions DEF Hosts, Place
    <3>2. /\ InPhase(h) /\ InPhases(p) /\ p.step \in 1 .. PhaseLen /\ i = p.iter /\ s = p.step + 1
          /\ q = send_to(h)
      BY <1>1, <1>2, <1>4, <2>3, <3>1, SamePhase
    <3>3. SendBufOf(h, q, i, p.step) BY <1>4, <3>2, SendBufsAre
    <3>4. q \in Rank /\ q # h BY <3>2, Peers
    <3>5. p.step \in Nat /\ PackStep \in 1 .. 4 /\ PackStep' = PackStep
      BY <1>1, <1>3, SameMode DEF Place, PackStep
    <3>6. InStream(h, <<"pack", q>>)' <=> InStream(h, <<"pack", q>>) \/ New(h, <<"pack", q>>)
      BY HostQueue
    <3>7. Straight(h, q)' <=> Straight(h, q) BY <1>1 DEF Straight, IpcOk
    <3>8. ASSUME ~Straight(h, q), s > PackStep, ~InStream(h, <<"pack", q>>)'
          PROVE  sendBuf[h] = [from |-> h, to |-> q, value |-> i]
      <4>1. CASE p.step = PackStep
        <5>1. w \in {"write", "pack"}
          <6>1. w \in {"write", "writeAll", "pack"} BY <1>3, <3>2, <4>1, NamedSteps
          <6>2. w # "writeAll" BY <1>3, <1>4, <3>2, PhasePlaces DEF PlaceOf
          <6> QED BY <6>1, <6>2
        <5>2. Moved(h, q) = <<"pack", q>> BY <3>8 DEF Moved
        <5>3. New(h, <<"pack", q>>) BY <3>2, <5>1, <5>2 DEF New
        <5> QED BY <3>6, <3>8, <5>3
      <4>2. CASE p.step # PackStep
        <5>1. p.step > PackStep BY <3>2, <3>5, <3>8, <4>2
        <5> QED BY <3>3, <3>6, <3>8, <5>1 DEF SendBufOf
      <4> QED BY <4>1, <4>2
    <3>9. ASSUME mode = "staged", s > 3
          PROVE  hostSend'[h] = [from |-> h, to |-> q, value |-> i]
      <4>1. CASE p.step = 3
        <5>1. w = "d2h" BY <1>3, <3>2, <3>9, <4>1, NamedSteps
        <5>2. hostSend'[h] = sendBuf[h] BY <1>1, <5>1 DEF Buffers
        <5>3. ~Straight(h, q)
          <6>1. ipc = {} BY <3>9 DEF Conf, TwoSided
          <6> QED BY <3>4, <3>9, <6>1 DEF Straight, IpcOk
        <5>4. ~InStream(h, <<"pack", q>>) BY <5>1, HostIdle
        <5>5. p.step > PackStep BY <3>9, <4>1 DEF PackStep
        <5> QED BY <3>3, <5>2, <5>3, <5>4, <5>5 DEF SendBufOf
      <4>2. CASE p.step # 3
        <5>1. p.step > 3 BY <3>2, <3>5, <3>9, <4>2
        <5>2. w # "d2h" BY <1>3, <3>2, <4>2, PhasePlaces DEF PlaceOf
        <5> QED BY <1>1, <3>3, <3>9, <5>1, <5>2 DEF SendBufOf
      <4> QED BY <4>1, <4>2
    <3> QED BY <1>1, <2>3, <3>5, <3>7, <3>8, <3>9 DEF SendBufOf
  <2> QED BY <2>1, <2>2, <2>3
<1>5. \A r \in Rank : InPhase(r)' /\ mode # "single" =>
        \A q, i, s : q = send_to(r)' /\ i = pos'[r].iter /\ s = pos'[r].step
                       => SendBufOf(r, q, i, s)'
  BY <1>4
<1> QED BY <1>1, <1>5, SendBufsNext

LEMMA RunSendBufs ==
  ASSUME Hosts, Queues, Streams, Barriers, Blocks, Buffers, SendBufs, NEW h \in Rank, Run(h)
  PROVE  SendBufs'
<1> DEFINE e == Head(stream[h])
<1>1. /\ mode' = mode /\ ipc' = ipc /\ pos' = pos /\ InStream(h, e)
      /\ \A r \in Rank : r # h => stream'[r] = stream[r]
      /\ \A op : InStream(h, op)' <=> InStream(h, op) /\ op # e
  BY RunQueue
<1>2. PICK q0 \in Rank :
           \/ e = <<"init", h>> /\ InitKernel(h)
           \/ e = <<"write", q0>> /\ Write(h, q0)
           \/ /\ e = <<"pack", q0>> /\ Moved(h, q0) = <<"pack", q0>> /\ Pack(h, q0)
              /\ q0 # h /\ InPhase(h) /\ pos[h].phase = Meeting(h, q0)
           \/ e = <<"copy", q0>> /\ Copy(h, q0)
           \/ e = <<"unpack", q0>> /\ Unpack(h, q0)
  BY RunKind
<1>3. hostSend' = hostSend
      /\ (e # <<"pack", q0>> => sendBuf' = sendBuf)
      /\ (e = <<"pack", q0>> =>
            sendBuf' = [sendBuf EXCEPT ![h] = [from |-> h, to |-> q0, value |-> A[h][q0]]])
  BY <1>2 DEF InitKernel, Write, Pack, Copy, Unpack, bufVars
<1>4. \A r \in Rank : send_to(r)' = send_to(r) /\ (InPhase(r)' <=> InPhase(r)) BY <1>1, OtherPhase
<1> HIDE DEF e
<1>5. ASSUME NEW r \in Rank, InPhase(r), mode # "single" PROVE SendBufOf(r, send_to(r), pos[r].iter, pos[r].step)
  BY <1>5, SendBufsAre
<1>6. ASSUME NEW r \in Rank, InPhase(r)', mode # "single", NEW q, NEW i, NEW s,
             q = send_to(r)', i = pos'[r].iter, s = pos'[r].step
      PROVE  SendBufOf(r, q, i, s)'
  <2>1. SendBufOf(r, q, i, s) /\ q = send_to(r) /\ InPhase(r) BY <1>1, <1>4, <1>5, <1>6
  <2>2. Straight(r, q)' <=> Straight(r, q) BY <1>1 DEF Straight, IpcOk
  <2>3. PackStep' = PackStep BY <1>1, SameMode
  <2>4. CASE r # h
    <3>1. InStream(r, <<"pack", q>>)' <=> InStream(r, <<"pack", q>>) BY <1>1, <2>4, OtherStreams
    <3>2. sendBuf'[r] = sendBuf[r] BY <1>3, <2>4 DEF Buffers
    <3> QED BY <1>1, <1>3, <2>1, <2>2, <2>3, <3>1, <3>2 DEF SendBufOf
  <2>5. CASE r = h /\ e = <<"pack", q0>>
    <3>1. q = q0
      <4>1. InPhases(pos[h]) BY <2>1, <2>5, InPhaseIs
      <4>2. pos[h].phase = Meeting(h, q0) /\ q0 # h BY <1>2, <2>5
      <4> QED BY <2>1, <2>5, <4>1, <4>2, Peers
    <3>2. A[h][q0] = i BY <1>1, <1>2, <1>6, <2>5, InFlightValue
    <3>3. sendBuf'[h] = [from |-> h, to |-> q, value |-> i] BY <1>3, <2>5, <3>1, <3>2 DEF Buffers
    <3> QED BY <1>1, <1>3, <2>1, <2>3, <2>5, <3>3 DEF SendBufOf
  <2>6. CASE r = h /\ e # <<"pack", q0>>
    <3>1. e # <<"pack", q>> BY <1>2, <2>6
    <3>2. InStream(r, <<"pack", q>>)' <=> InStream(r, <<"pack", q>>) BY <1>1, <2>6, <3>1
    <3> QED BY <1>1, <1>3, <2>1, <2>2, <2>3, <2>6, <3>2 DEF SendBufOf
  <2> QED BY <2>4, <2>5, <2>6
<1>7. \A r \in Rank : InPhase(r)' /\ mode # "single" =>
        \A q, i, s : q = send_to(r)' /\ i = pos'[r].iter /\ s = pos'[r].step
                       => SendBufOf(r, q, i, s)'
  BY <1>6
<1> QED BY <1>1, <1>7, SendBufsNext

\* What a host packed is what its messages and copies carry, to the end of the phase.
LEMMA PackedBlock ==
  ASSUME Hosts, Queues, Conf, Streams, SendBufs, NEW q \in Rank, InPhase(q), mode # "single",
         ~Straight(q, send_to(q))
  PROVE  LET b == [from |-> q, to |-> send_to(q), value |-> pos[q].iter] IN
         /\ pos[q].step > PackStep + 1 => sendBuf[q] = b
         /\ pos[q].step = WaitStep => Packed(q) = b
<1> DEFINE b == [from |-> q, to |-> send_to(q), value |-> pos[q].iter]
<1>1. SendBufOf(q, send_to(q), pos[q].iter, pos[q].step) BY SendBufsAre
<1>2. pos[q].step \in Nat /\ mode \in ModeNames BY Constants DEF Hosts, Place
<1>3. PackStep \in Nat /\ WaitStep > PackStep + 1 BY <1>2 DEF PackStep, WaitStep, SendStep, ModeNames
<1>4. InPhases(pos[q]) BY InPhaseIs
<1>5. send_to(q) # q BY <1>4, Peers
<1>6. ASSUME InStream(q, <<"pack", send_to(q)>>) PROVE pos[q].step = PackStep + 1
  <2>1. MayRun(q, <<"pack", send_to(q)>>) BY <1>6, StreamsByOp
  <2> QED BY <1>5, <2>1 DEF MayRun
<1>7. pos[q].step > PackStep + 1 => sendBuf[q] = b BY <1>1, <1>2, <1>3, <1>6 DEF SendBufOf
<1>8. ASSUME pos[q].step = WaitStep PROVE Packed(q) = b
  <2>1. CASE mode = "staged"
    <3>1. WaitStep > 3 BY <2>1 DEF WaitStep, SendStep
    <3> QED BY <1>1, <1>8, <2>1, <3>1 DEF SendBufOf, Packed
  <2>2. CASE mode # "staged" BY <1>3, <1>7, <1>8, <2>2 DEF Packed
  <2> QED BY <2>1, <2>2
<1> QED BY <1>7, <1>8

-----------------------------------------------------------------------------
(* The receives.                                                           *)

LEMMA NextInPhase ==
  ASSUME Hosts, NEW h \in Rank, pos[h] # Done, pos'[h] = Following(pos[h]), mode' = mode,
         InPhase(h), pos[h].step < PhaseLen
  PROVE  /\ InPhase(h)' /\ pos'[h].iter = pos[h].iter /\ pos'[h].phase = pos[h].phase
         /\ pos'[h].step = pos[h].step + 1
         /\ send_to(h)' = send_to(h) /\ recv_from(h)' = recv_from(h)
<1> DEFINE p == pos[h]  o == pos'[h]
<1> USE Constants, Phases, PhaseLength
<1>1. mode \in ModeNames /\ p \in Place /\ Position(p) /\ InPhases(p) BY InPhaseIs DEF Hosts
<1>2. o = [iter |-> p.iter, phase |-> p.phase, step |-> p.step + 1]
  BY <1>1, HostStep DEF Iterating, InPhases
<1>3. InPhase(h)' BY <1>1, <1>2, SameMode DEF InPhase, InPhases, Iterating
<1>4. send_to(h)' = send_to(h) /\ recv_from(h)' = recv_from(h)
  BY <1>2 DEF send_to, recv_from, phase
<1> QED BY <1>2, <1>3, <1>4

\* The order of the steps of a message in a phase.
LEMMA MessageSteps ==
  ASSUME mode \in ModeNames, mode # "single"
  PROVE  /\ PackStep \in Nat /\ PostStep \in Nat /\ SendStep \in Nat /\ WaitStep = SendStep + 1
         /\ UnpackStep \in Nat
         /\ 1 < PostStep /\ PostStep < SendStep /\ WaitStep < UnpackStep /\ UnpackStep <= PhaseLen
         /\ PhaseLen \in Nat
         /\ PackStep + 1 < WaitStep
         /\ mode = "staged" => PostStep = 4 /\ WaitStep = 6 /\ UnpackStep = 8
         /\ mode \in {"direct", "buffered"} => UnpackStep < PhaseLen
BY DEF PackStep, PostStep, SendStep, WaitStep, UnpackStep, PhaseLen, ModeNames

LandingAt(r, s) ==
  CASE mode \in {"direct", "buffered"} -> fbRecv[r]
    [] mode = "gpumpi" -> recvBuf[r]
    [] mode = "staged" -> IF s = 8 THEN recvBuf[r] ELSE hostRecv[r]
PostedOf(r, q) == posted[r] # None => InPhase(r) /\ ByMessage(posted[r], r) /\ posted[r] = q /\ Posting(r)
LandedAt(r, q, i, s) ==
  ByMessage(q, r) /\ posted[r] = None /\ PostStep < s /\ s <= UnpackStep
    => LandingAt(r, s) = [from |-> q, to |-> r, value |-> i]

LEMMA ReceivesAre ==
  Receives <=> \A r \in Rank :
    /\ PostedOf(r, recv_from(r))
    /\ InPhase(r) => LandedAt(r, recv_from(r), pos[r].iter, pos[r].step)
<1>1. \A r \in Rank : Landing(r) = LandingAt(r, pos[r].step) BY DEF Landing, LandingAt
<1> QED BY Zenon, <1>1 DEF Receives, PostedOf, LandedAt

LEMMA ReceivesNext ==
  ASSUME \A r \in Rank : \A q, i, s : q = recv_from(r)' /\ i = pos'[r].iter /\ s = pos'[r].step
           => PostedOf(r, q)' /\ (InPhase(r)' => LandedAt(r, q, i, s)')
  PROVE  Receives'
<1>1. \A r \in Rank : Landing(r)' = (LandingAt(r, pos[r].step))' BY DEF Landing, LandingAt
<1>2. \A r \in Rank :
        /\ PostedOf(r, recv_from(r))'
        /\ InPhase(r)' => LandedAt(r, recv_from(r), pos[r].iter, pos[r].step)'
  <2>1. TAKE r \in Rank
  <2>2. PICK q, i, s : q = recv_from(r)' /\ i = pos'[r].iter /\ s = pos'[r].step OBVIOUS
  <2>3. PostedOf(r, q)' /\ (InPhase(r)' => LandedAt(r, q, i, s)') BY <2>2
  <2> QED BY <2>2, <2>3 DEF PostedOf, LandedAt, LandingAt, ByMessage, IpcOk
<1> QED BY Zenon, <1>1, <1>2 DEF Receives, PostedOf, LandedAt

LEMMA HostPosted ==
  ASSUME Hosts, Queues, Conf, Streams, Mail, Receives, NEW h \in Rank, Host(h),
         NEW r \in Rank, NEW q, q = recv_from(r)'
  PROVE  PostedOf(r, q)'
<1> DEFINE p == pos[h]  w == What(p)
<1>1. /\ pos[h] # Done /\ GoOn(h) /\ mode' = mode /\ ipc' = ipc
      /\ w = "waitall" => Received(h)
      /\ IF w = "post" /\ ~IpcOk(h, recv_from(h))
         THEN posted' = [posted EXCEPT ![h] = recv_from(h)] ELSE posted' = posted
  BY HostEffect DEF Effect
<1>2. /\ pos'[h] = Following(pos[h]) /\ \A b \in Rank : b # h => pos'[b] = pos[b]
  BY <1>1, HostPositions
<1>3. mode \in ModeNames /\ p \in Place /\ Position(p) BY DEF Hosts
<1>4. PostStep' = PostStep /\ WaitStep' = WaitStep BY <1>1, SameMode
<1>5. \A b : ByMessage(b, r)' <=> ByMessage(b, r) BY <1>1 DEF ByMessage, IpcOk
<1>6. PostedOf(r, recv_from(r)) BY ReceivesAre
<1>7. CASE r # h
  <2>1. pos'[r] = pos[r] /\ posted'[r] = posted[r] BY <1>1, <1>2, <1>7 DEF Mail
  <2>2. q = recv_from(r) /\ (InPhase(r)' <=> InPhase(r)) BY <1>1, <2>1, OtherPhase
  <2>3. Posting(r)' <=> Posting(r) BY <1>4, <2>1 DEF Posting
  <2> QED BY <1>5, <1>6, <2>1, <2>2, <2>3 DEF PostedOf
<1>8. CASE r = h /\ w = "post" /\ ~IpcOk(h, recv_from(h))
  <2>1. InPhases(p) /\ PlaceOf(w, p) BY <1>1, <1>3, <1>8, Where
  <2>2. mode # "single" /\ p.step = PostStep BY <1>8, <2>1 DEF PlaceOf
  <2>3. PostStep \in Nat /\ PostStep < WaitStep /\ PostStep < PhaseLen /\ WaitStep \in Nat
    BY <1>3, <2>2, MessageSteps
  <2>4. recv_from(h) \in Rank /\ recv_from(h) # h BY <2>1, Peers
  <2>5. posted'[h] = recv_from(h) BY <1>1, <1>8 DEF Mail
  <2>6. InPhase(h)' /\ pos'[h].step = p.step + 1 /\ recv_from(h)' = recv_from(h)
    BY <1>1, <1>2, <2>1, <2>2, <2>3, NextInPhase, InPhaseIs
  <2>7. ByMessage(recv_from(h), h) BY <1>8, <2>2, <2>4 DEF ByMessage, IpcOk
  <2>8. Posting(h)' BY <1>4, <2>2, <2>3, <2>6 DEF Posting
  <2>9. q = recv_from(h) BY <1>8, <2>6
  <2>10. ByMessage(recv_from(h), h)' BY <2>6, <2>7, <1>1 DEF ByMessage, IpcOk
  <2>11. posted'[h] = q /\ ByMessage(q, h)' BY <1>5, <1>8, <2>5, <2>7, <2>9
  <2> QED BY <1>8, <2>6, <2>8, <2>11 DEF PostedOf, ByMessage, IpcOk
<1>9. CASE r = h /\ ~(w = "post" /\ ~IpcOk(h, recv_from(h)))
  <2>1. posted' = posted BY <1>1, <1>9
  <2>2. CASE posted[h] = None BY <1>9, <2>1, <2>2 DEF PostedOf
  <2>3. CASE posted[h] # None
    <3>1. InPhase(h) /\ ByMessage(posted[h], h) /\ posted[h] = recv_from(h) /\ Posting(h)
      BY <1>6, <1>9, <2>3 DEF PostedOf
    <3>2. mode # "single" BY <3>1 DEF ByMessage
    <3>3. w # "waitall" BY <1>1, <2>3 DEF Received
    <3>4. p.step # WaitStep BY <1>3, <3>1, <3>2, <3>3, NamedSteps, InPhaseIs
    <3>5. PostStep \in Nat /\ WaitStep \in Nat /\ WaitStep < PhaseLen /\ PhaseLen \in Nat /\ p.step \in Nat
      BY <1>3, <3>2, MessageSteps DEF Place
    <3>6. PostStep < p.step /\ p.step < WaitStep BY <3>1, <3>4, <3>5 DEF Posting
    <3>7. p.step < PhaseLen BY <3>5, <3>6
    <3>8. InPhase(h)' /\ pos'[h].step = p.step + 1 /\ recv_from(h)' = recv_from(h)
      BY <1>1, <1>2, <3>1, <3>7, NextInPhase
    <3>9. Posting(h)' BY <1>4, <3>5, <3>6, <3>8 DEF Posting
    <3>10. ByMessage(posted[h], h)' BY <1>1, <2>1, <3>1 DEF ByMessage, IpcOk
    <3> QED BY <1>9, <2>1, <3>1, <3>8, <3>9, <3>10 DEF PostedOf
  <2> QED BY <2>2, <2>3
<1> QED BY <1>7, <1>8, <1>9

LEMMA HostLanded ==
  ASSUME Hosts, Queues, Conf, Streams, Mail, Buffers, Receives, NEW h \in Rank, Host(h),
         NEW r \in Rank, InPhase(r)', NEW q, NEW i, NEW s,
         q = recv_from(r)', i = pos'[r].iter, s = pos'[r].step
  PROVE  LandedAt(r, q, i, s)'
<1> DEFINE p == pos[h]  w == What(p)
<1>1. /\ pos[h] # Done /\ GoOn(h) /\ mode' = mode /\ ipc' = ipc
      /\ fbRecv' = fbRecv /\ hostRecv' = hostRecv
      /\ IF w = "post" /\ ~IpcOk(h, recv_from(h))
         THEN posted' = [posted EXCEPT ![h] = recv_from(h)] ELSE posted' = posted
      /\ IF w = "h2d" THEN recvBuf' = [recvBuf EXCEPT ![h] = hostRecv[h]] ELSE recvBuf' = recvBuf
  BY HostEffect DEF Effect
<1>2. /\ pos'[h] = Following(pos[h]) /\ \A b \in Rank : b # h => pos'[b] = pos[b]
  BY <1>1, HostPositions
<1>3. mode \in ModeNames /\ p \in Place /\ Position(p) BY DEF Hosts
<1>4. PostStep' = PostStep /\ UnpackStep' = UnpackStep BY <1>1, SameMode
<1>5. \A b : ByMessage(b, r)' <=> ByMessage(b, r) BY <1>1 DEF ByMessage, IpcOk
<1>6. InPhase(r) => LandedAt(r, recv_from(r), pos[r].iter, pos[r].step) BY ReceivesAre
<1>7. CASE r # h
  <2>1. pos'[r] = pos[r] /\ posted'[r] = posted[r] /\ recvBuf'[r] = recvBuf[r]
    BY <1>1, <1>2, <1>7 DEF Mail, Buffers
  <2>2. q = recv_from(r) /\ InPhase(r) BY <1>1, <2>1, OtherPhase
  <2>3. LandedAt(r, q, i, s) BY <1>6, <2>1, <2>2
  <2> QED BY <1>1, <1>4, <1>5, <2>1, <2>3 DEF LandedAt, LandingAt
<1>8. CASE r = h
  <2> SUFFICES ASSUME ByMessage(q, h), posted'[h] = None, PostStep < s, s <= UnpackStep
               PROVE  LandingAt(h, s)' = [from |-> q, to |-> h, value |-> i]
    BY <1>4, <1>5, <1>8 DEF LandedAt
  <2>1. mode # "single" BY DEF ByMessage
  <2>2. s \in Nat BY <1>1, <1>8, HostPositions DEF Hosts, Place
  <2>3. /\ PostStep \in Nat /\ UnpackStep \in Nat /\ 1 < PostStep
        /\ (mode = "staged" => PostStep = 4 /\ UnpackStep = 8)
    BY <1>3, <2>1, MessageSteps
  <2>4. s > 1 BY <2>2, <2>3
  <2>5. /\ InPhase(h) /\ InPhases(p) /\ i = p.iter /\ s = p.step + 1 /\ q = recv_from(h)
    BY <1>1, <1>2, <1>8, <2>4, SamePhase
  <2>6. p.step \in Nat BY <1>3 DEF Place
  <2>7. p.step # PostStep
    <3>1. SUFFICES ASSUME p.step = PostStep PROVE FALSE OBVIOUS
    <3>2. w = "post" BY <1>3, <2>1, <2>5, <3>1, NamedSteps
    <3>3. ~IpcOk(h, recv_from(h)) BY <2>5 DEF ByMessage, IpcOk
    <3>4. posted'[h] = recv_from(h) BY <1>1, <3>2, <3>3 DEF Mail
    <3>5. recv_from(h) \in Rank BY <2>5, Peers
    <3> QED BY <3>4, <3>5 DEF None, Rank
  <2>8. w # "post" BY <1>3, <2>5, <2>7, PhasePlaces DEF PlaceOf
  <2>9. posted' = posted BY <1>1, <2>8
  <2>10. PostStep < p.step /\ p.step <= UnpackStep BY <2>2, <2>3, <2>5, <2>6, <2>7
  <2>11. LandingAt(h, p.step) = [from |-> q, to |-> h, value |-> i]
    BY <1>6, <1>8, <2>5, <2>9, <2>10 DEF LandedAt
  <2>12. CASE mode = "staged" /\ s = 8
    <3>1. p.step = 7 BY <2>5, <2>6, <2>12
    <3>2. w = "h2d" BY <1>3, <2>5, <2>12, <3>1, NamedSteps
    <3>3. recvBuf'[h] = hostRecv[h] BY <1>1, <3>2 DEF Buffers
    <3>4. LandingAt(h, p.step) = hostRecv[h] BY <2>12, <3>1 DEF LandingAt
    <3>5. LandingAt(h, s)' = recvBuf'[h] BY <1>1, <2>12 DEF LandingAt
    <3> QED BY <2>11, <3>3, <3>4, <3>5
  <2>13. CASE ~(mode = "staged" /\ s = 8)
    <3>1. w # "h2d"
      <4>1. w = "h2d" => mode = "staged" /\ p.step = 7 BY <1>3, <2>5, PhasePlaces DEF PlaceOf
      <4> QED BY <2>5, <2>13, <4>1
    <3>2. recvBuf' = recvBuf BY <1>1, <3>1
    <3>3. mode = "staged" => p.step # 8 BY <2>2, <2>3, <2>5, <2>6
    <3>4. LandingAt(h, s)' = LandingAt(h, p.step)
      BY <1>1, <2>13, <3>2, <3>3 DEF LandingAt
    <3> QED BY <2>11, <3>4
  <2> QED BY <2>12, <2>13
<1> QED BY <1>7, <1>8

-----------------------------------------------------------------------------
(* The channels.                                                           *)

LEMMA HostSent ==
  ASSUME Hosts, NEW h \in Rank, Host(h), NEW q \in Rank, NEW r \in Rank, ByMessage(q, r)
  PROVE  Sent(q, r)' = Sent(q, r) + One(q = h /\ What(pos[h]) = "isend" /\ send_to(h) = r)
<1> DEFINE p == pos[h]  w == What(p)  k == Meeting(q, r)
<1> USE Constants, Phases, PhaseLength
<1>1. /\ pos[h] # Done /\ GoOn(h) /\ mode' = mode BY HostEffect DEF Effect
<1>2. /\ pos'[h] = Following(pos[h]) /\ \A b \in Rank : b # h => pos'[b] = pos[b]
  BY <1>1, HostPositions
<1>3. mode \in ModeNames /\ p \in Place /\ Position(p) BY DEF Hosts
<1>4. mode # "single" /\ q # r BY DEF ByMessage
<1>5. k \in 1 .. LastPhase BY <1>4, MeetingPhase DEF LastPhase
<1>6. SendStep \in Nat /\ SendStep \in 1 .. PhaseLen
  BY <1>3, <1>4 DEF SendStep, PhaseLen, ModeNames
<1>7. Sent(q, r) \in Int BY <1>6, CountType DEF Sent
<1>8. Sent(q, r)' = Times(pos'[q], k, SendStep) BY <1>1, SameMode DEF Sent
<1>9. CASE q # h
  <2>1. Sent(q, r)' = Sent(q, r) BY <1>2, <1>8, <1>9 DEF Sent
  <2> QED BY <1>7, <1>9, <2>1 DEF One
<1>10. CASE q = h
  <2> HIDE DEF k
  <2>1. Times(pos'[q], k, SendStep) =
          Times(p, k, SendStep) + One(Iterating(p) /\ p.phase = k /\ p.step = SendStep)
    BY <1>1, <1>2, <1>3, <1>5, <1>6, <1>10, TimesStep
  <2>2. ASSUME Iterating(p), p.phase = k, p.step = SendStep PROVE w = "isend" /\ send_to(h) = r
    <3>1. InPhases(p) BY <1>5, <2>2 DEF InPhases
    <3>2. w = "isend" BY <1>3, <1>4, <2>2, <3>1, NamedSteps
    <3> QED BY <1>4, <1>10, <2>2, <3>1, <3>2, Peers DEF k
  <2>3. ASSUME w = "isend", send_to(h) = r PROVE Iterating(p) /\ p.phase = k /\ p.step = SendStep
    <3>1. InPhases(p) /\ p.step = SendStep BY <1>1, <1>3, <2>3, Where DEF PlaceOf
    <3>2. p.phase = k BY <1>4, <1>10, <2>3, <3>1, Peers DEF k
    <3> QED BY <3>1, <3>2 DEF InPhases
  <2>4. Sent(q, r) = Times(p, k, SendStep) BY <1>10 DEF Sent, k
  <2> QED BY <1>7, <1>8, <1>10, <2>1, <2>2, <2>3, <2>4 DEF One
<1> QED BY <1>9, <1>10

LEMMA HostTaken ==
  ASSUME Hosts, Mail, Receives, NEW h \in Rank, Host(h), NEW q \in Rank, NEW r \in Rank,
         ByMessage(q, r)
  PROVE  Taken(q, r)' = Taken(q, r)
<1> DEFINE p == pos[h]  w == What(p)  k == Meeting(q, r)
<1> USE Constants, Phases, PhaseLength
<1>1. /\ pos[h] # Done /\ GoOn(h) /\ mode' = mode
      /\ IF w = "post" /\ ~IpcOk(h, recv_from(h))
         THEN posted' = [posted EXCEPT ![h] = recv_from(h)] ELSE posted' = posted
  BY HostEffect DEF Effect
<1>2. /\ pos'[h] = Following(pos[h]) /\ \A b \in Rank : b # h => pos'[b] = pos[b]
  BY <1>1, HostPositions
<1>3. mode \in ModeNames /\ p \in Place /\ Position(p) BY DEF Hosts
<1>4. mode # "single" /\ q # r /\ ~IpcOk(r, q) BY DEF ByMessage, IpcOk
<1>5. k \in 1 .. LastPhase BY <1>4, MeetingPhase DEF LastPhase
<1>6. PostStep \in Nat /\ PostStep \in 1 .. PhaseLen
  BY <1>3, <1>4 DEF PostStep, PhaseLen, ModeNames
<1>7. Times(pos[r], k, PostStep) \in Int BY <1>6, CountType
<1>8. /\ Taken(q, r)' = Times(pos'[r], k, PostStep) - One(posted'[r] = q)
      /\ Taken(q, r) = Times(pos[r], k, PostStep) - One(posted[r] = q)
  BY <1>1, SameMode DEF Taken, One
<1>9. CASE r # h
  <2>1. pos'[r] = pos[r] /\ posted'[r] = posted[r] BY <1>1, <1>2, <1>9 DEF Mail
  <2> QED BY <1>8, <2>1
<1>10. CASE r = h
  <2> HIDE DEF k
  <2>1. Times(pos'[r], k, PostStep) =
          Times(p, k, PostStep) + One(Iterating(p) /\ p.phase = k /\ p.step = PostStep)
    BY <1>1, <1>2, <1>3, <1>5, <1>6, <1>10, TimesStep
  <2>2. ASSUME Iterating(p), p.phase = k, p.step = PostStep PROVE w = "post" /\ recv_from(h) = q
    <3>1. InPhases(p) BY <1>5, <2>2 DEF InPhases
    <3>2. w = "post" BY <1>3, <1>4, <2>2, <3>1, NamedSteps
    <3> QED BY <1>4, <1>10, <2>2, <3>1, <3>2, Peers DEF k
  <2>3. ASSUME w = "post" PROVE InPhases(p) /\ p.step = PostStep /\ posted[h] = None
    <3>1. InPhases(p) /\ p.step = PostStep BY <1>1, <1>3, <2>3, Where DEF PlaceOf
    <3>2. posted[h] # None => PostStep < p.step BY DEF Receives, Posting
    <3> QED BY <1>6, <3>1, <3>2
  <2>4. CASE w = "post" /\ recv_from(h) = q
    <3>1. Iterating(p) /\ p.phase = k /\ p.step = PostStep
      BY <1>4, <1>10, <2>3, <2>4, Peers DEF k, InPhases
    <3>2. posted'[r] = q BY <1>1, <1>4, <1>10, <2>4 DEF Mail
    <3>3. posted[r] # q BY <1>10, <2>3, <2>4 DEF None, Rank
    <3> QED BY <1>7, <1>8, <1>10, <2>1, <3>1, <3>2, <3>3 DEF One
  <2>5. CASE ~(w = "post" /\ recv_from(h) = q)
    <3>1. ~(Iterating(p) /\ p.phase = k /\ p.step = PostStep) BY <2>2, <2>5
    <3>2. posted'[r] = q <=> posted[r] = q
      <4>1. CASE w = "post" /\ ~IpcOk(h, recv_from(h))
        <5>1. posted'[r] = recv_from(h) BY <1>1, <1>10, <4>1 DEF Mail
        <5>2. posted[r] = None BY <1>10, <2>3, <4>1
        <5> QED BY <2>5, <4>1, <5>1, <5>2 DEF None, Rank
      <4>2. CASE ~(w = "post" /\ ~IpcOk(h, recv_from(h))) BY <1>1, <4>2
      <4> QED BY <4>1, <4>2
    <3> QED BY <1>7, <1>8, <1>10, <2>1, <3>1, <3>2 DEF One
  <2> QED BY <2>4, <2>5
<1> QED BY <1>9, <1>10

\* A host that is about to go on has no message left in its own buffer.
LEMMA NoneHeld ==
  ASSUME Hosts, Mail, Channels, NEW h \in Rank, Host(h), NEW r \in Rank,
         NEW i \in 1 .. Len(msgs[h][r])
  PROVE  msgs[h][r][i] # Held
<1> SUFFICES ASSUME msgs[h][r][i] = Held PROVE FALSE OBVIOUS
<1>0. msgs[h][r] \in Seq(Block) BY DEF Mail
<1>1. ByMessage(h, r)
  <2>1. SUFFICES ASSUME msgs[h][r] = <<>> PROVE FALSE BY DEF Channels
  <2>2. Len(msgs[h][r]) = 0 BY <2>1
  <2> QED BY <2>2
<1>2. Waiting(h, r) \/ msgs[h][r][i] = [from |-> h, to |-> r, value |-> Taken(h, r) + i - 1]
  BY <1>1 DEF Channels
<1>3. Held.from # h BY DEF Held, None, Rank
<1>4. Waiting(h, r) BY <1>2, <1>3
<1>5. mode \in ModeNames /\ pos[h] \in Place /\ Position(pos[h]) BY DEF Hosts
<1>6. InPhases(pos[h]) /\ pos[h].step = WaitStep BY <1>4, InPhaseIs DEF Waiting
<1>7. What(pos[h]) = "waitall" BY <1>1, <1>5, <1>6, NamedSteps DEF ByMessage
<1>8. AllSent(h) BY <1>7, HostEffect DEF Effect
<1>9. i \in DOMAIN msgs[h][r] BY <1>0
<1> QED BY <1>8, <1>9 DEF AllSent

LEMMA OtherWaiting ==
  ASSUME NEW q, NEW r, pos'[q] = pos[q], mode' = mode
  PROVE  Waiting(q, r)' <=> Waiting(q, r)
BY SameMode, OtherPhase DEF Waiting

LEMMA HostChannels ==
  ASSUME Hosts, Mail, Receives, Channels, NEW h \in Rank, Host(h)
  PROVE  Channels'
<1> DEFINE p == pos[h]  w == What(p)  to == send_to(h)
<1> USE Constants
<1>1. /\ pos[h] # Done /\ GoOn(h) /\ mode' = mode /\ ipc' = ipc
      /\ IF w = "isend" /\ ~IpcOk(h, to)
         THEN msgs' = [msgs EXCEPT ![h][to] = Append(@, Held)] ELSE msgs' = msgs
  BY HostEffect DEF Effect
<1>2. /\ pos'[h] = Following(pos[h]) /\ \A b \in Rank : b # h => pos'[b] = pos[b]
  BY <1>1, HostPositions
<1>3. mode \in ModeNames /\ p \in Place /\ Position(p) BY DEF Hosts
<1>4. msgs \in [Rank -> [Rank -> Seq(Block)]] BY DEF Mail
<1>5. w = "isend" => InPhases(p) /\ mode # "single" /\ p.step = SendStep /\ to \in Rank /\ to # h
  <2>1. SUFFICES ASSUME w = "isend"
                 PROVE  InPhases(p) /\ mode # "single" /\ p.step = SendStep /\ to \in Rank /\ to # h
    OBVIOUS
  <2>2. InPhases(p) /\ PlaceOf(w, p) BY <1>1, <1>3, <2>1, Where
  <2> QED BY <2>1, <2>2, Peers DEF PlaceOf
<1> SUFFICES ASSUME NEW q \in Rank, NEW r \in Rank
             PROVE  IF ByMessage(q, r)'
                    THEN /\ Len(msgs'[q][r]) = Sent(q, r)' - Taken(q, r)'
                         /\ \A i \in 1 .. Len(msgs'[q][r]) :
                              \/ msgs'[q][r][i] = Held /\ i = Len(msgs'[q][r]) /\ Waiting(q, r)'
                              \/ msgs'[q][r][i] = [from |-> q, to |-> r, value |-> Taken(q, r)' + i - 1]
                    ELSE msgs'[q][r] = <<>>
  BY DEF Channels
<1>6. ByMessage(q, r)' <=> ByMessage(q, r) BY <1>1 DEF ByMessage, IpcOk
<1>7. IF ByMessage(q, r)
      THEN /\ Len(msgs[q][r]) = Sent(q, r) - Taken(q, r)
           /\ \A i \in 1 .. Len(msgs[q][r]) :
                \/ msgs[q][r][i] = Held /\ i = Len(msgs[q][r]) /\ Waiting(q, r)
                \/ msgs[q][r][i] = [from |-> q, to |-> r, value |-> Taken(q, r) + i - 1]
      ELSE msgs[q][r] = <<>>
  BY DEF Channels
<1>8. ~(q = h /\ w = "isend" /\ to = r /\ ~IpcOk(h, to)) => msgs'[q][r] = msgs[q][r]
  BY <1>1, <1>4, <1>5
<1>9. CASE ~ByMessage(q, r)
  <2>1. ~(q = h /\ w = "isend" /\ to = r /\ ~IpcOk(h, to))
    BY <1>5, <1>9 DEF ByMessage, IpcOk
  <2> QED BY <1>6, <1>7, <1>8, <1>9, <2>1
<1>10. CASE ByMessage(q, r)
  <2>1. /\ Sent(q, r)' = Sent(q, r) + One(q = h /\ w = "isend" /\ to = r)
        /\ Taken(q, r)' = Taken(q, r)
    BY <1>10, HostSent, HostTaken
  <2>2. Sent(q, r) \in Int /\ Taken(q, r) \in Int
    <3>1. SendStep \in Nat /\ PostStep \in Nat BY DEF SendStep, PostStep
    <3>2. Times(pos[q], Meeting(q, r), SendStep) \in 0 .. Total BY Zenon, <3>1, CountType
    <3>3. Times(pos[r], Meeting(q, r), PostStep) \in 0 .. Total BY Zenon, <3>1, CountType
    <3> QED BY <3>2, <3>3 DEF Sent, Taken, One
  <2>3. mode # "single" /\ ~IpcOk(q, r) BY <1>10 DEF ByMessage
  <2>4. CASE q = h /\ w = "isend" /\ to = r
    <3> DEFINE c == msgs[h][r]  d == msgs'[h][r]
    <3>1. c \in Seq(Block) /\ d = Append(c, Held) BY <1>1, <1>4, <2>3, <2>4
    <3>2. Held \in Block BY DEF Held, Block, None
    <3>3. Len(d) = Len(c) + 1 /\ Len(c) \in Nat /\ d[Len(c) + 1] = Held
          /\ \A i \in 1 .. Len(c) : d[i] = c[i]
      BY <3>1, <3>2
    <3> HIDE DEF c, d
    <3>4. Len(d) = Sent(q, r)' - Taken(q, r)'
      BY <1>7, <1>10, <2>1, <2>2, <2>4, <3>3 DEF One, c
    <3>5. Waiting(q, r)'
      <4>1. InPhase(h) BY <1>5, <2>4, InPhaseIs
      <4>2. p.step < PhaseLen /\ WaitStep = SendStep + 1 /\ p.step = SendStep
        BY <1>3, <1>5, <2>3, <2>4, MessageSteps
      <4>3. InPhase(h)' /\ pos'[h].phase = p.phase /\ pos'[h].step = p.step + 1
        BY <1>1, <1>2, <4>1, <4>2, NextInPhase
      <4>4. p.phase = Meeting(q, r) BY <1>5, <2>4, Peers
      <4>5. WaitStep' = WaitStep BY <1>1, SameMode
      <4> QED BY <2>4, <4>2, <4>3, <4>4, <4>5 DEF Waiting
    <3>6. ASSUME NEW i \in 1 .. Len(d)
          PROVE  \/ d[i] = Held /\ i = Len(d) /\ Waiting(q, r)'
                 \/ d[i] = [from |-> q, to |-> r, value |-> Taken(q, r)' + i - 1]
      <4>1. CASE i = Len(c) + 1 BY <3>3, <3>5, <4>1
      <4>2. CASE i \in 1 .. Len(c)
        <5>1. c[i] # Held BY <4>2, NoneHeld DEF c
        <5> QED BY <1>7, <1>10, <2>1, <2>4, <3>3, <4>2, <5>1 DEF c
      <4> QED BY <3>3, <4>1, <4>2
    <3> QED BY <1>6, <1>10, <2>4, <3>4, <3>6 DEF d
  <2>5. CASE ~(q = h /\ w = "isend" /\ to = r)
    <3>1. msgs'[q][r] = msgs[q][r] BY <1>8, <2>5
    <3>2. Sent(q, r)' = Sent(q, r) BY <2>1, <2>2, <2>5 DEF One
    <3>3. ASSUME NEW i \in 1 .. Len(msgs[q][r]), msgs[q][r][i] = Held, Waiting(q, r)
          PROVE  Waiting(q, r)'
      <4>1. q # h BY <3>3, NoneHeld
      <4> QED BY <1>1, <1>2, <3>3, <4>1, OtherWaiting
    <3> QED BY <1>6, <1>7, <1>10, <2>1, <3>1, <3>2, <3>3
  <2> QED BY <2>4, <2>5
<1> QED BY <1>9, <1>10

\* A message on its way is the packed block of its phase, and so is what is
\* still with its sender.
LEMMA PendingBlock ==
  ASSUME Hosts, Queues, Conf, Streams, SendBufs, Mail, Channels, NEW q \in Rank, NEW r \in Rank,
         NEW i \in 1 .. Len(msgs[q][r])
  PROVE  /\ ByMessage(q, r) /\ Taken(q, r) \in Int
         /\ \/ msgs[q][r][i] = [from |-> q, to |-> r, value |-> Taken(q, r) + i - 1]
            \/ /\ msgs[q][r][i] = Held /\ i = Len(msgs[q][r])
               /\ Packed(q) = [from |-> q, to |-> r, value |-> Taken(q, r) + i - 1]
<1> USE Constants
<1>0. msgs[q][r] \in Seq(Block) BY DEF Mail
<1>1. ByMessage(q, r)
  <2>1. SUFFICES ASSUME msgs[q][r] = <<>> PROVE FALSE BY DEF Channels
  <2>2. Len(msgs[q][r]) = 0 BY <2>1
  <2> QED BY <2>2
<1>2. /\ Len(msgs[q][r]) = Sent(q, r) - Taken(q, r)
      /\ \/ msgs[q][r][i] = Held /\ i = Len(msgs[q][r]) /\ Waiting(q, r)
         \/ msgs[q][r][i] = [from |-> q, to |-> r, value |-> Taken(q, r) + i - 1]
  BY <1>1 DEF Channels
<1>3. PostStep \in Nat /\ SendStep \in Nat /\ WaitStep = SendStep + 1 BY DEF PostStep, SendStep, WaitStep
<1>4. Taken(q, r) \in Int
  <2>1. Times(pos[r], Meeting(q, r), PostStep) \in Int BY <1>3, CountType
  <2> QED BY <2>1 DEF Taken, One
<1>5. ASSUME i = Len(msgs[q][r]), Waiting(q, r)
      PROVE  Packed(q) = [from |-> q, to |-> r, value |-> Taken(q, r) + i - 1]
  <2>1. InPhase(q) /\ pos[q].phase = Meeting(q, r) /\ pos[q].step = WaitStep BY <1>5 DEF Waiting
  <2>2. q # r /\ mode # "single" /\ ~Straight(q, r) BY <1>1 DEF ByMessage, Straight
  <2>3. send_to(q) = r BY <2>1, <2>2, Peers, InPhaseIs
  <2>4. Packed(q) = [from |-> q, to |-> r, value |-> pos[q].iter]
    BY <2>1, <2>2, <2>3, PackedBlock
  <2>5. Sent(q, r) = pos[q].iter + 1
    <3>1. pos[q].iter \in 0 .. Total - 1 BY <2>1 DEF InPhase
    <3>2. pos[q].step > SendStep BY <1>3, <2>1
    <3> QED BY <2>1, <3>1, <3>2 DEF Sent, Times, One
  <2>6. pos[q].iter \in Int BY <2>1 DEF InPhase
  <2> QED BY <1>2, <1>4, <1>5, <2>4, <2>5, <2>6
<1> QED BY <1>1, <1>2, <1>4, <1>5

-----------------------------------------------------------------------------
(* MPI moves a message.                                                    *)

LEMMA MailFrame ==
  ASSUME mode' = mode, ipc' = ipc, pos' = pos, NEW q, NEW r
  PROVE  /\ ByMessage(q, r)' <=> ByMessage(q, r)
         /\ Sent(q, r)' = Sent(q, r) /\ (Waiting(q, r)' <=> Waiting(q, r))
         /\ Taken(q, r)' = Times(pos[r], Meeting(q, r), PostStep) - One(posted'[r] = q)
         /\ posted'[r] = posted[r] => Taken(q, r)' = Taken(q, r)
<1>1. ByMessage(q, r)' <=> ByMessage(q, r) BY DEF ByMessage, IpcOk
<1>2. Sent(q, r)' = Sent(q, r) BY SameMode DEF Sent
<1>3. Waiting(q, r)' <=> Waiting(q, r) BY OtherWaiting
<1>4. Taken(q, r)' = Times(pos[r], Meeting(q, r), PostStep) - One(posted'[r] = q)
  BY SameMode DEF Taken, One
<1> QED BY <1>1, <1>2, <1>3, <1>4 DEF Taken

LEMMA PackedType == ASSUME Buffers, NEW q \in Rank PROVE Packed(q) \in Block
BY DEF Packed, Buffers

LEMMA BufferMail ==
  ASSUME Hosts, Queues, Conf, Streams, SendBufs, Buffers, Mail, Channels,
         NEW q \in Rank, NEW r \in Rank, Buffer(q, r)
  PROVE  Mail' /\ Channels'
<1>1. PICK i \in DOMAIN msgs[q][r] :
        msgs[q][r][i] = Held /\ msgs' = [msgs EXCEPT ![q][r][i] = Packed(q)]
  BY DEF Buffer
<1>2. mode' = mode /\ ipc' = ipc /\ pos' = pos /\ posted' = posted BY DEF Buffer, conf
<1>3. msgs \in [Rank -> [Rank -> Seq(Block)]] BY DEF Mail
<1> DEFINE c == msgs[q][r]  d == msgs'[q][r]
<1>a. c \in Seq(Block) /\ i \in 1 .. Len(c) BY <1>3
<1>b. msgs' = [msgs EXCEPT ![q] = [msgs[q] EXCEPT ![r] = [c EXCEPT ![i] = Packed(q)]]] BY <1>1
<1>c. d = [c EXCEPT ![i] = Packed(q)] BY <1>3, <1>b
<1>4. c \in Seq(Block) /\ i \in 1 .. Len(c) /\ d = [c EXCEPT ![i] = Packed(q)] BY <1>a, <1>c
<1>5. Packed(q) \in Block BY PackedType
<1>6. d \in Seq(Block) /\ Len(d) = Len(c) /\ \A j \in 1 .. Len(c) : d[j] = IF j = i THEN Packed(q) ELSE c[j]
  BY <1>4, <1>5
<1>7. msgs' = [msgs EXCEPT ![q] = [msgs[q] EXCEPT ![r] = d]] BY <1>b, <1>c
<1>8. \A a, b \in Rank : ~(a = q /\ b = r) => msgs'[a][b] = msgs[a][b] BY <1>3, <1>7
<1>9. Mail'
  <2>1. [msgs[q] EXCEPT ![r] = d] \in [Rank -> Seq(Block)] BY <1>3, <1>6
  <2>2. msgs' \in [Rank -> [Rank -> Seq(Block)]] BY <1>3, <1>7, <2>1
  <2> QED BY <1>2, <2>2 DEF Mail
<1>10. ASSUME NEW a \in Rank, NEW b \in Rank
       PROVE  IF ByMessage(a, b)'
              THEN /\ Len(msgs'[a][b]) = Sent(a, b)' - Taken(a, b)'
                   /\ \A j \in 1 .. Len(msgs'[a][b]) :
                        \/ msgs'[a][b][j] = Held /\ j = Len(msgs'[a][b]) /\ Waiting(a, b)'
                        \/ msgs'[a][b][j] = [from |-> a, to |-> b, value |-> Taken(a, b)' + j - 1]
              ELSE msgs'[a][b] = <<>>
  <2>1. /\ ByMessage(a, b)' <=> ByMessage(a, b)
        /\ Sent(a, b)' = Sent(a, b) /\ (Waiting(a, b)' <=> Waiting(a, b))
        /\ Taken(a, b)' = Taken(a, b)
    BY <1>2, MailFrame
  <2>2. IF ByMessage(a, b)
        THEN /\ Len(msgs[a][b]) = Sent(a, b) - Taken(a, b)
             /\ \A j \in 1 .. Len(msgs[a][b]) :
                  \/ msgs[a][b][j] = Held /\ j = Len(msgs[a][b]) /\ Waiting(a, b)
                  \/ msgs[a][b][j] = [from |-> a, to |-> b, value |-> Taken(a, b) + j - 1]
        ELSE msgs[a][b] = <<>>
    BY DEF Channels
  <2>3. CASE ~(a = q /\ b = r) BY <1>8, <2>1, <2>2, <2>3
  <2>4. CASE a = q /\ b = r
    <3>1. ByMessage(q, r) BY <1>4, PendingBlock
    <3>2. ASSUME NEW j \in 1 .. Len(d)
          PROVE  \/ d[j] = Held /\ j = Len(d) /\ Waiting(q, r)
                 \/ d[j] = [from |-> q, to |-> r, value |-> Taken(q, r) + j - 1]
      <4>1. CASE j = i
        <5>1. Held.from # q BY DEF Held, None, Rank
        <5>2. \/ c[i] = [from |-> q, to |-> r, value |-> Taken(q, r) + i - 1]
              \/ Packed(q) = [from |-> q, to |-> r, value |-> Taken(q, r) + i - 1]
          BY <1>4, PendingBlock
        <5>3. Packed(q) = [from |-> q, to |-> r, value |-> Taken(q, r) + i - 1]
          BY <1>1, <5>1, <5>2
        <5> QED BY <1>6, <4>1, <5>3
      <4>2. CASE j # i BY <1>6, <2>2, <2>4, <3>1, <4>2
      <4> QED BY <4>1, <4>2
    <3> HIDE DEF c, d
    <3>3. Len(c) = Sent(q, r) - Taken(q, r) BY <2>2, <2>4, <3>1 DEF c
    <3>4. Len(d) = Sent(q, r) - Taken(q, r) BY <1>6, <3>3
    <3>5. d = msgs'[q][r] BY DEF d
    <3> QED BY <2>1, <2>4, <3>1, <3>2, <3>4, <3>5
  <2> QED BY <2>3, <2>4
<1>11. Channels' BY <1>10 DEF Channels
<1> QED BY <1>9, <1>11

\* What a delivery brings.
LEMMA Delivered ==
  ASSUME Hosts, Queues, Conf, Streams, SendBufs, Buffers, Mail, Channels, Receives,
         NEW q \in Rank, NEW r \in Rank, Deliver(q, r)
  PROVE  LET m == [from |-> q, to |-> r, value |-> pos[r].iter] IN
         /\ posted[r] = q /\ InPhase(r) /\ ByMessage(q, r) /\ q = recv_from(r) /\ Posting(r)
         /\ Taken(q, r) = pos[r].iter /\ m \in Block
         /\ hostRecv' = IF mode = "staged" THEN [hostRecv EXCEPT ![r] = m] ELSE hostRecv
         /\ recvBuf' = IF mode = "gpumpi" THEN [recvBuf EXCEPT ![r] = m] ELSE recvBuf
         /\ fbRecv' = IF TwoSided THEN fbRecv ELSE [fbRecv EXCEPT ![r] = m]
<1> USE Constants
<1> DEFINE c == msgs[q][r]  h == IF Head(c) = Held THEN Packed(q) ELSE Head(c)
           m == [from |-> q, to |-> r, value |-> pos[r].iter]
<1>1. /\ posted[r] = q /\ c # <<>>
      /\ hostRecv' = IF mode = "staged" THEN [hostRecv EXCEPT ![r] = h] ELSE hostRecv
      /\ recvBuf' = IF mode = "gpumpi" THEN [recvBuf EXCEPT ![r] = h] ELSE recvBuf
      /\ fbRecv' = IF TwoSided THEN fbRecv ELSE [fbRecv EXCEPT ![r] = h]
  BY DEF Deliver
<1>2. posted[r] # None BY <1>1 DEF None, Rank
<1>3. InPhase(r) /\ ByMessage(q, r) /\ q = recv_from(r) /\ Posting(r)
  BY <1>1, <1>2 DEF Receives
<1>4. q # r BY <1>3 DEF ByMessage
<1>5. pos[r].phase = Meeting(q, r) BY <1>3, <1>4, Peers, InPhaseIs
<1>6. pos[r].iter \in 0 .. Total - 1 BY <1>3 DEF InPhase
<1>7. Taken(q, r) = pos[r].iter
  <2>1. Times(pos[r], Meeting(q, r), PostStep) = pos[r].iter + 1
    BY <1>3, <1>5, <1>6 DEF Times, One, Posting
  <2>2. One(posted[r] = q) = 1 BY <1>1 DEF One
  <2> QED BY <1>6, <2>1, <2>2 DEF Taken
<1>8. c \in Seq(Block) BY DEF Mail
<1>9. 1 \in 1 .. Len(c) /\ Head(c) = c[1]
  <2>1. Len(c) \in Nat \ {0} BY <1>1, <1>8
  <2> QED BY <1>8, <2>1
<1>10. h = m
  <2>1. \/ c[1] = [from |-> q, to |-> r, value |-> Taken(q, r) + 1 - 1]
        \/ /\ c[1] = Held
           /\ Packed(q) = [from |-> q, to |-> r, value |-> Taken(q, r) + 1 - 1]
    BY <1>9, PendingBlock
  <2>2. Taken(q, r) + 1 - 1 = pos[r].iter BY <1>6, <1>7
  <2>3. Held # m BY DEF Held, None, Rank
  <2> QED BY <1>9, <2>1, <2>2, <2>3
<1>11. m \in Block BY <1>6 DEF Block
<1> HIDE DEF h
<1> QED BY <1>1, <1>3, <1>7, <1>10, <1>11

LEMMA DeliverMail ==
  ASSUME Hosts, Queues, Conf, Streams, SendBufs, Buffers, Mail, Channels, Receives,
         NEW q \in Rank, NEW r \in Rank, Deliver(q, r)
  PROVE  Mail' /\ Buffers' /\ Channels' /\ Receives'
<1> USE Constants
<1>1. /\ mode' = mode /\ ipc' = ipc /\ pos' = pos /\ sendBuf' = sendBuf /\ hostSend' = hostSend
      /\ msgs' = [msgs EXCEPT ![q][r] = Tail(@)] /\ posted' = [posted EXCEPT ![r] = None]
      /\ posted[r] = q /\ msgs[q][r] # <<>>
  BY DEF Deliver, conf
<1> DEFINE m == [from |-> q, to |-> r, value |-> pos[r].iter]
<1>2. /\ InPhase(r) /\ ByMessage(q, r) /\ q = recv_from(r) /\ Posting(r)
      /\ Taken(q, r) = pos[r].iter /\ m \in Block
      /\ hostRecv' = IF mode = "staged" THEN [hostRecv EXCEPT ![r] = m] ELSE hostRecv
      /\ recvBuf' = IF mode = "gpumpi" THEN [recvBuf EXCEPT ![r] = m] ELSE recvBuf
      /\ fbRecv' = IF TwoSided THEN fbRecv ELSE [fbRecv EXCEPT ![r] = m]
  BY Delivered
<1>3. msgs \in [Rank -> [Rank -> Seq(Block)]] /\ posted \in [Rank -> Rank \cup {None}] BY DEF Mail
<1> DEFINE c == msgs[q][r]  d == msgs'[q][r]
<1>4. c \in Seq(Block) /\ c # <<>> /\ d = Tail(c) BY <1>1, <1>3
<1>5. d \in Seq(Block) /\ Len(c) \in Nat \ {0} /\ Len(d) = Len(c) - 1
      /\ \A j \in 1 .. Len(d) : d[j] = c[j + 1]
  <2>1. Len(c) \in Nat \ {0} BY <1>4
  <2> QED BY <1>4, <2>1, HeadTailProperties
<1>6. msgs' = [msgs EXCEPT ![q] = [msgs[q] EXCEPT ![r] = d]] BY <1>1, <1>4
<1>7. Mail'
  <2>1. [msgs[q] EXCEPT ![r] = d] \in [Rank -> Seq(Block)] BY <1>3, <1>5
  <2>2. msgs' \in [Rank -> [Rank -> Seq(Block)]] BY <1>3, <1>6, <2>1
  <2>3. posted' \in [Rank -> Rank \cup {None}] BY <1>1, <1>3
  <2> QED BY <2>2, <2>3 DEF Mail
<1>8. Buffers' BY <1>1, <1>2 DEF Buffers, Block
<1>9. \A a, b \in Rank : ~(a = q /\ b = r) => msgs'[a][b] = msgs[a][b] BY <1>3, <1>6
<1>10. ASSUME NEW a \in Rank, NEW b \in Rank
       PROVE  IF ByMessage(a, b)'
              THEN /\ Len(msgs'[a][b]) = Sent(a, b)' - Taken(a, b)'
                   /\ \A j \in 1 .. Len(msgs'[a][b]) :
                        \/ msgs'[a][b][j] = Held /\ j = Len(msgs'[a][b]) /\ Waiting(a, b)'
                        \/ msgs'[a][b][j] = [from |-> a, to |-> b, value |-> Taken(a, b)' + j - 1]
              ELSE msgs'[a][b] = <<>>
  <2>1. /\ ByMessage(a, b)' <=> ByMessage(a, b)
        /\ Sent(a, b)' = Sent(a, b) /\ (Waiting(a, b)' <=> Waiting(a, b))
        /\ Taken(a, b)' = Times(pos[b], Meeting(a, b), PostStep) - One(posted'[b] = a)
    BY <1>1, MailFrame
  <2>2. IF ByMessage(a, b)
        THEN /\ Len(msgs[a][b]) = Sent(a, b) - Taken(a, b)
             /\ \A j \in 1 .. Len(msgs[a][b]) :
                  \/ msgs[a][b][j] = Held /\ j = Len(msgs[a][b]) /\ Waiting(a, b)
                  \/ msgs[a][b][j] = [from |-> a, to |-> b, value |-> Taken(a, b) + j - 1]
        ELSE msgs[a][b] = <<>>
    BY DEF Channels
  <2>a. Sent(a, b) \in Int /\ Times(pos[b], Meeting(a, b), PostStep) \in Int
    <3>1. SendStep \in Nat /\ PostStep \in Nat BY DEF SendStep, PostStep
    <3>2. Times(pos[a], Meeting(a, b), SendStep) \in 0 .. Total BY Zenon, <3>1, CountType
    <3>3. Times(pos[b], Meeting(a, b), PostStep) \in 0 .. Total BY Zenon, <3>1, CountType
    <3> QED BY <3>2, <3>3 DEF Sent
  <2>3. CASE ~(a = q /\ b = r)
    <3>1. Taken(a, b)' = Taken(a, b)
      <4>1. posted'[b] = a <=> posted[b] = a
        <5>1. CASE b # r BY <1>1, <1>3, <5>1
        <5>2. CASE b = r
          <6>1. posted'[b] = None /\ posted[b] = q BY <1>1, <1>3, <5>2
          <6> QED BY <2>3, <5>2, <6>1 DEF None, Rank
        <5> QED BY <5>1, <5>2
      <4> QED BY <2>1, <4>1 DEF Taken, One
    <3> QED BY <1>9, <2>1, <2>2, <2>3, <3>1
  <2>4. CASE a = q /\ b = r
    <3>1. ByMessage(q, r) BY <1>2
    <3>2. Taken(q, r)' = Taken(q, r) + 1
      <4>1. posted'[r] # q BY <1>1, <1>3 DEF None, Rank
      <4>2. One(posted'[r] = q) = 0 /\ One(posted[r] = q) = 1 BY <1>1, <4>1 DEF One
      <4> QED BY <2>1, <2>4, <2>a, <4>2 DEF Taken
    <3>3. Taken(q, r) \in Int BY <1>2 DEF InPhase
    <3>4. Len(c) = Sent(q, r) - Taken(q, r) BY <2>2, <2>4, <3>1
    <3>5. ASSUME NEW j \in 1 .. Len(d)
          PROVE  \/ d[j] = Held /\ j = Len(d) /\ Waiting(q, r)
                 \/ d[j] = [from |-> q, to |-> r, value |-> Taken(q, r)' + j - 1]
      <4>1. j + 1 \in 1 .. Len(c) /\ d[j] = c[j + 1] BY <1>5
      <4>2. \/ c[j + 1] = Held /\ j + 1 = Len(c) /\ Waiting(q, r)
            \/ c[j + 1] = [from |-> q, to |-> r, value |-> Taken(q, r) + (j + 1) - 1]
        BY <2>2, <2>4, <3>1, <4>1
      <4>3. Taken(q, r) + (j + 1) - 1 = Taken(q, r)' + j - 1 BY <3>2, <3>3
      <4> QED BY <1>5, <4>1, <4>2, <4>3
    <3>6. d = msgs'[q][r] OBVIOUS
    <3> HIDE DEF c, d
    <3>7. Len(d) = Sent(q, r) - Taken(q, r)' BY <1>5, <2>a, <2>4, <3>2, <3>3, <3>4
    <3> QED BY <2>1, <2>4, <3>1, <3>5, <3>6, <3>7
  <2> QED BY <2>3, <2>4
<1>11. Channels' BY <1>10 DEF Channels
<1>12. ASSUME NEW b \in Rank, NEW x, NEW i, NEW s,
              x = recv_from(b)', i = pos'[b].iter, s = pos'[b].step
       PROVE  PostedOf(b, x)' /\ (InPhase(b)' => LandedAt(b, x, i, s)')
  <2>1. x = recv_from(b) /\ (InPhase(b)' <=> InPhase(b)) /\ i = pos[b].iter /\ s = pos[b].step
    BY <1>1, <1>12, OtherPhase
  <2>2. /\ PostedOf(b, x)
        /\ InPhase(b) => LandedAt(b, x, i, s)
    BY <2>1, ReceivesAre
  <2>3. PostStep' = PostStep /\ UnpackStep' = UnpackStep /\ WaitStep' = WaitStep BY <1>1, SameMode
  <2>4. \A y : ByMessage(y, b)' <=> ByMessage(y, b) BY <1>1, MailFrame
  <2>5. CASE b # r
    <3>1. posted'[b] = posted[b] /\ hostRecv'[b] = hostRecv[b] /\ recvBuf'[b] = recvBuf[b]
          /\ fbRecv'[b] = fbRecv[b]
      BY <1>1, <1>2, <2>5 DEF Mail, Buffers
    <3>2. Posting(b)' <=> Posting(b) BY <1>1, <2>3 DEF Posting
    <3>3. ByMessage(posted[b], b)' <=> ByMessage(posted[b], b)
      <4>1. mode' = mode /\ ipc' = ipc BY <1>1
      <4>2. IpcOk(posted[b], b)' <=> IpcOk(posted[b], b) BY Zenon, <3>1, <4>1 DEF IpcOk
      <4> QED BY <1>1, <3>1, <4>2 DEF ByMessage
    <3>4. PostedOf(b, x)' BY <2>1, <2>2, <3>1, <3>2, <3>3 DEF PostedOf
    <3>5. LandedAt(b, x, i, s)' <=> LandedAt(b, x, i, s)
      BY <1>1, <2>3, <2>4, <3>1 DEF LandedAt, LandingAt
    <3> QED BY <2>1, <2>2, <3>4, <3>5
  <2>6. CASE b = r
    <3>1. posted'[r] = None BY <1>1, <1>3
    <3>2. x = q BY <1>2, <2>1, <2>6
    <3>3. mode # "single" /\ mode \in ModeNames BY <1>2 DEF ByMessage, Hosts
    <3>4. mode = "staged" => s # 8
      <4>1. mode = "staged" => WaitStep = 6 BY <3>3, MessageSteps
      <4> QED BY <1>2, <2>1, <2>6, <4>1 DEF Posting
    <3>5. LandingAt(r, s)' = m
      BY <1>1, <1>2, <3>3, <3>4 DEF LandingAt, Buffers, TwoSided, ModeNames
    <3> QED BY <2>1, <2>6, <3>1, <3>2, <3>5 DEF PostedOf, LandedAt
  <2> QED BY <2>5, <2>6
<1>13. Receives' BY <1>12, ReceivesNext
<1> QED BY <1>7, <1>8, <1>11, <1>13

-----------------------------------------------------------------------------
(* The copies into the peers' windows.                                     *)

LEMMA BarrierIn ==
  ASSUME Hosts, Barriers, NEW r \in Rank, NEW q \in Rank,
         NEW i \in 0 .. Total - 1, NEW k \in 1 .. LastPhase, NEW s \in BarrierSteps
  PROVE  LET p == [iter |-> i, phase |-> k, step |-> s] IN
         /\ p \in Place
         /\ AtLeast(pos[r], p) /\ pos[r] # p => AtLeast(pos[q], p)
<1> DEFINE p == [iter |-> i, phase |-> k, step |-> s]
<1> USE Constants, Phases, PhaseLength
<1>1. mode \in ModeNames BY DEF Hosts
<1>2. s \in 1 .. PhaseLen BY <1>1 DEF BarrierSteps, PhaseLen, ModeNames
<1>3. p \in Place BY <1>1, <1>2 DEF Place
<1>4. p # Done BY DEF Done
<1>5. Position(p)
  <2>1. p.iter # -1 /\ p.iter # Total /\ p.phase # 0 /\ ~(p.phase > LastPhase) BY <1>1
  <2>2. Steps(p) = PhaseSteps[mode] BY <2>1 DEF Steps
  <2>3. Len(Steps(p)) = PhaseLen BY <1>1, <2>2
  <2>4. p.phase \in 0 .. LastSection(p.iter) BY <1>1 DEF LastSection
  <2> QED BY <1>2, <2>3, <2>4 DEF Position
<1>6. BarrierAt(p) BY <1>1, <1>3, <1>4, <1>5, BarrierPlaces DEF InPhases, Iterating
<1> QED BY <1>3, <1>4, <1>5, <1>6 DEF Barriers, Place

CopiedAt(r, q, i, s, z) ==
  IpcOk(r, q) /\ s > 4 /\ ~InStream(r, <<"copy", q>>) /\ ~AtLeast(pos[q], z)
    => recvBuf[q] = [from |-> r, to |-> q, value |-> i]

LEMMA CopiesAre ==
  Copies <=> \A r \in Rank : InPhase(r) /\ mode = "buffered" =>
               CopiedAt(r, send_to(r), pos[r].iter, pos[r].step, [pos[r] EXCEPT !.step = 11])
BY Zenon DEF Copies, CopiedAt

LEMMA CopiesNext ==
  ASSUME mode' = mode, ipc' = ipc,
         \A r \in Rank : InPhase(r)' /\ mode = "buffered" =>
           \A q, i, s, z :
             q = send_to(r)' /\ i = pos'[r].iter /\ s = pos'[r].step /\ z = [pos'[r] EXCEPT !.step = 11]
               => CopiedAt(r, q, i, s, z)'
  PROVE  Copies'
<1> SUFFICES ASSUME NEW r \in Rank, InPhase(r)', mode' = "buffered"
             PROVE  IpcOk(r, send_to(r))' /\ pos'[r].step > 4 /\ ~InStream(r, <<"copy", send_to(r)>>)'
                      /\ ~AtLeast(pos'[send_to(r)'], [pos'[r] EXCEPT !.step = 11])
                    => recvBuf'[send_to(r)'] = [from |-> r, to |-> send_to(r)', value |-> pos'[r].iter]
  BY Zenon DEF Copies
<1>1. PICK q, i, s, z : q = send_to(r)' /\ i = pos'[r].iter /\ s = pos'[r].step
                        /\ z = [pos'[r] EXCEPT !.step = 11]
  OBVIOUS
<1>2. CopiedAt(r, q, i, s, z)' BY <1>1
<1> QED BY <1>1, <1>2 DEF CopiedAt, InStream, IpcOk

LEMMA HostCopies ==
  ASSUME Hosts, Queues, Conf, Streams, Buffers, Copies, NEW h \in Rank, Host(h)
  PROVE  Copies'
<1> DEFINE p == pos[h]  w == What(p)
<1> USE Constants
<1>1. /\ pos[h] # Done /\ GoOn(h) /\ mode' = mode /\ ipc' = ipc
      /\ IF w = "h2d" THEN recvBuf' = [recvBuf EXCEPT ![h] = hostRecv[h]] ELSE recvBuf' = recvBuf
  BY HostEffect DEF Effect
<1>2. /\ pos'[h] = Following(pos[h]) /\ \A b \in Rank : b # h => pos'[b] = pos[b]
  BY <1>1, HostPositions
<1>3. mode \in ModeNames /\ p \in Place /\ Position(p) BY DEF Hosts
<1>4. mode = "buffered" => w # "h2d" BY <1>1, <1>3, Where DEF PlaceOf
<1>5. \A b \in Rank : pos[b] \in Place /\ pos'[b] \in Place BY <1>1, HostPositions DEF Hosts
<1>6. ASSUME NEW b \in Rank, NEW z \in Place, AtLeast(pos[b], z) PROVE AtLeast(pos'[b], z)
  <2>1. CASE b # h BY <1>2, <1>6, <2>1
  <2>2. CASE b = h
    <3>1. AtLeast(pos'[h], pos[h]) BY <1>1, <1>2, <1>3, Successor
    <3> QED BY <1>5, <1>6, <2>2, <3>1, AtLeastOrder
  <2> QED BY <2>1, <2>2
<1>7. ASSUME NEW r \in Rank, InPhase(r)', mode = "buffered", NEW q, NEW i, NEW s, NEW z,
             q = send_to(r)', i = pos'[r].iter, s = pos'[r].step, z = [pos'[r] EXCEPT !.step = 11]
      PROVE  CopiedAt(r, q, i, s, z)'
  <2>1. recvBuf' = recvBuf BY <1>1, <1>4, <1>7
  <2>2. z \in Place /\ s \in Nat BY <1>5, <1>7 DEF Place
  <2>3. IpcOk(r, q)' <=> IpcOk(r, q) BY <1>1 DEF IpcOk
  <2>4. CASE r # h
    <3>1. pos'[r] = pos[r] /\ stream'[r] = stream[r] BY <1>2, <2>4, HostQueue
    <3>2. InPhase(r) /\ q = send_to(r) BY <1>1, <1>7, <3>1, OtherPhase
    <3>3. CopiedAt(r, q, i, s, z) BY <1>7, <3>1, <3>2, CopiesAre
    <3>4. q \in Rank BY <3>2, Peers, InPhaseIs
    <3>5. AtLeast(pos[q], z) => AtLeast(pos'[q], z) BY <1>6, <2>2, <3>4
    <3>6. InStream(r, <<"copy", q>>)' <=> InStream(r, <<"copy", q>>) BY <3>1, OtherStreams
    <3> QED BY <2>1, <2>3, <3>3, <3>5, <3>6 DEF CopiedAt
  <2>5. CASE r = h
    <3> SUFFICES ASSUME IpcOk(h, q), s > 4, ~InStream(h, <<"copy", q>>)', ~AtLeast(pos'[q], z)
                 PROVE  recvBuf'[q] = [from |-> h, to |-> q, value |-> i]
      BY <2>3, <2>5 DEF CopiedAt
    <3>1. /\ InPhase(h) /\ InPhases(p) /\ i = p.iter /\ pos'[h].phase = p.phase /\ s = p.step + 1
          /\ q = send_to(h)
      BY <1>1, <1>2, <1>7, <2>2, <2>5, SamePhase
    <3>2. q \in Rank /\ q # h BY <3>1, Peers
    <3>3. z = [pos[h] EXCEPT !.step = 11] BY <1>5, <1>7, <2>5, <3>1 DEF Place
    <3>4. pos'[q] = pos[q] BY <1>2, <3>2
    <3>5. InStream(h, <<"copy", q>>)' <=> InStream(h, <<"copy", q>>) \/ New(h, <<"copy", q>>)
      BY HostQueue
    <3>6. p.step # 4
      <4>1. SUFFICES ASSUME p.step = 4 PROVE FALSE OBVIOUS
      <4>2. w = "copy" BY <1>3, <1>7, <3>1, <4>1, NamedSteps
      <4>3. New(h, <<"copy", q>>) BY <3>1, <4>2 DEF New
      <4> QED BY <3>5, <4>3
    <3>7. p.step > 4 BY <1>3, <2>2, <3>1, <3>6 DEF Place
    <3>8. CopiedAt(h, q, i, p.step, z) BY <1>7, <3>1, <3>3, CopiesAre
    <3> QED BY <2>1, <3>4, <3>5, <3>7, <3>8 DEF CopiedAt
  <2> QED BY <2>4, <2>5
<1>8. \A r \in Rank : InPhase(r)' /\ mode = "buffered" =>
        \A q, i, s, z :
          q = send_to(r)' /\ i = pos'[r].iter /\ s = pos'[r].step /\ z = [pos'[r] EXCEPT !.step = 11]
            => CopiedAt(r, q, i, s, z)'
  BY <1>7
<1> QED BY <1>1, <1>8, CopiesNext

\* The phase that copies into a window and the phase that reads it are one.
LEMMA OneCopier ==
  ASSUME Hosts, Queues, Barriers, mode = "buffered",
         NEW h \in Rank, NEW r \in Rank, NEW x \in Rank,
         InPhase(h), InPhase(r), h # x, r # x, pos[h].phase = Meeting(h, x),
         pos[r].phase = Meeting(r, x), pos[h].step = 5, pos[r].step > 4,
         ~AtLeast(pos[x], [pos[r] EXCEPT !.step = 11])
  PROVE  h = r
<1> DEFINE i == pos[h].iter  k == pos[h].phase  j == pos[r].iter  l == pos[r].phase
<1> USE Constants
<1>0. 11 \in BarrierSteps BY DEF BarrierSteps
<1>1. /\ i \in 0 .. Total - 1 /\ j \in 0 .. Total - 1 /\ k \in 1 .. LastPhase /\ l \in 1 .. LastPhase
      /\ pos[h] \in Place /\ pos[r] \in Place /\ pos[x] \in Place
  BY DEF InPhase, Hosts
<1>2. LastPhase = P - 1 BY DEF LastPhase
<1> DEFINE a == [iter |-> i, phase |-> k, step |-> 11]  b == [iter |-> j, phase |-> l, step |-> 11]
<1>3. /\ a \in Place /\ b \in Place
      /\ AtLeast(pos[h], b) /\ pos[h] # b => AtLeast(pos[x], b)
      /\ AtLeast(pos[r], a) /\ pos[r] # a => AtLeast(pos[h], a)
  BY <1>0, <1>1, BarrierIn
<1>4. b = [pos[r] EXCEPT !.step = 11] BY <1>1 DEF Place
<1>5. ~(AtLeast(pos[h], b) /\ pos[h] # b) BY <1>3, <1>4
<1>6. ~AtLeast(pos[h], a) BY <1>1 DEF AtLeast, Place
<1>7. ~(AtLeast(pos[r], a) /\ pos[r] # a) BY <1>3, <1>6
<1>8. k = l
  <2>1. ~(i > j) BY <1>1, <1>5 DEF AtLeast, Place
  <2>2. ~(i = j /\ k > l) BY <1>1, <1>5 DEF AtLeast, Place
  <2>3. ~(j > i) BY <1>1, <1>7 DEF AtLeast, Place
  <2>4. ~(i = j /\ l > k) BY <1>1, <1>7 DEF AtLeast, Place
  <2> QED BY <1>1, <1>2, <2>1, <2>2, <2>3, <2>4
<1>9. (x + k) % P = h /\ (x + l) % P = r BY <1>1, <1>2, MeetingPhase
<1> QED BY <1>8, <1>9

\* What a step of a stream does to the buffers.
LEMMA RunBuffers ==
  ASSUME Hosts, Queues, Conf, Streams, Barriers, Blocks, Matrices, Buffers, SendBufs,
         NEW h \in Rank, Run(h)
  PROVE  /\ Buffers' /\ fbRecv' = fbRecv /\ hostRecv' = hostRecv /\ hostSend' = hostSend
         /\ \/ recvBuf' = recvBuf /\ Head(stream[h])[1] # "copy"
            \/ \E x \in Rank :
                 /\ Head(stream[h]) = <<"copy", x>> /\ x # h /\ InPhase(h) /\ mode = "buffered"
                 /\ pos[h].phase = Meeting(h, x) /\ pos[h].step = 5
                 /\ recvBuf' = [recvBuf EXCEPT ![x] = [from |-> h, to |-> x, value |-> pos[h].iter]]
<1> DEFINE e == Head(stream[h])
<1> USE Constants
<1>1. PICK q \in Rank :
           \/ e = <<"init", h>> /\ q = h /\ InitKernel(h)
           \/ e = <<"write", q>> /\ Moved(h, q) = <<"write", q>> /\ Write(h, q)
           \/ e = <<"pack", q>> /\ Moved(h, q) = <<"pack", q>> /\ Pack(h, q)
           \/ /\ e = <<"copy", q>> /\ Copy(h, q)
              /\ q # h /\ InPhase(h) /\ mode = "buffered" /\ IpcOk(h, q)
              /\ pos[h].phase = Meeting(h, q) /\ pos[h].step = 5
           \/ e = <<"unpack", q>> /\ Unpack(h, q) /\ q # h /\ ~Straight(q, h)
  BY RunKind
<1>2. InStream(h, e) BY RunQueue
<1> HIDE DEF e
<1>3. CASE e = <<"init", h>> /\ InitKernel(h)
  BY <1>3 DEF InitKernel, bufVars, Buffers, e
<1>4. CASE e = <<"write", q>> /\ Write(h, q) BY <1>4 DEF Write, bufVars, Buffers, e
<1>5. CASE e = <<"pack", q>> /\ Moved(h, q) = <<"pack", q>> /\ Pack(h, q)
  <2>1. A[h][q] = pos[h].iter /\ pos[h].iter \in 0 .. Total - 1 BY <1>2, <1>5, InFlightValue
  <2>2. [from |-> h, to |-> q, value |-> A[h][q]] \in Block BY <2>1 DEF Block
  <2> QED BY <1>5, <2>2 DEF Pack, Buffers, e
<1>6. CASE /\ e = <<"copy", q>> /\ Copy(h, q)
           /\ q # h /\ InPhase(h) /\ mode = "buffered" /\ IpcOk(h, q)
           /\ pos[h].phase = Meeting(h, q) /\ pos[h].step = 5
  <2>1. send_to(h) = q BY <1>6, Peers, InPhaseIs
  <2>2. ~Straight(h, q) BY <1>6 DEF Straight
  <2>3. pos[h].step > PackStep + 1 BY <1>6 DEF PackStep
  <2>4. sendBuf[h] = [from |-> h, to |-> q, value |-> pos[h].iter]
    BY <1>6, <2>1, <2>2, <2>3, PackedBlock
  <2>5. recvBuf' = [recvBuf EXCEPT ![q] = [from |-> h, to |-> q, value |-> pos[h].iter]]
    BY <1>6, <2>4 DEF Copy
  <2>6. Buffers' BY <1>6 DEF Copy, Buffers
  <2> QED BY <1>6, <2>5, <2>6 DEF Copy, e
<1>7. CASE e = <<"unpack", q>> /\ Unpack(h, q) BY <1>7 DEF Unpack, bufVars, Buffers, e
<1> QED BY <1>1, <1>3, <1>4, <1>5, <1>6, <1>7

LEMMA RunCopies ==
  ASSUME Hosts, Queues, Conf, Streams, Barriers, Blocks, Matrices, Buffers, SendBufs, Copies,
         NEW h \in Rank, Run(h)
  PROVE  Copies'
<1> DEFINE e == Head(stream[h])
<1> USE Constants
<1>1. /\ mode' = mode /\ ipc' = ipc /\ pos' = pos /\ InStream(h, e)
      /\ \A r \in Rank : r # h => stream'[r] = stream[r]
      /\ \A op : InStream(h, op)' <=> InStream(h, op) /\ op # e
  BY RunQueue
<1>2. \/ recvBuf' = recvBuf /\ e[1] # "copy"
      \/ \E x \in Rank :
           /\ e = <<"copy", x>> /\ x # h /\ InPhase(h) /\ mode = "buffered"
           /\ pos[h].phase = Meeting(h, x) /\ pos[h].step = 5
           /\ recvBuf' = [recvBuf EXCEPT ![x] = [from |-> h, to |-> x, value |-> pos[h].iter]]
  BY RunBuffers
<1> HIDE DEF e
<1>3. ASSUME NEW r \in Rank, InPhase(r)', mode = "buffered", NEW q, NEW i, NEW s, NEW z,
             q = send_to(r)', i = pos'[r].iter, s = pos'[r].step, z = [pos'[r] EXCEPT !.step = 11]
      PROVE  CopiedAt(r, q, i, s, z)'
  <2>1. InPhase(r) /\ q = send_to(r) BY <1>1, <1>3, OtherPhase
  <2>2. CopiedAt(r, q, i, s, z) BY <1>1, <1>3, <2>1, CopiesAre
  <2>3. IpcOk(r, q)' <=> IpcOk(r, q) BY <1>1 DEF IpcOk
  <2>4. q \in Rank /\ q # r /\ pos[r].phase = Meeting(r, q) BY <2>1, Peers, InPhaseIs
  <2>5. InStream(r, <<"copy", q>>)' <=> InStream(r, <<"copy", q>>) /\ ~(r = h /\ e = <<"copy", q>>)
    <3>1. CASE r = h BY <1>1, <3>1
    <3>2. CASE r # h BY <1>1, <3>2, OtherStreams
    <3> QED BY <3>1, <3>2
  <2>6. CASE recvBuf' = recvBuf /\ e[1] # "copy"
    <3>1. e # <<"copy", q>> BY <2>6
    <3> QED BY <1>1, <2>2, <2>3, <2>5, <2>6, <3>1 DEF CopiedAt
  <2>7. CASE \E x \in Rank :
               /\ e = <<"copy", x>> /\ x # h /\ InPhase(h) /\ mode = "buffered"
               /\ pos[h].phase = Meeting(h, x) /\ pos[h].step = 5
               /\ recvBuf' = [recvBuf EXCEPT ![x] = [from |-> h, to |-> x, value |-> pos[h].iter]]
    <3>1. PICK x \in Rank :
               /\ e = <<"copy", x>> /\ x # h /\ InPhase(h) /\ mode = "buffered"
               /\ pos[h].phase = Meeting(h, x) /\ pos[h].step = 5
               /\ recvBuf' = [recvBuf EXCEPT ![x] = [from |-> h, to |-> x, value |-> pos[h].iter]]
      BY <2>7
    <3> SUFFICES ASSUME s > 4, ~AtLeast(pos[q], z), IpcOk(r, q), ~InStream(r, <<"copy", q>>)'
                 PROVE  recvBuf'[q] = [from |-> r, to |-> q, value |-> i]
      BY <1>1, <2>3 DEF CopiedAt
    <3>2. CASE x = q
      <4>1. h = r BY <1>1, <1>3, <2>1, <2>4, <3>1, <3>2, OneCopier
      <4> QED BY <1>1, <1>3, <3>1, <3>2, <4>1 DEF Buffers
    <3>3. CASE x # q
      <4>1. recvBuf'[q] = recvBuf[q] BY <2>4, <3>1, <3>3 DEF Buffers
      <4>2. e # <<"copy", q>> BY <3>1, <3>3
      <4> QED BY <2>2, <2>5, <4>1, <4>2 DEF CopiedAt
    <3> QED BY <3>2, <3>3
  <2> QED BY <1>2, <2>6, <2>7
<1>4. \A r \in Rank : InPhase(r)' /\ mode = "buffered" =>
        \A q, i, s, z :
          q = send_to(r)' /\ i = pos'[r].iter /\ s = pos'[r].step /\ z = [pos'[r] EXCEPT !.step = 11]
            => CopiedAt(r, q, i, s, z)'
  BY <1>3
<1> QED BY <1>1, <1>4, CopiesNext

LEMMA ReceivesFrame ==
  ASSUME Receives, mode' = mode, ipc' = ipc, pos' = pos, posted' = posted,
         fbRecv' = fbRecv, hostRecv' = hostRecv, mode # "buffered" => recvBuf' = recvBuf
  PROVE  Receives'
<1>1. ASSUME NEW b \in Rank, NEW x, NEW i, NEW s,
             x = recv_from(b)', i = pos'[b].iter, s = pos'[b].step
      PROVE  PostedOf(b, x)' /\ (InPhase(b)' => LandedAt(b, x, i, s)')
  <2>1. x = recv_from(b) /\ (InPhase(b)' <=> InPhase(b)) /\ i = pos[b].iter /\ s = pos[b].step
    BY <1>1, OtherPhase
  <2>2. PostedOf(b, x) /\ (InPhase(b) => LandedAt(b, x, i, s)) BY <2>1, ReceivesAre
  <2>3. PostStep' = PostStep /\ UnpackStep' = UnpackStep /\ WaitStep' = WaitStep BY SameMode
  <2>4. \A y : ByMessage(y, b)' <=> ByMessage(y, b) BY MailFrame
  <2>5. Posting(b)' <=> Posting(b) BY <2>3 DEF Posting
  <2>6. ByMessage(posted[b], b)' <=> ByMessage(posted[b], b) BY DEF ByMessage, IpcOk
  <2>7. PostedOf(b, x)' BY <2>1, <2>2, <2>5, <2>6 DEF PostedOf
  <2>8. LandingAt(b, s)' = LandingAt(b, s) BY DEF LandingAt
  <2>9. LandedAt(b, x, i, s)' <=> LandedAt(b, x, i, s) BY <2>3, <2>4, <2>8 DEF LandedAt
  <2> QED BY <2>1, <2>2, <2>7, <2>9
<1> QED BY <1>1, ReceivesNext

LEMMA ChannelsFrame ==
  ASSUME Channels, mode' = mode, ipc' = ipc, pos' = pos, posted' = posted, msgs' = msgs
  PROVE  Channels'
<1>1. ASSUME NEW a \in Rank, NEW b \in Rank
      PROVE  IF ByMessage(a, b)'
             THEN /\ Len(msgs'[a][b]) = Sent(a, b)' - Taken(a, b)'
                  /\ \A j \in 1 .. Len(msgs'[a][b]) :
                       \/ msgs'[a][b][j] = Held /\ j = Len(msgs'[a][b]) /\ Waiting(a, b)'
                       \/ msgs'[a][b][j] = [from |-> a, to |-> b, value |-> Taken(a, b)' + j - 1]
             ELSE msgs'[a][b] = <<>>
  <2>1. /\ ByMessage(a, b)' <=> ByMessage(a, b)
        /\ Sent(a, b)' = Sent(a, b) /\ (Waiting(a, b)' <=> Waiting(a, b))
        /\ Taken(a, b)' = Taken(a, b)
    BY MailFrame
  <2> QED BY <2>1 DEF Channels
<1> QED BY <1>1 DEF Channels

LEMMA RunReceives ==
  ASSUME Hosts, Queues, Conf, Streams, Barriers, Blocks, Matrices, Buffers, SendBufs, Mail,
         Receives, Channels, NEW h \in Rank, Run(h)
  PROVE  Mail' /\ Receives' /\ Channels'
<1>1. /\ mode' = mode /\ ipc' = ipc /\ pos' = pos /\ posted' = posted /\ msgs' = msgs
  BY RunQueue
<1>2. /\ fbRecv' = fbRecv /\ hostRecv' = hostRecv
      /\ mode # "buffered" => recvBuf' = recvBuf
  BY RunBuffers
<1>3. Mail' BY <1>1 DEF Mail
<1> QED BY <1>1, <1>2, <1>3, ReceivesFrame, ChannelsFrame

-----------------------------------------------------------------------------
(* What an unpack finds.                                                   *)

Exact(r, q) == InStream(r, <<"unpack", q>>) => Source(r, q) = [from |-> q, to |-> r, value |-> B[r][q]]

LEMMA UnpacksAre ==
  ASSUME Queues PROVE UnpacksExact <=> \A r, q \in Rank : Exact(r, q)
<1>1. ASSUME UnpacksExact, NEW r \in Rank, NEW q \in Rank PROVE Exact(r, q)
  <2>1. SUFFICES ASSUME InStream(r, <<"unpack", q>>)
                 PROVE  Source(r, q) = [from |-> q, to |-> r, value |-> B[r][q]]
    BY DEF Exact
  <2>2. PICK i \in 1 .. Len(stream[r]) : stream[r][i] = <<"unpack", q>> BY <2>1 DEF InStream
  <2>3. i \in DOMAIN stream[r] BY <2>2 DEF Queues
  <2>4. stream[r][i][1] = "unpack" /\ stream[r][i][2] = q BY <2>2
  <2>5. LET x == stream[r][i][2] IN Source(r, x) = [from |-> x, to |-> r, value |-> B[r][x]]
    BY Zenon, <1>1, <2>3, <2>4 DEF UnpacksExact
  <2> QED BY <2>4, <2>5
<1>2. ASSUME \A r, q \in Rank : Exact(r, q) PROVE UnpacksExact
  <2>1. SUFFICES ASSUME NEW r \in Rank, NEW i \in DOMAIN stream[r], stream[r][i][1] = "unpack"
                 PROVE  LET x == stream[r][i][2] IN
                        Source(r, x) = [from |-> x, to |-> r, value |-> B[r][x]]
    BY Zenon DEF UnpacksExact
  <2>2. i \in 1 .. Len(stream[r]) /\ stream[r][i] \in Op BY DEF Queues
  <2>3. PICK x \in Rank : stream[r][i] = <<"unpack", x>> BY <2>1, <2>2 DEF Op
  <2>4. InStream(r, <<"unpack", x>>) BY <2>2, <2>3 DEF InStream
  <2>5. Source(r, x) = [from |-> x, to |-> r, value |-> B[r][x]] BY <1>2, <2>4 DEF Exact
  <2>6. stream[r][i][2] = x BY <2>3
  <2> QED BY <2>5, <2>6
<1> QED BY <1>1, <1>2

LEMMA UnpacksNext ==
  ASSUME Queues', \A r, q \in Rank : Exact(r, q)' PROVE UnpacksExact'
<1>1. SUFFICES ASSUME NEW r \in Rank, NEW i \in DOMAIN stream'[r], stream'[r][i][1] = "unpack"
               PROVE  (IF mode' = "direct" \/ (mode' = "buffered" /\ ~({r, stream'[r][i][2]} \in ipc'))
                       THEN fbRecv'[r] ELSE recvBuf'[r])
                      = [from |-> stream'[r][i][2], to |-> r, value |-> B'[r][stream'[r][i][2]]]
  BY Zenon DEF UnpacksExact, Source, IpcOk
<1>2. i \in 1 .. Len(stream'[r]) /\ stream'[r][i] \in Op BY DEF Queues
<1>3. PICK x \in Rank : stream'[r][i] = <<"unpack", x>> BY <1>1, <1>2 DEF Op
<1>4. InStream(r, <<"unpack", x>>)' BY <1>2, <1>3 DEF InStream
<1>5. Source(r, x)' = [from |-> x, to |-> r, value |-> B'[r][x]] BY <1>4 DEF Exact
<1>6. stream'[r][i][2] = x BY <1>3
<1>7. (IF mode' = "direct" \/ (mode' = "buffered" /\ ~({r, x} \in ipc')) THEN fbRecv'[r] ELSE recvBuf'[r])
      = [from |-> x, to |-> r, value |-> B'[r][x]]
  BY <1>5 DEF Source, IpcOk
<1> QED BY <1>6, <1>7, Zenon

LEMMA SameSource ==
  ASSUME NEW r, NEW q, mode' = mode, ipc' = ipc,
         fbRecv'[r] = fbRecv[r] \/ ~(mode = "direct" \/ (mode = "buffered" /\ ~IpcOk(r, q))),
         recvBuf'[r] = recvBuf[r] \/ mode = "direct" \/ (mode = "buffered" /\ ~IpcOk(r, q))
  PROVE  Source(r, q)' = Source(r, q)
BY DEF Source, IpcOk

\* An unpack that is launched finds its block.
LEMMA LaunchedUnpack ==
  ASSUME Hosts, Queues, Conf, Streams, Barriers, Blocks, Mail, Copies, Receives,
         NEW h \in Rank, Host(h), NEW q \in Rank, New(h, <<"unpack", q>>)
  PROVE  Source(h, q) = [from |-> q, to |-> h, value |-> B[h][q]]
<1> DEFINE p == pos[h]  w == What(p)  i == p.iter  k == p.phase
<1> USE Constants
<1>1. pos[h] # Done /\ w \in {"unpackFallback", "unpack"} /\ q = recv_from(h)
      /\ (w = "unpackFallback" => ~IpcOk(h, q))
  <2>1. \A b : Moved(h, b) # <<"unpack", q>> BY DEF Moved
  <2>2. pos[h] # Done BY HostEffect DEF Effect
  <2> QED BY <2>1, <2>2 DEF New
<1>2. mode \in ModeNames /\ p \in Place /\ Position(p) BY DEF Hosts
<1>3. InPhases(p) /\ mode # "single" /\ p.step = UnpackStep /\ (w = "unpackFallback" <=> mode = "direct")
  BY <1>1, <1>2, Where DEF PlaceOf
<1>4. q # h /\ k = Meeting(q, h) BY <1>1, <1>3, Peers
<1>5. i \in 0 .. Total - 1 /\ k \in 1 .. LastPhase /\ InPhase(h)
  BY <1>3, InPhaseIs DEF InPhases, Iterating
<1>6. /\ PostStep \in Nat /\ WaitStep \in Nat /\ UnpackStep \in Nat
      /\ PostStep < WaitStep /\ WaitStep < UnpackStep
      /\ mode = "staged" => UnpackStep = 8
  BY <1>2, <1>3, MessageSteps
<1>7. posted[h] = None BY <1>3, <1>6 DEF Receives, Posting
<1>8. ~InStream(h, <<"unpack", q>>) BY NewIsNew
<1>9. ~Straight(q, h) BY <1>1, <1>3, <1>4 DEF Straight, IpcOk
<1>10. B[h][q] = i
  <2>1. Initialised(h) BY <1>5 DEF Initialised
  <2>2. Times(p, Meeting(q, h), UnpackStep) = i BY <1>3, <1>4, <1>5, <1>6 DEF Times, One
  <2>3. Unpacked(h, q) = i BY <1>5, <1>8, <2>2 DEF Unpacked, One
  <2> QED BY <1>9, <2>1, <2>3 DEF Blocks
<1>11. CASE ~IpcOk(q, h)
  <2>1. ByMessage(q, h) BY <1>3, <1>4, <1>11 DEF ByMessage
  <2>2. LandedAt(h, q, i, p.step) BY <1>1, <1>5, ReceivesAre
  <2>3. LandingAt(h, p.step) = [from |-> q, to |-> h, value |-> i]
    BY <1>3, <1>6, <1>7, <2>1, <2>2 DEF LandedAt
  <2>4. LandingAt(h, p.step) = Source(h, q)
    BY <1>2, <1>3, <1>6, <1>11 DEF LandingAt, Source, IpcOk, ModeNames
  <2> QED BY <1>10, <2>3, <2>4
<1>12. CASE IpcOk(q, h)
  <2>1. mode = "buffered"
    <3>1. ~TwoSided BY <1>12 DEF Conf, IpcOk
    <3>2. mode # "direct" BY <1>1, <1>3, <1>12 DEF IpcOk
    <3> QED BY <1>2, <1>3, <3>1, <3>2 DEF TwoSided, ModeNames
  <2>2. p.step = 9 BY <1>3, <2>1 DEF UnpackStep
  <2>3. 8 \in BarrierSteps /\ 11 \in BarrierSteps BY <2>1 DEF BarrierSteps
  <2> DEFINE a == [iter |-> i, phase |-> k, step |-> 8]  b == [iter |-> i, phase |-> k, step |-> 11]
  <2>4. /\ a \in Place /\ b \in Place
        /\ AtLeast(pos[h], a) /\ pos[h] # a => AtLeast(pos[q], a)
        /\ AtLeast(pos[q], b) /\ pos[q] # b => AtLeast(pos[h], b)
    BY <1>5, <2>3, BarrierIn
  <2>5. pos[q] \in Place BY DEF Hosts
  <2>6. AtLeast(pos[q], a) BY <1>2, <2>2, <2>4 DEF AtLeast, Place
  <2>7. ~(AtLeast(pos[q], b) /\ pos[q] # b) BY <1>2, <2>2, <2>4 DEF AtLeast, Place
  <2>8. pos[q].iter = i /\ pos[q].phase = k /\ pos[q].step >= 8
    <3>1. pos[q].iter >= i BY <1>2, <2>5, <2>6 DEF AtLeast, Place
    <3>2. ~(pos[q].iter > i) BY <1>2, <2>5, <2>7 DEF AtLeast, Place
    <3>3. pos[q].iter = i BY <1>2, <2>5, <3>1, <3>2 DEF Place
    <3>4. ~(pos[q].phase > k) BY <1>2, <2>5, <2>7, <3>3 DEF AtLeast, Place
    <3> QED BY <1>2, <2>5, <2>6, <3>3, <3>4 DEF AtLeast, Place
  <2>9. InPhase(q) BY <1>5, <2>8 DEF InPhase
  <2>10. send_to(q) = h BY <1>4, <2>8, <2>9, Peers, InPhaseIs
  <2>11. ~InStream(q, <<"copy", h>>)
    <3>1. SUFFICES ASSUME InStream(q, <<"copy", h>>) PROVE FALSE OBVIOUS
    <3>2. MayRun(q, <<"copy", h>>) BY <3>1, StreamsByOp
    <3>3. pos[q].step = 5 BY <3>2 DEF MayRun
    <3> QED BY <2>8, <3>3
  <2>12. [pos[q] EXCEPT !.step = 11] = b BY <2>5, <2>8 DEF Place
  <2>13. ~AtLeast(pos[h], b) BY <1>2, <2>2 DEF AtLeast, Place
  <2>14. CopiedAt(q, h, pos[q].iter, pos[q].step, [pos[q] EXCEPT !.step = 11])
    BY <2>1, <2>9, <2>10, CopiesAre
  <2>15. pos[q].step > 4 BY <2>5, <2>8 DEF Place
  <2>16. recvBuf[h] = [from |-> q, to |-> h, value |-> i]
    BY <1>12, <2>8, <2>11, <2>12, <2>13, <2>14, <2>15 DEF CopiedAt
  <2>17. Source(h, q) = recvBuf[h] BY <1>12, <2>1 DEF Source, IpcOk
  <2> QED BY <1>10, <2>16, <2>17
<1> QED BY <1>11, <1>12

LEMMA HostUnpacks ==
  ASSUME Hosts, Queues, Conf, Streams, Barriers, Blocks, Buffers, Mail, Copies, Receives,
         UnpacksExact, NEW h \in Rank, Host(h)
  PROVE  UnpacksExact'
<1> DEFINE p == pos[h]  w == What(p)
<1>1. /\ mode' = mode /\ ipc' = ipc /\ fbRecv' = fbRecv /\ B' = B
      /\ IF w = "h2d" THEN recvBuf' = [recvBuf EXCEPT ![h] = hostRecv[h]] ELSE recvBuf' = recvBuf
  BY HostEffect DEF Effect
<1>2. ASSUME NEW r \in Rank, NEW q \in Rank, InStream(r, <<"unpack", q>>)'
      PROVE  Source(r, q)' = [from |-> q, to |-> r, value |-> B'[r][q]]
  <2>1. CASE r # h
    <3>1. InStream(r, <<"unpack", q>>) BY <1>2, <2>1, HostQueue, OtherStreams
    <3>2. recvBuf'[r] = recvBuf[r] BY <1>1, <2>1 DEF Buffers
    <3>3. Source(r, q)' = Source(r, q) BY <1>1, <3>2, SameSource
    <3> QED BY <1>1, <3>1, <3>3, UnpacksAre DEF Exact
  <2>2. CASE r = h /\ New(h, <<"unpack", q>>)
    <3>1. w # "h2d" BY <2>2, NewIsNew DEF LaunchKinds
    <3>2. Source(h, q)' = Source(h, q) BY <1>1, <3>1, SameSource
    <3> QED BY <1>1, <2>2, <3>2, LaunchedUnpack
  <2>3. CASE r = h /\ ~New(h, <<"unpack", q>>)
    <3>1. InStream(h, <<"unpack", q>>) BY <1>2, <2>3, HostQueue
    <3>2. w # "h2d" BY <3>1, HostIdle
    <3>3. Source(h, q)' = Source(h, q) BY <1>1, <3>2, SameSource
    <3> QED BY <1>1, <2>3, <3>1, <3>3, UnpacksAre DEF Exact
  <2> QED BY <2>1, <2>2, <2>3
<1>3. \A r, q \in Rank : Exact(r, q)' BY <1>2 DEF Exact
<1>4. Queues' BY HostQueue
<1> QED BY <1>3, <1>4, UnpacksNext

\* No copy arrives while an unpack is in the stream.
LEMMA NoCopyBeforeUnpack ==
  ASSUME Hosts, Barriers, mode = "buffered", NEW h \in Rank, NEW r \in Rank, NEW q \in Rank,
         InPhase(h), pos[h].step = 5, MayRun(r, <<"unpack", q>>)
  PROVE  FALSE
<1> DEFINE i == pos[r].iter  k == pos[r].phase
           a == [iter |-> i, phase |-> k, step |-> 8]  b == [iter |-> i, phase |-> k, step |-> 11]
<1> USE Constants
<1>1. i \in 0 .. Total - 1 /\ q # r /\ k = Meeting(q, r) /\ pos[r].step = 10
  BY DEF MayRun, Moved, UnpackStep
<1>2. LastPhase = P - 1 BY DEF LastPhase
<1>3. k \in 1 .. LastPhase BY <1>1, <1>2, MeetingPhase
<1>4. 8 \in BarrierSteps /\ 11 \in BarrierSteps BY DEF BarrierSteps
<1>5. /\ AtLeast(pos[r], a) /\ pos[r] # a => AtLeast(pos[h], a)
      /\ AtLeast(pos[h], b) /\ pos[h] # b => AtLeast(pos[r], b)
  BY <1>1, <1>3, <1>4, BarrierIn
<1>6. pos[r] \in Place /\ pos[h] \in Place BY DEF Hosts
<1>7. AtLeast(pos[h], a) BY <1>1, <1>5, <1>6 DEF AtLeast, Place
<1>8. AtLeast(pos[h], b) /\ pos[h] # b BY <1>6, <1>7 DEF AtLeast, Place
<1>9. AtLeast(pos[r], b) BY <1>5, <1>8
<1> QED BY <1>1, <1>6, <1>9 DEF AtLeast, Place

LEMMA RunUnpacks ==
  ASSUME Hosts, Queues, Conf, Streams, Barriers, Blocks, Matrices, Buffers, SendBufs, UnpacksExact,
         NEW h \in Rank, Run(h)
  PROVE  UnpacksExact'
<1> DEFINE e == Head(stream[h])
<1>1. /\ Queues' /\ mode' = mode /\ ipc' = ipc /\ pos' = pos /\ MayRun(h, e)
      /\ \A b \in Rank : b # h => stream'[b] = stream[b]
      /\ \A op : InStream(h, op)' <=> InStream(h, op) /\ op # e
  BY RunQueue
<1>2. /\ fbRecv' = fbRecv
      /\ \/ recvBuf' = recvBuf /\ e[1] # "copy"
         \/ \E x \in Rank :
              /\ e = <<"copy", x>> /\ x # h /\ InPhase(h) /\ mode = "buffered"
              /\ pos[h].step = 5 /\ \A r \in Rank : r # x => recvBuf'[r] = recvBuf[r]
  BY RunBuffers DEF Buffers
<1>3. PICK x \in Rank :
           \/ e = <<"init", h>> /\ InitKernel(h)
           \/ e = <<"write", x>> /\ Moved(h, x) = <<"write", x>> /\ Write(h, x)
           \/ e = <<"pack", x>> /\ Pack(h, x)
           \/ e = <<"copy", x>> /\ Copy(h, x)
           \/ e = <<"unpack", x>> /\ Unpack(h, x)
  BY RunKind
<1>4. B \in [Rank -> [Rank -> BlockValue]] BY DEF Matrices
<1>5. ASSUME NEW r \in Rank, NEW q \in Rank, InStream(r, <<"unpack", q>>)'
      PROVE  Source(r, q)' = [from |-> q, to |-> r, value |-> B'[r][q]]
  <2>1. InStream(r, <<"unpack", q>>) /\ (r = h => e # <<"unpack", q>>)
    <3>1. CASE r = h BY <1>1, <1>5, <3>1
    <3>2. CASE r # h BY <1>1, <1>5, <3>2, OtherStreams
    <3> QED BY <3>1, <3>2
  <2>2. Source(r, q) = [from |-> q, to |-> r, value |-> B[r][q]] BY <2>1, UnpacksAre DEF Exact
  <2>3. MayRun(r, <<"unpack", q>>) BY <2>1, StreamsByOp
  <2>4. pos[r].iter \in 0 .. Total - 1 /\ q # r /\ ~Straight(q, r) BY <2>1, InFlightValue
  <2>5. recvBuf'[r] = recvBuf[r] BY <1>2, <2>3, NoCopyBeforeUnpack
  <2>6. Source(r, q)' = Source(r, q) BY <1>1, <1>2, <2>5, SameSource
  <2> HIDE DEF e
  <2>7. B'[r][q] = B[r][q]
    <3>1. CASE e = <<"init", h>> /\ InitKernel(h)
      <4>1. pos[h].iter = -1 BY <1>1, <3>1 DEF MayRun, Moved, Straight
      <4>2. r # h BY <2>4, <4>1, Constants
      <4> QED BY <1>4, <3>1, <4>2 DEF InitKernel
    <3>2. CASE e = <<"write", x>> /\ Moved(h, x) = <<"write", x>> /\ Write(h, x)
      <4>1. Straight(h, x) BY <3>2 DEF Moved
      <4>2. ~(r = x /\ q = h) BY <2>4, <4>1
      <4> QED BY <1>4, <3>2, <4>2 DEF Write
    <3>3. CASE e = <<"pack", x>> /\ Pack(h, x) BY <3>3 DEF Pack
    <3>4. CASE e = <<"copy", x>> /\ Copy(h, x) BY <3>4 DEF Copy
    <3>5. CASE e = <<"unpack", x>> /\ Unpack(h, x)
      <4>1. ~(r = h /\ q = x) BY <2>1, <3>5
      <4> QED BY <1>4, <3>5, <4>1 DEF Unpack
    <3> QED BY <1>3, <3>1, <3>2, <3>3, <3>4, <3>5
  <2> QED BY <2>2, <2>6, <2>7
<1>6. \A r, q \in Rank : Exact(r, q)' BY <1>5 DEF Exact
<1> QED BY <1>1, <1>6, UnpacksNext

LEMMA DeliverUnpacks ==
  ASSUME Hosts, Queues, Conf, Streams, SendBufs, Buffers, Mail, Channels, Receives, UnpacksExact,
         NEW h \in Rank, NEW d \in Rank, Deliver(h, d)
  PROVE  UnpacksExact'
<1>1. mode' = mode /\ ipc' = ipc /\ stream' = stream /\ B' = B BY DEF Deliver, conf
<1>2. /\ InPhase(d) /\ Posting(d)
      /\ \A r \in Rank : r # d => recvBuf'[r] = recvBuf[r] /\ fbRecv'[r] = fbRecv[r]
  <2> DEFINE m == [from |-> h, to |-> d, value |-> pos[d].iter]
  <2>1. /\ InPhase(d) /\ Posting(d)
        /\ recvBuf' = IF mode = "gpumpi" THEN [recvBuf EXCEPT ![d] = m] ELSE recvBuf
        /\ fbRecv' = IF TwoSided THEN fbRecv ELSE [fbRecv EXCEPT ![d] = m]
    BY Delivered
  <2> HIDE DEF m
  <2>2. recvBuf \in [Rank -> Block] /\ fbRecv \in [Rank -> Block] BY DEF Buffers
  <2> QED BY <2>1, <2>2
<1>3. mode # "single"
  <2>1. ByMessage(h, d) BY Delivered
  <2> QED BY <2>1 DEF ByMessage
<1>4. mode \in ModeNames BY DEF Hosts
<1>5. ASSUME NEW r \in Rank, NEW q \in Rank, InStream(r, <<"unpack", q>>)'
      PROVE  Source(r, q)' = [from |-> q, to |-> r, value |-> B'[r][q]]
  <2>1. InStream(r, <<"unpack", q>>) BY <1>1, <1>5 DEF InStream
  <2>2. MayRun(r, <<"unpack", q>>) BY <2>1, StreamsByOp
  <2>3. pos[r].step <= 2 \/ pos[r].step > WaitStep
    BY <1>3, <1>4, <2>2 DEF MayRun, Moved, UnpackStep, WaitStep, SendStep, ModeNames
  <2>4. r # d
    <3>1. pos[d].step \in Nat BY DEF Hosts, Place
    <3>2. PostStep >= 3 BY DEF PostStep
    <3>3. PostStep \in Nat /\ WaitStep \in Nat BY DEF PostStep, WaitStep, SendStep
    <3> QED BY <1>2, <2>3, <3>1, <3>2, <3>3 DEF Posting
  <2>5. Source(r, q)' = Source(r, q) BY <1>1, <1>2, <2>4, SameSource
  <2>6. Source(r, q) = [from |-> q, to |-> r, value |-> B[r][q]] BY <2>1, UnpacksAre DEF Exact
  <2> QED BY <1>1, <2>5, <2>6
<1>6. \A r, q \in Rank : Exact(r, q)' BY <1>5 DEF Exact
<1>7. Queues' BY <1>1 DEF Queues
<1> QED BY <1>6, <1>7, UnpacksNext

-----------------------------------------------------------------------------
(* What a step leaves alone.                                               *)

LEMMA ConfNext == ASSUME Conf, mode' = mode, ipc' = ipc PROVE Conf'
BY DEF Conf, TwoSided, IpcOk

LEMMA HostsNext == ASSUME Hosts, mode' = mode, pos' = pos PROVE Hosts'
<1>1. \A r \in Rank : Position(pos[r])' BY SameMode DEF Hosts
<1> QED BY <1>1 DEF Hosts, ModeNames

LEMMA BarriersNext == ASSUME Barriers, mode' = mode, pos' = pos PROVE Barriers'
<1>1. \A p : (Position(p)' <=> Position(p)) /\ (BarrierAt(p)' <=> BarrierAt(p)) BY SameMode
<1> QED BY <1>1 DEF Barriers

LEMMA StreamsNext ==
  ASSUME Streams, mode' = mode, ipc' = ipc, pos' = pos, stream' = stream PROVE Streams'
<1>1. \A r, op : MayRun(r, op)' <=> MayRun(r, op) BY OtherMayRun
<1>2. \A r \in Rank : \A op : InStream(r, op)' <=> InStream(r, op) BY DEF InStream
<1>3. \A r \in Rank : Once(r)' <=> Once(r) BY DEF Once
<1>4. \A r \in Rank : Once(r)' /\ \A op : InStream(r, op)' => MayRun(r, op)'
  BY <1>1, <1>2, <1>3, StreamsByOp
<1>5. Streams' <=> \A r \in Rank : Once(r)' /\ \A op : InStream(r, op)' => MayRun(r, op)'
  BY Zenon DEF Streams, Once, InStream
<1> QED BY <1>4, <1>5

LEMMA BlocksNext ==
  ASSUME Hosts, Blocks, mode' = mode, ipc' = ipc, pos' = pos, stream' = stream, A' = A, B' = B
  PROVE  Blocks'
<1>1. ASSUME NEW r \in Rank, NEW q \in Rank, Initialised(r)'
      PROVE  /\ A'[r][q] = Written(r, q)'
             /\ B'[r][q] = IF Straight(q, r)' THEN Written(q, r)' ELSE Unpacked(r, q)'
  <2>1. Initialised(r) BY <1>1 DEF Initialised
  <2>2. /\ A[r][q] = Written(r, q)
        /\ B[r][q] = IF Straight(q, r) THEN Written(q, r) ELSE Unpacked(r, q)
    BY <2>1 DEF Blocks
  <2>3. Straight(q, r)' <=> Straight(q, r) BY DEF Straight, IpcOk
  <2>4. ASSUME NEW a, NEW b PROVE Written(a, b)' = Written(a, b) /\ Unpacked(a, b)' = Unpacked(a, b)
    <3>1. PICK m : m = Moved(a, b) OBVIOUS
    <3>2. (InStream(a, m)' <=> InStream(a, m))
          /\ (InStream(a, <<"unpack", b>>)' <=> InStream(a, <<"unpack", b>>))
      BY DEF InStream
    <3> QED BY <3>1, <3>2, OtherCounts
  <2> QED BY <2>2, <2>3, <2>4
<1> QED BY <1>1 DEF Blocks

LEMMA SendBufsFrame ==
  ASSUME SendBufs, mode' = mode, ipc' = ipc, pos' = pos, stream' = stream,
         sendBuf' = sendBuf, hostSend' = hostSend
  PROVE  SendBufs'
<1>1. ASSUME NEW r \in Rank, NEW q, NEW i, NEW s, InPhase(r)', mode # "single",
             q = send_to(r)', i = pos'[r].iter, s = pos'[r].step
      PROVE  SendBufOf(r, q, i, s)'
  <2>1. q = send_to(r) /\ i = pos[r].iter /\ s = pos[r].step /\ InPhase(r) BY <1>1, OtherPhase
  <2>2. SendBufOf(r, q, i, s) BY <1>1, <2>1, SendBufsAre
  <2>3. InStream(r, <<"pack", q>>)' <=> InStream(r, <<"pack", q>>) BY DEF InStream
  <2>4. Straight(r, q)' <=> Straight(r, q) BY DEF Straight, IpcOk
  <2> QED BY <2>2, <2>3, <2>4, SameMode DEF SendBufOf
<1> QED BY <1>1, SendBufsNext

LEMMA CopiesFrame ==
  ASSUME Copies, mode' = mode, ipc' = ipc, pos' = pos, stream' = stream,
         mode = "buffered" => recvBuf' = recvBuf
  PROVE  Copies'
<1>1. ASSUME NEW r \in Rank, InPhase(r)', mode = "buffered", NEW q, NEW i, NEW s, NEW z,
             q = send_to(r)', i = pos'[r].iter, s = pos'[r].step, z = [pos'[r] EXCEPT !.step = 11]
      PROVE  CopiedAt(r, q, i, s, z)'
  <2>1. /\ q = send_to(r) /\ i = pos[r].iter /\ s = pos[r].step /\ InPhase(r)
        /\ z = [pos[r] EXCEPT !.step = 11]
    BY <1>1, OtherPhase
  <2>2. CopiedAt(r, q, i, s, z) BY <1>1, <2>1, CopiesAre
  <2>3. InStream(r, <<"copy", q>>)' <=> InStream(r, <<"copy", q>>) BY DEF InStream
  <2>4. IpcOk(r, q)' <=> IpcOk(r, q) BY DEF IpcOk
  <2> QED BY <1>1, <2>2, <2>3, <2>4 DEF CopiedAt
<1> QED BY <1>1, CopiesNext

LEMMA UnpacksFrame ==
  ASSUME Queues, UnpacksExact, mode' = mode, ipc' = ipc, stream' = stream, B' = B,
         fbRecv' = fbRecv, recvBuf' = recvBuf
  PROVE  UnpacksExact'
<1>1. ASSUME NEW r \in Rank, NEW q \in Rank PROVE Exact(r, q)'
  <2>1. Exact(r, q) BY UnpacksAre
  <2>2. Source(r, q)' = Source(r, q) BY SameSource
  <2>3. InStream(r, <<"unpack", q>>)' <=> InStream(r, <<"unpack", q>>) BY DEF InStream
  <2> QED BY <2>1, <2>2, <2>3 DEF Exact
<1>2. Queues' BY DEF Queues
<1> QED BY <1>1, <1>2, UnpacksNext

\* A host step keeps the kinds of value that the buffers and the mail hold.
LEMMA HostMail ==
  ASSUME Hosts, Buffers, Matrices, Mail, Conf, NEW h \in Rank, Host(h)
  PROVE  Buffers' /\ Matrices' /\ Mail' /\ Conf'
<1> DEFINE w == What(pos[h])
<1>1. Effect(h, w) BY HostEffect
<1> HIDE DEF w
<1>2. mode' = mode /\ ipc' = ipc /\ A' = A /\ B' = B BY <1>1 DEF Effect
<1>3. Buffers'
  <2>1. /\ sendBuf' = sendBuf /\ fbRecv' = fbRecv /\ hostRecv' = hostRecv
        /\ hostSend' = hostSend \/ hostSend' = [hostSend EXCEPT ![h] = sendBuf[h]]
        /\ recvBuf' = recvBuf \/ recvBuf' = [recvBuf EXCEPT ![h] = hostRecv[h]]
    BY <1>1 DEF Effect
  <2> QED BY <2>1 DEF Buffers
<1>4. Mail'
  <2>1. mode \in ModeNames /\ pos[h] \in Place /\ Position(pos[h]) BY DEF Hosts
  <2>2. pos[h] # Done BY <1>1 DEF Effect
  <2>3. w \in {"post", "isend"} => InPhases(pos[h]) BY <2>1, <2>2, Where DEF w
  <2>4. w \in {"post", "isend"} => send_to(h) \in Rank /\ recv_from(h) \in Rank BY <2>3, Peers
  <2>5. posted' \in [Rank -> Rank \cup {None}]
    <3>1. posted' = posted \/ (w = "post" /\ posted' = [posted EXCEPT ![h] = recv_from(h)])
      BY <1>1 DEF Effect
    <3> QED BY <2>4, <3>1 DEF Mail
  <2>6. msgs' \in [Rank -> [Rank -> Seq(Block)]]
    <3>1. msgs' = msgs \/ (w = "isend" /\ msgs' = [msgs EXCEPT ![h][send_to(h)] = Append(@, Held)])
      BY <1>1 DEF Effect
    <3>2. CASE msgs' = msgs BY <3>2 DEF Mail
    <3>3. CASE w = "isend" /\ msgs' = [msgs EXCEPT ![h][send_to(h)] = Append(@, Held)]
      <4>1. PICK q \in Rank : q = send_to(h) BY <2>4, <3>3
      <4>2. PICK c : c = Append(msgs[h][q], Held) OBVIOUS
      <4>3. Held \in Block BY Constants DEF Held, Block
      <4>4. msgs[h][q] \in Seq(Block) BY DEF Mail
      <4>5. c \in Seq(Block) BY <4>2, <4>3, <4>4
      <4>6. msgs' = [msgs EXCEPT ![h] = [msgs[h] EXCEPT ![q] = c]] BY <3>3, <4>1, <4>2
      <4>7. [msgs[h] EXCEPT ![q] = c] \in [Rank -> Seq(Block)] BY <4>5 DEF Mail
      <4> QED BY <4>6, <4>7 DEF Mail
    <3> QED BY <3>1, <3>2, <3>3
  <2> QED BY <2>5, <2>6 DEF Mail
<1> QED BY <1>2, <1>3, <1>4, ConfNext DEF Matrices

-----------------------------------------------------------------------------
(* The invariant.                                                          *)

LEMMA InitInv == Init => TransposeInv
<1> SUFFICES ASSUME Init PROVE TransposeInv OBVIOUS
<1> USE Constants
<1>1. /\ mode \in ModeNames /\ \A r \in Rank : pos[r] = Start /\ stream[r] = <<>>
      /\ \A r \in Rank : posted[r] = None /\ \A q \in Rank : msgs[q][r] = <<>>
  BY DEF Init
<1>2. Start \in Place /\ Start.iter = -1 /\ Start.step = 1 /\ Start.phase = 0 BY DEF Start, Place
<1>3. Steps(Start) = << "init", "sync", "barrier" >> BY <1>2 DEF Steps
<1>4. Position(Start) BY <1>2, <1>3 DEF Position, LastSection
<1>5. Hosts
  <2>1. pos \in [Rank -> Place] BY <1>2 DEF Init
  <2> QED BY <1>1, <1>4, <2>1 DEF Hosts
<1>6. Queues BY DEF Init, Queues
<1>7. Conf BY DEF Init, Conf, IpcOk
<1>8. Empty \in Block BY DEF Empty, Block
<1>9. Buffers BY <1>8 DEF Init, Buffers
<1>10. Matrices BY DEF Init, Matrices, BlockValue
<1>11. Mail BY DEF Init, Mail
<1>12. Types BY <1>5, <1>6, <1>7, <1>9, <1>10, <1>11, TypesAre
<1>13. \A r \in Rank : \A op : ~InStream(r, op)
  BY <1>1, <1>6, DrainedHoldsNothing DEF Drained
<1>14. Streams
  <2>1. \A r \in Rank : Len(stream[r]) = 0 BY <1>1
  <2> QED BY <2>1 DEF Streams
<1>15. Barriers
  <2>1. SUFFICES ASSUME NEW r \in Rank, NEW q \in Rank, NEW p \in Place, Position(p), p # Done,
                        BarrierAt(p), AtLeast(pos[r], p), pos[r] # p
                 PROVE  AtLeast(pos[q], p)
    BY DEF Barriers, Place
  <2> QED BY <1>1, <1>2, <2>1 DEF AtLeast, Place
<1>16. \A r \in Rank : ~Initialised(r) /\ ~InPhase(r) BY <1>1, <1>2 DEF Initialised, InPhase
<1>17. Blocks /\ SendBufs /\ Copies /\ Receives
  BY <1>1, <1>16 DEF Blocks, SendBufs, Copies, Receives
<1>18. Channels
  <2>1. ASSUME NEW q \in Rank, NEW r \in Rank PROVE Sent(q, r) = 0 /\ Taken(q, r) = 0
    <3>1. \A k, s : Times(pos[q], k, s) = 0 /\ Times(pos[r], k, s) = 0 BY <1>1, <1>2 DEF Times
    <3>2. posted[r] # q BY <1>1 DEF None, Rank
    <3>3. Times(pos[q], Meeting(q, r), SendStep) = 0 /\ Times(pos[r], Meeting(q, r), PostStep) = 0
      BY Zenon, <3>1
    <3>4. One(posted[r] = q) = 0 BY <3>2 DEF One
    <3>5. Sent(q, r) = 0 BY Zenon, <3>3 DEF Sent
    <3>6. Taken(q, r) = Times(pos[r], Meeting(q, r), PostStep) - One(posted[r] = q) BY DEF Taken
    <3>7. Taken(q, r) = 0 - 0 BY Zenon, <3>3, <3>4, <3>6
    <3> QED BY <3>5, <3>7
  <2> QED BY <1>1, <2>1 DEF Channels
<1>19. UnpacksExact
  <2>1. \A r, q \in Rank : Exact(r, q) BY <1>13 DEF Exact
  <2> QED BY <1>6, <2>1, UnpacksAre
<1> QED BY <1>12, <1>14, <1>15, <1>17, <1>18, <1>19 DEF TransposeInv

LEMMA HostInv == ASSUME TransposeInv, NEW h \in Rank, Host(h) PROVE TransposeInv'
<1> DEFINE w == What(pos[h])
<1>1. /\ Hosts /\ Queues /\ Conf /\ Buffers /\ Matrices /\ Mail
      /\ Streams /\ Barriers /\ Blocks /\ SendBufs /\ Copies /\ Receives /\ Channels /\ UnpacksExact
  BY TypesAre DEF TransposeInv
<1>2. Effect(h, w) BY HostEffect
<1>3. /\ pos[h] # Done /\ GoOn(h) /\ mode' = mode
      /\ w = "barrier" => \A q \in Rank : AtLeast(pos[q], pos[h])
  BY <1>2 DEF Effect
<1>4. Hosts' BY <1>1, <1>3, HostPositions
<1>5. Queues' /\ Streams' BY <1>1, HostQueue, HostStreams
<1>6. Buffers' /\ Matrices' /\ Mail' /\ Conf' BY <1>1, HostMail
<1>7. Barriers' BY <1>1, <1>3, HostBarriers
<1>8. Blocks' /\ SendBufs' /\ Copies' /\ Channels' /\ UnpacksExact'
  BY <1>1, HostBlocks, HostSendBufs, HostCopies, HostChannels, HostUnpacks
<1>9. Receives' BY <1>1, HostPosted, HostLanded, ReceivesNext
<1>10. Types' <=> Hosts' /\ Queues' /\ Conf' /\ Buffers' /\ Matrices' /\ Mail' BY TypesAre, PTL
<1> QED BY <1>4, <1>5, <1>6, <1>7, <1>8, <1>9, <1>10 DEF TransposeInv

LEMMA RunInv == ASSUME TransposeInv, NEW h \in Rank, Run(h) PROVE TransposeInv'
<1>1. /\ Hosts /\ Queues /\ Conf /\ Buffers /\ Matrices /\ Mail
      /\ Streams /\ Barriers /\ Blocks /\ SendBufs /\ Copies /\ Receives /\ Channels /\ UnpacksExact
  BY TypesAre DEF TransposeInv
<1>2. Queues' /\ Streams' /\ mode' = mode /\ ipc' = ipc /\ pos' = pos BY <1>1, RunQueue
<1>3. Hosts' /\ Conf' /\ Barriers' BY <1>1, <1>2, HostsNext, ConfNext, BarriersNext
<1>4. Blocks' /\ Matrices' BY <1>1, RunBlocks
<1>5. Buffers' BY <1>1, RunBuffers
<1>6. Mail' /\ Receives' /\ Channels' BY <1>1, RunReceives
<1>7. SendBufs' /\ Copies' /\ UnpacksExact' BY <1>1, RunSendBufs, RunCopies, RunUnpacks
<1>8. Types' <=> Hosts' /\ Queues' /\ Conf' /\ Buffers' /\ Matrices' /\ Mail' BY TypesAre, PTL
<1> QED BY <1>2, <1>3, <1>4, <1>5, <1>6, <1>7, <1>8 DEF TransposeInv

LEMMA MailInv ==
  ASSUME TransposeInv, NEW q \in Rank, NEW r \in Rank, Buffer(q, r) \/ Deliver(q, r)
  PROVE  TransposeInv'
<1>1. /\ Hosts /\ Queues /\ Conf /\ Buffers /\ Matrices /\ Mail
      /\ Streams /\ Barriers /\ Blocks /\ SendBufs /\ Copies /\ Receives /\ Channels /\ UnpacksExact
  BY TypesAre DEF TransposeInv
<1>2. /\ mode' = mode /\ ipc' = ipc /\ pos' = pos /\ stream' = stream /\ A' = A /\ B' = B
      /\ sendBuf' = sendBuf /\ hostSend' = hostSend
  BY DEF Buffer, Deliver, conf, bufVars
<1>3. Hosts' /\ Conf' /\ Barriers' BY <1>1, <1>2, HostsNext, ConfNext, BarriersNext
<1>4. Queues' /\ Matrices' BY <1>1, <1>2 DEF Queues, Matrices
<1>5. Streams' /\ Blocks' /\ SendBufs'
  BY <1>1, <1>2, StreamsNext, BlocksNext, SendBufsFrame
<1>6. Types' <=> Hosts' /\ Queues' /\ Conf' /\ Buffers' /\ Matrices' /\ Mail' BY TypesAre, PTL
<1>7. CASE Buffer(q, r)
  <2>1. /\ recvBuf' = recvBuf /\ fbRecv' = fbRecv /\ hostRecv' = hostRecv /\ posted' = posted
    BY <1>7 DEF Buffer, bufVars
  <2>2. Buffers' BY <1>1, <1>2, <2>1 DEF Buffers
  <2>3. Mail' /\ Channels' BY <1>1, <1>7, BufferMail
  <2>4. Copies' /\ Receives' /\ UnpacksExact'
    BY <1>1, <1>2, <2>1, CopiesFrame, ReceivesFrame, UnpacksFrame
  <2> QED BY <1>3, <1>4, <1>5, <1>6, <2>2, <2>3, <2>4 DEF TransposeInv
<1>8. CASE Deliver(q, r)
  <2>1. Mail' /\ Buffers' /\ Channels' /\ Receives' BY <1>1, <1>8, DeliverMail
  <2>2. UnpacksExact' BY <1>1, <1>8, DeliverUnpacks
  <2>3. mode = "buffered" => recvBuf' = recvBuf BY <1>8 DEF Deliver
  <2>4. Copies' BY <1>1, <1>2, <2>3, CopiesFrame
  <2> QED BY <1>3, <1>4, <1>5, <1>6, <2>1, <2>2, <2>4 DEF TransposeInv
<1> QED BY <1>7, <1>8

LEMMA StutterInv == ASSUME TransposeInv, UNCHANGED vars PROVE TransposeInv'
<1>1. /\ Hosts /\ Queues /\ Conf /\ Buffers /\ Matrices /\ Mail
      /\ Streams /\ Barriers /\ Blocks /\ SendBufs /\ Copies /\ Receives /\ Channels /\ UnpacksExact
  BY TypesAre DEF TransposeInv
<1>2. /\ mode' = mode /\ ipc' = ipc /\ pos' = pos /\ stream' = stream /\ A' = A /\ B' = B
      /\ sendBuf' = sendBuf /\ recvBuf' = recvBuf /\ fbRecv' = fbRecv
      /\ hostSend' = hostSend /\ hostRecv' = hostRecv /\ posted' = posted /\ msgs' = msgs
  BY DEF vars, conf, bufVars
<1>3. Hosts' /\ Conf' /\ Barriers' BY <1>1, <1>2, HostsNext, ConfNext, BarriersNext
<1>4. Queues' /\ Matrices' /\ Buffers' /\ Mail' BY <1>1, <1>2 DEF Queues, Matrices, Buffers, Mail
<1>5. Streams' /\ Blocks' /\ SendBufs'
  BY <1>1, <1>2, StreamsNext, BlocksNext, SendBufsFrame
<1>6. Copies' /\ Receives' /\ Channels' /\ UnpacksExact'
  BY <1>1, <1>2, CopiesFrame, ReceivesFrame, ChannelsFrame, UnpacksFrame
<1>7. Types' <=> Hosts' /\ Queues' /\ Conf' /\ Buffers' /\ Matrices' /\ Mail' BY TypesAre, PTL
<1> QED BY <1>3, <1>4, <1>5, <1>6, <1>7 DEF TransposeInv

\* In every reachable state of every transport, with any number of ranks and
\* iterations and any mixture of peers in and out of reach, the invariant holds:
\* the main loop of transpose_ipc.cu:574-745 keeps its one send buffer, its one
\* window and its one fallback buffer apart between phases by synchronising the
\* stream, waiting for the messages and the barriers alone.
THEOREM TransposeInvariant == Spec => []TransposeInv
<1>1. TransposeInv /\ [Next]_vars => TransposeInv'
  <2> SUFFICES ASSUME TransposeInv, [Next]_vars PROVE TransposeInv' OBVIOUS
  <2>1. ASSUME NEW r \in Rank, Host(r) PROVE TransposeInv' BY <2>1, HostInv
  <2>2. ASSUME NEW r \in Rank, Run(r) PROVE TransposeInv' BY <2>2, RunInv
  <2>3. ASSUME NEW q \in Rank, NEW r \in Rank, Buffer(q, r) \/ Deliver(q, r) PROVE TransposeInv'
    BY <2>3, MailInv
  <2>4. CASE UNCHANGED vars BY <2>4, StutterInv
  <2> QED BY <2>1, <2>2, <2>3, <2>4 DEF Next, Terminated
<1> QED BY InitInv, <1>1, PTL DEF Spec

-----------------------------------------------------------------------------
(* What follows from it.                                                   *)

\* The values of every variable keep within their kinds; no block of B is added
\* to more often than there are iterations (transpose_ipc.cu:574-745).
THEOREM TypeCorrect == Spec => []TypeOK
<1>1. TransposeInv => TypeOK BY DEF TransposeInv, Types
<1> QED BY <1>1, TransposeInvariant, PTL

\* From its launch until it has run, an unpack finds the block of its phase and
\* iteration, from the right peer, in the one buffer that all phases share
\* (transpose_ipc.cu:618-735).
THEOREM UnpackFindsItsBlock == Spec => []UnpacksExact
<1>1. TransposeInv => UnpacksExact BY DEF TransposeInv
<1> QED BY <1>1, TransposeInvariant, PTL

LEMMA PastTheEnd ==
  ASSUME TransposeInv, NEW r \in Rank, pos[r].iter = Total, pos[r].step >= 3, NEW q \in Rank
  PROVE  pos[q].iter = Total /\ \A op : ~InStream(q, op)
<1> DEFINE p == [iter |-> Total, phase |-> 0, step |-> 2]
<1> USE Constants
<1>1. Hosts /\ Queues /\ Streams /\ Barriers BY TypesAre DEF TransposeInv
<1>2. pos[r] \in Place /\ pos[q] \in Place /\ Position(pos[q]) BY <1>1 DEF Hosts
<1>3. p \in Place /\ p # Done BY DEF Place, Done
<1>4. Steps(p) = << "sync", "barrier", "verify" >> BY DEF Steps
<1>5. Position(p) /\ BarrierAt(p) BY <1>4 DEF Position, BarrierAt, LastSection
<1>6. AtLeast(pos[r], p) /\ pos[r] # p BY <1>2 DEF AtLeast, Place
<1>7. AtLeast(pos[q], p) BY <1>1, <1>3, <1>5, <1>6 DEF Barriers, Place
<1>8. pos[q].iter = Total BY <1>2, <1>7 DEF AtLeast, Place
<1>9. ASSUME NEW op, InStream(q, op) PROVE FALSE
  <2>1. MayRun(q, op) BY <1>1, <1>9, StreamsByOp
  <2> QED BY <1>8, <2>1 DEF MayRun, InPhase
<1> QED BY <1>8, <1>9

\* A rank that verifies its strip finds each block of each peer in it once for
\* each iteration, added in order, whatever way the block came
\* (transpose_ipc.cu:747-779).
THEOREM StripsComplete == Spec => []BlocksExact
<1>1. ASSUME TransposeInv PROVE BlocksExact
  <2>1. SUFFICES ASSUME NEW r \in Rank, Doing(r, "verify"), NEW q \in Rank
                 PROVE  B[r][q] = Total
    BY DEF BlocksExact
  <2>2. Hosts /\ Blocks BY <1>1, TypesAre DEF TransposeInv
  <2>3. mode \in ModeNames /\ pos[r] \in Place /\ Position(pos[r]) BY <2>2 DEF Hosts
  <2>4. pos[r] # Done /\ What(pos[r]) = "verify" BY <2>1, DoingWhat
  <2>5. pos[r].iter = Total /\ pos[r].step = 3 BY <2>3, <2>4, Where DEF PlaceOf
  <2>6. \A x \in Rank : pos[x].iter = Total /\ \A op : ~InStream(x, op) BY <1>1, <2>5, PastTheEnd
  <2>7. \A x \in Rank : \A k, s : Times(pos[x], k, s) = Total
    BY <2>6, Constants DEF Times
  <2>8. Written(q, r) = Total
    <3>1. One(InStream(q, Moved(q, r))) = 0 BY <2>6 DEF One
    <3>2. Launching(q, r) = Total BY <2>7 DEF Launching
    <3> QED BY <3>1, <3>2, Constants DEF Written
  <2>9. Unpacked(r, q) = Total
    <3>1. One(InStream(r, <<"unpack", q>>)) = 0 BY <2>6 DEF One
    <3>2. Times(pos[r], Meeting(q, r), UnpackStep) = Total BY Zenon, <2>7
    <3> QED BY <3>1, <3>2, Constants DEF Unpacked
  <2>10. Initialised(r) BY <2>5, Constants DEF Initialised
  <2> QED BY <2>2, <2>8, <2>9, <2>10 DEF Blocks
<1> QED BY <1>1, TransposeInvariant, PTL

\* When a rank has verified and frees its window, no kernel, copy or message of
\* a peer is on its way to it (transpose_ipc.cu:737-779).
THEOREM NothingOnItsWay == Spec => []QuietAtFree
<1>1. ASSUME TransposeInv PROVE QuietAtFree
  <2>1. SUFFICES ASSUME NEW r \in Rank, pos[r] = Done, NEW q \in Rank
                 PROVE  /\ msgs[q][r] = <<>>
                        /\ \A i \in DOMAIN stream[q] :
                             stream[q][i] \notin {<<"write", r>>, <<"copy", r>>}
    BY DEF QuietAtFree
  <2>2. Queues /\ Mail /\ Receives /\ Channels BY <1>1, TypesAre DEF TransposeInv
  <2>3. pos[r].iter = Total /\ pos[r].step >= 3 BY <2>1 DEF Done
  <2>4. pos[q].iter = Total /\ \A op : ~InStream(q, op) BY <1>1, <2>3, PastTheEnd
  <2>5. msgs[q][r] = <<>>
    <3>1. CASE ~ByMessage(q, r) BY <2>2, <3>1 DEF Channels
    <3>2. CASE ByMessage(q, r)
      <4>1. \A k, s : Times(pos[q], k, s) = Total /\ Times(pos[r], k, s) = Total
        BY <2>3, <2>4, Constants DEF Times
      <4>2. Times(pos[q], Meeting(q, r), SendStep) = Total
            /\ Times(pos[r], Meeting(q, r), PostStep) = Total
        BY Zenon, <4>1
      <4>3. posted[r] # q
        <5>1. ~InPhase(r) BY <2>3, Constants DEF InPhase
        <5>2. posted[r] = None BY <2>2, <5>1 DEF Receives
        <5> QED BY <5>2 DEF None, Rank
      <4>4. Sent(q, r) - Taken(q, r) = 0
        <5>1. One(posted[r] = q) = 0 BY <4>3 DEF One
        <5>3. Sent(q, r) = Total BY Zenon, <4>2 DEF Sent
        <5>4. Taken(q, r) = Total - 0 BY Zenon, <4>2, <5>1 DEF Taken
        <5> QED BY <5>3, <5>4, Constants
      <4>5. Len(msgs[q][r]) = 0 BY <2>2, <3>2, <4>4 DEF Channels
      <4>6. msgs[q][r] \in Seq(Block) BY <2>2 DEF Mail
      <4> QED BY <4>5, <4>6
    <3> QED BY <3>1, <3>2
  <2>6. ASSUME NEW i \in DOMAIN stream[q] PROVE FALSE
    <3>1. i \in 1 .. Len(stream[q]) BY <2>2 DEF Queues
    <3>2. InStream(q, stream[q][i]) BY <3>1 DEF InStream
    <3> QED BY <2>4, <3>2
  <2> QED BY <2>5, <2>6
<1> QED BY <1>1, TransposeInvariant, PTL
=============================================================================

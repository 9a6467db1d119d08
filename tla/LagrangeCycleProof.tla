------------------------- MODULE LagrangeCycleProof -------------------------
(***************************************************************************)
(* The ranks of a run stay in step, however many there are, wherever they  *)
(* are and however long they run: only the reduction of the time step is   *)
(* needed for it, no message.                                              *)
(*                                                                         *)
(* InStep is not inductive: that rank k has taken its last time step is    *)
(* known from the constraint it computed in that cycle, so the invariant   *)
(* also relates a rank's constraint to its time step.                      *)
(***************************************************************************)
EXTENDS LagrangeCycle, TLAPS

Typed == gen \in [team -> [Fields -> Nat]]
\* A constraint belongs to a cycle whose time step is known.
ConstraintAfterStep == \A r \in team : gen[r]["dtcourant"] <= gen[r]["dt"]
CycleInv == Typed /\ ConstraintAfterStep /\ InStep

\* A new time step, after the first, needs the constraint of every rank.
LEMMA StepNeedsAll ==
  ASSUME NEW r \in team, NEW k \in team, NEW g \in Nat, g # 1
  PROVE  <<k, "dtcourant", g - 1>> \in Recipe(r, "dt", g)
BY DEF Recipe, Own

\* A constraint needs the time step of its own cycle.
LEMMA ConstraintNeedsStep ==
  ASSUME NEW r \in team, NEW g \in Nat
  PROVE  <<r, "dt", g>> \in Recipe(r, "dtcourant", g)
<1>1. <<r, "dt", g>> \in Own(r, {"dt"}, g) BY DEF Own
<1>2. <<r, "dt", g>> \in StrainOf(r, g) BY <1>1 DEF StrainOf
<1>3. Recipe(r, "dtcourant", g) = Own(r, {"ss"}, g) \cup StrainOf(r, g) BY DEF Recipe
<1>4. QED BY <1>2, <1>3

LEMMA InitCycle == CycleInit => CycleInv
BY DEF CycleInit, CycleInv, Typed, ConstraintAfterStep, InStep, Fields, NodeFields, ElemFields, StepFields

\* A step of one rank keeps the invariant.
LEMMA NextCycle ==
  ASSUME CycleInv, NEW r \in team, Compute(r, Advanced(r))
  PROVE  CycleInv'
<1> DEFINE fs == Advanced(r)
<1> USE DEF CycleInv
<1>1. {"dt", "dtcourant"} \subseteq Fields BY DEF Fields, StepFields
<1>2. team' = team BY DEF Compute
<1>3. /\ gen' \in [team -> [Fields -> Nat]]
      /\ \A k \in team : \A f \in Fields :
           gen'[k][f] = IF k = r /\ f \in fs THEN gen[k][f] + 1 ELSE gen[k][f]
  BY DEF Compute, Typed
<1>4. Typed' BY <1>2, <1>3 DEF Typed
<1>5. \A f \in fs : \A d \in Recipe(r, f, gen[r][f] + 1) : d[2] \in Fields => gen'[d[1]][d[2]] >= d[3]
  BY DEF Compute, Available
<1>6. ConstraintAfterStep'
  <2>1. SUFFICES ASSUME NEW k \in team PROVE gen'[k]["dtcourant"] <= gen'[k]["dt"]
    BY <1>2 DEF ConstraintAfterStep
  <2>2. gen[k]["dtcourant"] \in Nat /\ gen[k]["dt"] \in Nat /\ gen[k]["dtcourant"] <= gen[k]["dt"]
    BY <1>1 DEF Typed, ConstraintAfterStep
  <2>3. CASE k = r /\ "dtcourant" \in fs
    <3> DEFINE g == gen[r]["dtcourant"] + 1
    <3>1. g \in Nat BY <2>2, <2>3
    <3>2. <<r, "dt", g>> \in Recipe(r, "dtcourant", g) BY <3>1, ConstraintNeedsStep
    <3>3. gen'[r]["dt"] >= g BY <3>2, <2>3, <1>5, <1>1
    <3>4. gen'[r]["dtcourant"] = g BY <2>3, <1>3, <1>1
    <3>5. QED BY <3>1, <3>3, <3>4, <2>3, <1>3, <1>1
  <2>4. CASE ~(k = r /\ "dtcourant" \in fs)
    BY <2>2, <2>4, <1>3, <1>1
  <2>5. QED BY <2>3, <2>4
<1>7. InStep'
  <2>1. SUFFICES ASSUME NEW i \in team, NEW k \in team PROVE gen'[i]["dt"] <= gen'[k]["dt"] + 1
    BY <1>2 DEF InStep
  <2>2. /\ gen[i]["dt"] \in Nat /\ gen[k]["dt"] \in Nat /\ gen[k]["dtcourant"] \in Nat
        /\ gen[i]["dt"] <= gen[k]["dt"] + 1 /\ gen[k]["dtcourant"] <= gen[k]["dt"]
    BY <1>1 DEF Typed, InStep, ConstraintAfterStep
  <2>3. gen'[k]["dt"] \in Nat /\ gen'[k]["dt"] >= gen[k]["dt"] BY <2>2, <1>3, <1>1
  <2>4. CASE ~(i = r /\ "dt" \in fs) BY <2>2, <2>3, <2>4, <1>3, <1>1
  <2>5. CASE i = k BY <2>3, <2>5
  <2>6. CASE i = r /\ "dt" \in fs /\ i # k
    <3> DEFINE g == gen[r]["dt"] + 1
    <3>1. g \in Nat /\ gen'[i]["dt"] = g BY <2>2, <2>6, <1>3, <1>1
    <3>2. CASE g = 1 BY <3>1, <3>2, <2>3
    <3>3. CASE g # 1
      <4>1. <<k, "dtcourant", g - 1>> \in Recipe(r, "dt", g) BY <3>1, <3>3, StepNeedsAll
      <4>2. gen'[k]["dtcourant"] >= g - 1 BY <4>1, <2>6, <1>5, <1>1
      <4>3. gen'[k]["dtcourant"] = gen[k]["dtcourant"] BY <2>6, <1>3, <1>1
      <4>4. QED BY <4>2, <4>3, <3>1, <2>2, <2>3
    <3>4. QED BY <3>2, <3>3
  <2>7. QED BY <2>4, <2>5, <2>6
<1>8. QED BY <1>4, <1>6, <1>7

\* No rank is more than one time step ahead of another, for every number and
\* position of ranks and every number of cycles (TimeIncrement).
THEOREM RanksInStep == CycleSpec => []InStep
<1>1. CycleInit => CycleInv BY InitCycle
<1>2. CycleInv /\ [CycleNext]_cycleVars => CycleInv'
  <2>1. SUFFICES ASSUME CycleInv, [CycleNext]_cycleVars PROVE CycleInv' OBVIOUS
  <2>2. CASE CycleNext BY <2>1, <2>2, NextCycle DEF CycleNext
  <2>3. CASE UNCHANGED cycleVars
    BY <2>1, <2>3 DEF CycleInv, Typed, ConstraintAfterStep, InStep, cycleVars
  <2>4. QED BY <2>1, <2>2, <2>3
<1>3. CycleInv => InStep BY DEF CycleInv
<1>4. QED BY <1>1, <1>2, <1>3, PTL DEF CycleSpec
============================================================================

--------------------------- MODULE LagrangeCycle ---------------------------
(***************************************************************************)
(* What a cycle of LULESH computes from what, whatever the machine it runs *)
(* on.  A datum is a triple <<rank, field, generation>>; generation 0 is   *)
(* the initial state and generation g is written in cycle g.  Recipe names *)
(* the data a generation of a field is computed from, those of neighbours  *)
(* included; the specification lets the ranks of a team compute the        *)
(* generations in any order the recipes allow.                             *)
(***************************************************************************)
EXTENDS Integers, FiniteSets

CONSTANTS Ranks, Cycles, Loc    \* Loc: where a rank is, <<plane, row, column>>

ASSUME CyclesAssumption == Cycles \in Nat \ {0}

VARIABLES team,                 \* the ranks of the run
          gen                   \* gen[r][f]: generation of field f at rank r
cycleVars == <<team, gen>>

NodeFields == {"x", "xd"}
ElemFields == {"e", "p", "q", "v", "ss"}
StepFields == {"dt", "dtcourant", "dthydro"}
Fields == NodeFields \cup ElemFields \cup StepFields

Delta(r, k) == << Loc[k][1] - Loc[r][1], Loc[k][2] - Loc[r][2], Loc[k][3] - Loc[r][3] >>
Near(r, k) == k # r /\ \A i \in 1..3 : Delta(r, k)[i] \in -1..1
Size(d) == Cardinality({i \in 1..3 : d[i] # 0})
\* Planes before rows before columns, the order of the rank numbers.
Above(d) == \E i \in 1..3 : d[i] > 0 /\ \A j \in 1..(i - 1) : d[j] = 0

\* The ranks whose forces, positions and gradients a rank needs: all that
\* touch it; those above it; those that share a face.
ForceFrom(r) == {k \in team : Near(r, k)}
PosFrom(r) == {k \in team : Near(r, k) /\ Above(Delta(r, k))}
GradFrom(r) == {k \in team : Near(r, k) /\ Size(Delta(r, k)) = 1}

Own(r, fs, g) == {<<r, f, g>> : f \in fs}
Static(r, fs) == Own(r, fs, 0)
\* Positions and velocities are known once the ranks above have sent theirs.
Nodes(r, fs, g) == UNION {Own(k, fs, g) : k \in {r} \cup IF g = 0 THEN {} ELSE PosFrom(r)}

ForceOf(k, g) == Nodes(k, NodeFields, g) \cup Own(k, {"p", "q", "v", "ss"}, g) \cup Static(k, {"volo", "elemMass"})
NodalMass(r) == UNION {Static(k, {"nodalMass"}) : k \in {r} \cup ForceFrom(r)}
GradOf(k, g) == Nodes(k, NodeFields, g) \cup Static(k, {"volo"})
VolumeOf(r, g) == Nodes(r, {"x"}, g) \cup Static(r, {"volo"})
StrainOf(r, g) == Nodes(r, NodeFields, g) \cup Own(r, {"dt"}, g)
Energy(r, g) ==
  Own(r, {"e", "p", "q", "v"}, g - 1) \cup VolumeOf(r, g) \cup StrainOf(r, g) \cup Static(r, {"elemMass"})
    \cup UNION {GradOf(k, g) : k \in {r} \cup GradFrom(r)}

Recipe(r, f, g) ==
  CASE f = "dt" -> Own(r, {"dt"}, g - 1) \cup
                   (IF g = 1 THEN {} ELSE UNION {Own(k, {"dtcourant", "dthydro"}, g - 1) : k \in team})
    [] f = "xd" -> Nodes(r, {"xd"}, g - 1) \cup Own(r, {"dt"}, g) \cup NodalMass(r) \cup Static(r, {"symm"})
                   \cup UNION {ForceOf(k, g - 1) : k \in {r} \cup ForceFrom(r)}
    [] f = "x" -> Nodes(r, {"x"}, g - 1) \cup Own(r, {"xd", "dt"}, g)
    [] f = "v" -> VolumeOf(r, g)
    [] f \in {"e", "p", "q", "ss"} -> Energy(r, g)
    [] f = "dtcourant" -> Own(r, {"ss"}, g) \cup StrainOf(r, g)
    [] f = "dthydro" -> StrainOf(r, g)

CycleInit == gen = [r \in team |-> [f \in Fields |-> 0]]

\* What a step reads has been computed, by an earlier step or by this one.
Available(d) == d[2] \in Fields => gen'[d[1]][d[2]] >= d[3]

Compute(r, fs) ==
  /\ gen' = [gen EXCEPT ![r] = [f \in Fields |-> IF f \in fs THEN @[f] + 1 ELSE @[f]]]
  /\ \A f \in fs : \A d \in Recipe(r, f, gen[r][f] + 1) : Available(d)
  /\ \A f \in fs : gen[r][f] < Cycles
  /\ UNCHANGED team

Advanced(r) == {f \in Fields : gen'[r][f] # gen[r][f]}
CycleNext == \E r \in team : Compute(r, Advanced(r))
CycleSpec == CycleInit /\ [][CycleNext]_cycleVars

\* No rank is more than one time step ahead of another: the next step is the
\* minimum over all of them (TimeIncrement).
InStep == \A r, k \in team : gen[r]["dt"] <= gen[k]["dt"] + 1
============================================================================

------------------------------- MODULE Jacobi -------------------------------
(***************************************************************************)
(* What the ghost exchange of stencil/stencil_ipc.cu promises, whatever    *)
(* transport moves the columns: every strip advances one generation at a   *)
(* time, and generation g+1 of a strip is computed from generation g of    *)
(* the strip and generation g of the strips beside it.  A strip keeps the  *)
(* edge columns of its current and of its previous generation available,   *)
(* so a neighbour may be one generation behind, never two.                 *)
(***************************************************************************)
EXTENDS Integers

CONSTANTS N,      \* number of strips, one per rank
          Total   \* generations computed

VARIABLE gen      \* gen[r]: the generation strip r holds

Strip == 0 .. N - 1

Adjacent(r) == {r - 1, r + 1} \cap Strip

Init == gen = [r \in Strip |-> 0]

\* stencil_kernel on strip r, with the ghost columns of its own generation.
Advance(r) ==
  /\ gen[r] < Total
  /\ \A q \in Adjacent(r) : gen[q] \in {gen[r], gen[r] + 1}
  /\ gen' = [gen EXCEPT ![r] = @ + 1]

Next == \E r \in Strip : Advance(r)

Spec == Init /\ [][Next]_gen /\ \A r \in Strip : WF_gen(Advance(r))
=============================================================================

---------------------------- MODULE HaloExchange ----------------------------
(***************************************************************************)
(* What a LULESH communication backend promises, whatever moves the words: *)
(* the ranks go through the same exchanges in the same order, three to a   *)
(* cycle of LagrangeLeapFrog, and a rank leaves an exchange only with the  *)
(* contribution that each neighbour it hears from made to that exchange.   *)
(* The time step is global: from the second cycle on, the exchange of the  *)
(* forces is left only when every rank has come to it.                     *)
(***************************************************************************)
EXTENDS Integers, Sequences

CONSTANTS Rank,   \* the ranks
          Total,  \* exchanges of a run
          Hears   \* Hears[k][r]: the ranks whose message r unpacks in an exchange of kind k

VARIABLE gen      \* gen[r]: the exchange rank r is in, 0 before the first

\* The forces, then positions and velocities, then the gradients.
Phase == <<"sbn", "sync", "monoq">>
Kind(e) == Phase[((e - 1) % 3) + 1]

\* TimeIncrement: not in the first cycle, whose time step is given.
Reduces(e) == Kind(e) = "sbn" /\ e > 3

Init == gen = [r \in Rank |-> 0]

\* Rank r leaves its exchange with all it needed, and enters the next.
Advance(r) ==
  /\ gen[r] <= Total
  /\ gen[r] > 0 => \A q \in Hears[Kind(gen[r])][r] : gen[q] >= gen[r]
  /\ gen[r] > 0 /\ Reduces(gen[r]) => \A q \in Rank : gen[q] >= gen[r]
  /\ gen' = [gen EXCEPT ![r] = @ + 1]

Next == \E r \in Rank : Advance(r)

Spec == Init /\ [][Next]_gen /\ \A r \in Rank : WF_gen(Advance(r))
=============================================================================

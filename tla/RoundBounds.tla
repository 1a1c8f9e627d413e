---------------------------- MODULE RoundBounds ----------------------------
(***************************************************************************)
(* What bounds a round on any runner, where it is checked.                 *)
(***************************************************************************)
EXTENDS Naturals

CONSTANTS
  MaxLines,   \* bound: lines the round prints
  MaxRestarts \* bound: times the daemon is killed

ASSUME RoundBoundsAssumption == MaxLines \in Nat /\ MaxRestarts \in Nat
=============================================================================

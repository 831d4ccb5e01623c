------------------------------- MODULE MCLaps -------------------------------
(* A race for TLC, with addresses that nothing but the list tells apart.   *)
EXTENDS Laps, TLC

Symmetry == Permutations(Addresses)
=============================================================================

------------------------------- MODULE MCCycle -------------------------------
(***************************************************************************)
(* Instance of Cycle for TLC: overlapping cycles are interchangeable.      *)
(***************************************************************************)
EXTENDS Cycle, TLC

CONSTANTS c1, c2

MCCycles == {c1, c2}

\* No definition of Cycle tells one cycle from another.
Symmetry == Permutations(MCCycles)
=============================================================================

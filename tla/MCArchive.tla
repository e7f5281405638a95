----------------------------- MODULE MCArchive -----------------------------
(***************************************************************************)
(* Finite instances of Archive.  Pages are written row by row, one value   *)
(* per field.                                                              *)
(***************************************************************************)
EXTENDS Archive, TLC

CONSTANTS
  d, r,        \* the delivered and the received column
  slot, press  \* a refresh at its slot, a pressed one or a command

\* A page with reading (x, y) at start 0, and one with readings at 0 and 1.
P1(rcv, x, y) ==
  [received |-> rcv, keys |-> {0},
   cell |-> [k \in Keys |-> [f \in Fields |->
               IF k # 0 THEN NULL ELSE IF f = d THEN x ELSE y]]]
P2(rcv, x, y, x1) ==
  [received |-> rcv, keys |-> {0, 1},
   cell |-> [k \in Keys |-> [f \in Fields |->
               IF k = 0 THEN (IF f = d THEN x ELSE y)
                        ELSE (IF f = d THEN x1 ELSE NULL)]]]

MCFields == {d, r}

\* Writers are alike: any of them may export, or stop without.
Symmetry == Permutations(Writers)

\* An empty day, a revised value, a filled cell, a late second interval.
MCCaptures ==
  {P1(FALSE, 1, NULL), P1(TRUE, 2, 1), P2(TRUE, NULL, NULL, 1)}
=============================================================================

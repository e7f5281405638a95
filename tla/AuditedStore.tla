---------------------------- MODULE AuditedStore ----------------------------
(***************************************************************************)
(* What the archive promises about its values ("What the archive           *)
(* guarantees", README.md): every cell holds its newest reading and the    *)
(* full history of the readings it held.  Pages are merged atomically; an  *)
(* empty cell of a page leaves the stored cell alone, an equal one adds    *)
(* nothing to its history.                                                 *)
(***************************************************************************)
EXTENDS Sequences

CONSTANTS Keys, Fields, Values, NULL

VARIABLES
  current,  \* the reading a cell holds, NULL when it never had one
  history   \* every reading it held, oldest first

Init ==
  /\ current = [k \in Keys |-> [f \in Fields |-> NULL]]
  /\ history = [k \in Keys |-> [f \in Fields |-> <<>>]]

Merge(page) ==
  /\ current' = [k \in Keys |-> [f \in Fields |->
       IF page[k][f] = NULL THEN current[k][f] ELSE page[k][f]]]
  /\ history' = [k \in Keys |-> [f \in Fields |->
       IF page[k][f] \in {NULL, current[k][f]}
       THEN history[k][f] ELSE Append(history[k][f], page[k][f])]]

Next == \E page \in [Keys -> [Fields -> Values \cup {NULL}]] : Merge(page)

Spec == Init /\ [][Next]_<<current, history>>
=============================================================================

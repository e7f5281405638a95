----------------------------- MODULE MCExporter -----------------------------
(***************************************************************************)
(* Finite instances of Exporter: what an hour may hold, and a recorder     *)
(* that already holds a row from before the archive.                       *)
(***************************************************************************)
EXTENDS Exporter

Blank   == [val |-> NULL, complete |-> FALSE]
Partial == [val |-> 1, complete |-> FALSE]
Full    == [val |-> 2, complete |-> TRUE]
Revised == [val |-> 3, complete |-> TRUE]

AllContents == {Blank, Partial, Full, Revised}
Growing == {Blank, Partial, Full}
History == [s \in {-1} |-> 5]
=============================================================================

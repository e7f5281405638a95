------------------------------- MODULE MCGrid -------------------------------
(***************************************************************************)
(* A small almanac for Grid: days of eight slots, the hour from 2 to 3     *)
(* repeated on day 5, the hour from 4 to 5 skipped on day 2, and a leap    *)
(* year of nine days that begins on day 7.                                 *)
(***************************************************************************)
EXTENDS Grid

Almanac == [y \in {1, 2} |-> IF y = 1 THEN -1 ELSE 7]

Solar  == <<"kW", "kWh Rcvd", "kWh Del">>
Single == <<"kWh", "degF">>

BothLayouts == {Solar, Single}
=============================================================================

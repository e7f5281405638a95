------------------------------ MODULE MCDaily ------------------------------
(***************************************************************************)
(* Accounts for Daily.  Days of eight slots of two units; day 1 repeats an *)
(* hour of two slots, in which reads may close.  Reads close in the middle *)
(* of a slot, as at 01:32.  Each account's tables tell the truth about one *)
(* kWh in every slot.                                                      *)
(***************************************************************************)
EXTENDS DailyTruth, TLC

CONSTANTS ha, cli

Read(from, to, type, delivered, received) ==
  [meter |-> "M", from |-> from, to |-> to, type |-> type,
   delivered |-> delivered, received |-> received]

Valid(from, to, n) == Read(from, to, "Valid", n, n)

Start   == <<7, 0>>   \* of the first read, on day 0
Second  == <<23, 0>>  \* in the repeated hour of day 1
Again   == <<23, 1>>  \* its second pass
After   == <<27, 0>>  \* past noon
Third   == <<39, 0>>  \* day 2

First == Valid(Start, Second, 8)

\* The usage of the last day is published a day late.
Plain == {<<Read(Start, Second, "Valid", NULL, 8)>>, <<Valid(Second, Third, 10), First>>}

\* A failed read inside the window of the read that catches up with it.
CaughtUp == {<<Read(Second, Second, "Failed", 0, 6)>>,
             <<Read(Second, Second, "Failed", 0, 6), Read(Start, Third, "Valid", 18, 12)>>}

\* A failed read whose usage rolls into the next one.
RolledOn == {<<Read(Second, NULL, "Failed", 0, 0), First>>,
             <<Valid(After, Third, 10), Read(Second, NULL, "Failed", 0, 0), First>>}

\* A placeholder that is replaced by the read, whose end goes on with it, and back
\* when an old page is stored again.
Replaced == {<<Read(Second, Second, "Failed", 0, 0), First>>, <<Valid(Second, Third, 10), First>>}

\* A read that closes in the second pass of the repeated hour.
Doubled == {<<Valid(Again, Third, 8), Valid(Start, Again, 10)>>}

AllStories == {Plain, CaughtUp, RolledOn, Replaced, Doubled}

Solar  == <<"From", "kWh Received", "Meter", "To", "Type", "kWh Delivered">>
Single == <<"Meter", "Type", "kWh", "From", "To">>
BothLayouts == {Solar, Single}

\* Version 1 stored the day of From.  One read has no end yet.
OldRow(to, n, day) ==
  [to |-> to, type |-> "Valid", delivered |-> n, received |-> NULL, day |-> day,
   fetch |-> 0, revised |-> 0]
Old == {(-13 :> OldRow(3, 8, -1)) @@ (3 :> OldRow(NULL, NULL, 0))}

\* Home Assistant, and a command line that was not updated with it.
Codes == (ha :> 2 @@ cli :> 1)

\* Two intervals are missing.
Slots == (1 .. 19) \ {8, 12}

LongAgo == -9

\* What the theorem about the report assumes of the portal.
ASSUME StoriesTellTheTruth == Truthful
=============================================================================

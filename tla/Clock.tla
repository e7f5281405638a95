-------------------------------- MODULE Clock --------------------------------
(***************************************************************************)
(* Eastern wall-clock time (timeutil.py).  The portal renders local times  *)
(* without a zone; one day of the year is an hour short, another an hour   *)
(* long.                                                                   *)
(*                                                                         *)
(* A slot is one interval of the grid, a wall-clock reading the number of  *)
(* slots since midnight of day 0 as the clock on the wall shows them, an   *)
(* instant the number of slots since the same midnight in standard time.   *)
(* The operators of the first section stand for zoneinfo and datetime.     *)
(***************************************************************************)
EXTENDS Integers, FiniteSets

CONSTANTS
  DayLen,     \* slots of a 24-hour day
  Noon,       \* USAGE_DAY_THRESHOLD_HOUR, as a slot
  Change,     \* the slot at which the clocks change (2 AM)
  Shift,      \* slots of the hour they change by
  SpringDay,  \* the day that skips the slots from Change on
  FallDay     \* the day that repeats the slots before Change

ASSUME ClockAssumption ==
  /\ DayLen \in Nat /\ Noon \in Nat /\ Change \in Nat /\ Shift \in Nat
  /\ 0 < Shift /\ Shift <= Change /\ Change + Shift <= Noon /\ Noon < DayLen
  /\ SpringDay \in Int /\ FallDay \in Int /\ SpringDay < FallDay

-----------------------------------------------------------------------------
(* The zone *)

Wall(d, m) == d * DayLen + m

SpringAt == Wall(SpringDay, Change)
FallAt   == Wall(FallDay, Change)

\* What utcoffset answers for a wall-clock reading.  The fold picks one of the
\* two passes of a repeated reading, and one of the two offsets around a
\* skipped one.
Offset(w, fold) ==
  IF w < SpringAt THEN 0
  ELSE IF w < SpringAt + Shift THEN (IF fold = 1 THEN Shift ELSE 0)
  ELSE IF w < FallAt - Shift THEN Shift
  ELSE IF w < FallAt THEN (IF fold = 1 THEN 0 ELSE Shift)
  ELSE 0

Instant(w, fold) == w - Offset(w, fold)

\* The reading of the wall clock at an instant.
Reading(u) == IF SpringAt <= u /\ u < FallAt - Shift THEN u + Shift ELSE u

\* The instants of a local day.
Instants(d) ==
  {u \in Wall(d, 0) - Shift .. Wall(d + 1, 0) :
     Wall(d, 0) <= Reading(u) /\ Reading(u) < Wall(d + 1, 0)}

\* The local day of an instant, as date() reads it.
DayAt(u) == Reading(u) \div DayLen

-----------------------------------------------------------------------------
(* timeutil.py *)

\* datetime.combine(day, time(0)): midnight is never skipped or repeated.
local_midnight_utc(d) == Instant(Wall(d, 0), 0)

day_length(d) == local_midnight_utc(d + 1) - local_midnight_utc(d)

has_dst_transition(days) == \E d \in days : day_length(d) # DayLen

localize(d, m, pass) == Instant(Wall(d, m), IF pass # 0 THEN 1 ELSE 0)

\* Mutant: every slot exists once, and a second time where fold matters.
SlotExistsNoRoundTrip(d, m, pass) ==
  pass # 0 => Offset(Wall(d, m), 1) # Offset(Wall(d, m), 0)

\* A skipped reading does not survive the round trip through UTC; a second
\* pass exists only where its offset is another one.
slot_exists(d, m, pass) ==
  /\ Reading(localize(d, m, pass)) = Wall(d, m)
  /\ pass # 0 => Offset(Wall(d, m), 1) # Offset(Wall(d, m), 0)

\* Every (slot, pass) of a local day.
day_slots(d) ==
  {s \in (0 .. DayLen - 1) \X {0, 1} : slot_exists(d, s[1], s[2])}

\* The day the portal attributes a read to, from the wall-clock reading at
\* which the read closed.
usage_day(w) == IF w % DayLen < Noon THEN w \div DayLen - 1 ELSE w \div DayLen
=============================================================================

----------------------------- MODULE GridProofs ------------------------------
(***************************************************************************)
(* The slots of a local day are its instants, whatever the length of the   *)
(* day and the interval, the days of the changes and the hour they happen; *)
(* the year of a column is inferred right, for any window shorter than a   *)
(* year and any sequence of leap years; the gap report is exact.           *)
(*                                                                         *)
(* Then the page itself, for layouts and renderings of any size: what      *)
(* parse_interval_grid reads of it and store_intervals makes of that.      *)
(* Nothing the report calls gone ever arrives, a clean page leaves nothing *)
(* recoverable to fetch, and of a disturbed one no value is moved and no   *)
(* usage lost without an anomaly.                                          *)
(***************************************************************************)
EXTENDS Grid, SequenceTheorems, FiniteSetTheorems, WellFoundedInduction, TLAPS

-----------------------------------------------------------------------------
(* The slots of a local day *)

LEMMA DayBounds ==
  ASSUME NEW d \in Int
  PROVE  /\ Wall(d, 0) \in Int
         /\ Wall(d + 1, 0) \in Int
         /\ Wall(d + 1, 0) = Wall(d, 0) + DayLen
BY ClockAssumption, SMT DEF Wall

LEMMA SlotOfDay ==
  ASSUME NEW d \in Int, NEW m \in Int
  PROVE  Wall(d, m) \in Int /\ Wall(d, m) = Wall(d, 0) + m
BY ClockAssumption, SMT DEF Wall

LEMMA Changes == SpringAt \in Int /\ FallAt \in Int
BY ClockAssumption, SMT DEF Wall, SpringAt, FallAt

LEMMA FarApart == SpringAt + DayLen <= FallAt
<1>1. (FallDay - SpringDay - 1) * DayLen >= 0
  BY ClockAssumption, SMT
<1>2. FallDay * DayLen - SpringDay * DayLen - DayLen >= 0
  BY <1>1, ClockAssumption, SMT
<1> QED BY <1>2, ClockAssumption, SMT DEF SpringAt, FallAt, Wall

\* No midnight falls into a skipped or a repeated hour.
LEMMA MidnightIsPlain ==
  ASSUME NEW d \in Int
  PROVE  LET w == Wall(d, 0) IN
         /\ w < SpringAt - Shift + 1 \/ SpringAt + Shift <= w
         /\ w < FallAt - Shift + 1 \/ FallAt + Shift <= w
<1>1. ASSUME NEW e \in Int
      PROVE  d <= e \/ e * DayLen + DayLen <= d * DayLen
  <2> SUFFICES ASSUME e < d  PROVE e * DayLen + DayLen <= d * DayLen
    BY SMT
  <2>1. (d - e - 1) * DayLen >= 0
    BY ClockAssumption, SMT
  <2> QED BY <2>1, ClockAssumption, SMT
<1>2. ASSUME NEW e \in Int
      PROVE  d > e \/ d * DayLen <= e * DayLen
  <2> SUFFICES ASSUME d <= e  PROVE d * DayLen <= e * DayLen
    BY SMT
  <2>1. (e - d) * DayLen >= 0
    BY ClockAssumption, SMT
  <2> QED BY <2>1, ClockAssumption, SMT
<1>3. SpringDay \in Int /\ FallDay \in Int
  BY ClockAssumption
<1> QED BY <1>1, <1>2, <1>3, ClockAssumption, SMT DEF Wall, SpringAt, FallAt

\* The instants of a day run from its midnight to the next.
LEMMA DayIsInterval ==
  ASSUME NEW d \in Int
  PROVE  /\ local_midnight_utc(d) \in Int
         /\ Instants(d) = local_midnight_utc(d) .. local_midnight_utc(d + 1) - 1
<1> DEFINE D == Wall(d, 0)
           E == Wall(d + 1, 0)
<1>1. D \in Int /\ E \in Int /\ E = D + DayLen
  BY DayBounds
<1>2. /\ D <= SpringAt - Shift \/ SpringAt + Shift <= D
      /\ D <= FallAt - Shift \/ FallAt + Shift <= D
  BY MidnightIsPlain, Changes, <1>1, ClockAssumption, SMT
<1>3. /\ E <= SpringAt - Shift \/ SpringAt + Shift <= E
      /\ E <= FallAt - Shift \/ FallAt + Shift <= E
  <2>1. d + 1 \in Int
    BY SMT
  <2> QED BY <2>1, MidnightIsPlain, Changes, <1>1, ClockAssumption, SMT
<1> HIDE DEF D, E
<1>4. /\ Instant(D, 0) \in Int
      /\ \A u \in Int : u \in D - Shift .. E /\ D <= Reading(u) /\ Reading(u) < E
           <=> u \in Instant(D, 0) .. Instant(E, 0) - 1
  BY <1>1, <1>2, <1>3, Changes, FarApart, ClockAssumption, SMT
     DEF Instant, Offset, Reading
<1> QED BY <1>1, <1>4, ClockAssumption DEF D, E, Instants, local_midnight_utc

LEMMA InstantNear ==
  ASSUME NEW w \in Int, NEW fold \in {0, 1}
  PROVE  /\ Instant(w, fold) \in Int
         /\ w - Shift <= Instant(w, fold) /\ Instant(w, fold) <= w
BY Changes, ClockAssumption, SMT DEF Instant, Offset

LEMMA SlotShape ==
  ASSUME NEW d \in Int, NEW s \in day_slots(d)
  PROVE  \E m \in 0 .. DayLen - 1, p \in {0, 1} :
           /\ s = <<m, p>> /\ slot_exists(d, m, p)
           /\ localize(d, s[1], s[2]) = Instant(Wall(d, m), p)
           /\ Wall(d, m) \in Int /\ Wall(d, m) = Wall(d, 0) + m
<1>1. PICK m \in 0 .. DayLen - 1, p \in {0, 1} : s = <<m, p>> /\ slot_exists(d, m, p)
  BY DEF day_slots
<1>2. Wall(d, m) \in Int /\ Wall(d, m) = Wall(d, 0) + m
  <2>1. m \in Int
    BY ClockAssumption, SMT
  <2> QED BY <2>1, SlotOfDay
<1>3. localize(d, m, p) = Instant(Wall(d, m), p)
  BY <1>1, SMT DEF localize
<1>4. localize(d, s[1], s[2]) = Instant(Wall(d, m), p)
  BY <1>1, <1>3
<1> QED BY <1>1, <1>2, <1>4

\* A slot of the day is at an instant of the day, and two slots are never at
\* the same one.
LEMMA SlotsAreInstants ==
  ASSUME NEW d \in Int, NEW s \in day_slots(d)
  PROVE  /\ localize(d, s[1], s[2]) \in Instants(d)
         /\ \A t \in day_slots(d) :
              localize(d, s[1], s[2]) = localize(d, t[1], t[2]) => s = t
<1>1. PICK m \in 0 .. DayLen - 1, p \in {0, 1} :
        /\ s = <<m, p>> /\ slot_exists(d, m, p)
        /\ localize(d, s[1], s[2]) = Instant(Wall(d, m), p)
        /\ Wall(d, m) \in Int /\ Wall(d, m) = Wall(d, 0) + m
  BY SlotShape
<1>2. /\ Reading(Instant(Wall(d, m), p)) = Wall(d, m)
      /\ p # 0 => Offset(Wall(d, m), 1) # Offset(Wall(d, m), 0)
  BY <1>1 DEF slot_exists
<1>3. Instant(Wall(d, m), p) \in Instants(d)
  <2>1. /\ Instant(Wall(d, m), p) \in Int
        /\ Wall(d, m) - Shift <= Instant(Wall(d, m), p)
        /\ Instant(Wall(d, m), p) <= Wall(d, m)
    BY <1>1, InstantNear
  <2>2. /\ Wall(d, 0) \in Int /\ Wall(d + 1, 0) \in Int
        /\ Wall(d + 1, 0) = Wall(d, 0) + DayLen
    BY DayBounds
  <2>3. /\ Wall(d, 0) <= Wall(d, m) /\ Wall(d, m) < Wall(d + 1, 0)
        /\ Instant(Wall(d, m), p) \in Wall(d, 0) - Shift .. Wall(d + 1, 0)
    BY <1>1, <2>1, <2>2, ClockAssumption, SMT
  <2> QED BY <1>2, <2>3 DEF Instants
<1>4. ASSUME NEW t \in day_slots(d),
             localize(d, s[1], s[2]) = localize(d, t[1], t[2])
      PROVE  s = t
  <2>1. PICK n \in 0 .. DayLen - 1, q \in {0, 1} :
          /\ t = <<n, q>> /\ slot_exists(d, n, q)
          /\ localize(d, t[1], t[2]) = Instant(Wall(d, n), q)
          /\ Wall(d, n) \in Int /\ Wall(d, n) = Wall(d, 0) + n
    BY SlotShape
  <2>2. /\ Reading(Instant(Wall(d, n), q)) = Wall(d, n)
        /\ q # 0 => Offset(Wall(d, n), 1) # Offset(Wall(d, n), 0)
    BY <2>1 DEF slot_exists
  <2>3. Instant(Wall(d, m), p) = Instant(Wall(d, n), q)
    BY <1>1, <1>4, <2>1
  <2>4. Wall(d, m) = Wall(d, n)
    BY <1>2, <2>2, <2>3
  <2>5. m = n
    <3>1. Wall(d, 0) \in Int
      BY DayBounds
    <3> QED BY <1>1, <2>1, <2>4, <3>1, ClockAssumption, SMT
  <2>6. p = q
    BY <1>1, <1>2, <2>1, <2>2, <2>3, <2>5, Changes, ClockAssumption, SMT
       DEF Instant, Offset
  <2> QED BY <1>1, <2>1, <2>5, <2>6
<1> QED BY <1>1, <1>3, <1>4

\* Every instant of a day is one of its slots.
LEMMA InstantsAreSlots ==
  ASSUME NEW d \in Int, NEW u \in Instants(d)
  PROVE  \E s \in day_slots(d) : localize(d, s[1], s[2]) = u
<1> DEFINE m == Reading(u) - Wall(d, 0)
           p == IF FallAt - Shift <= u /\ u < FallAt THEN 1 ELSE 0
<1>1. /\ Wall(d, 0) \in Int /\ Wall(d + 1, 0) = Wall(d, 0) + DayLen
      /\ u \in Int /\ Reading(u) \in Int
      /\ Wall(d, 0) <= Reading(u) /\ Reading(u) < Wall(d + 1, 0)
  BY DayBounds, ClockAssumption, SMT DEF Instants, Reading
<1>2. m \in 0 .. DayLen - 1 /\ p \in {0, 1}
  BY <1>1, ClockAssumption, SMT
<1>3. Wall(d, m) = Reading(u)
  <2>1. m \in Int
    BY <1>2
  <2>2. Wall(d, m) = Wall(d, 0) + m
    BY <2>1, SlotOfDay
  <2> QED BY <2>1, <2>2, <1>1, SMT
<1> HIDE DEF m
<1>4. localize(d, m, p) = u
  BY <1>1, <1>2, <1>3, Changes, FarApart, ClockAssumption, SMT
     DEF localize, Instant, Offset, Reading
<1>5. slot_exists(d, m, p)
  BY <1>1, <1>2, <1>3, <1>4, Changes, FarApart, ClockAssumption, SMT
     DEF slot_exists, Offset, Reading
<1>6. <<m, p>> \in day_slots(d)
  BY <1>2, <1>5 DEF day_slots
<1> QED BY <1>4, <1>6

\* day_slots enumerates a local day exactly: localize maps its slots one to one
\* onto the instants of the day, also where an hour is skipped or repeated
\* ("the canonical enumeration for gap math", timeutil.py).
THEOREM SlotsExact ==
  ASSUME NEW d \in Int
  PROVE  [s \in day_slots(d) |-> localize(d, s[1], s[2])]
           \in Bijection(day_slots(d), Instants(d))
<1> DEFINE f == [s \in day_slots(d) |-> localize(d, s[1], s[2])]
<1>1. f \in [day_slots(d) -> Instants(d)]
  BY SlotsAreInstants
<1>2. \A s, t \in day_slots(d) : f[s] = f[t] => s = t
  BY SlotsAreInstants
<1>3. \A u \in Instants(d) : \E s \in day_slots(d) : f[s] = u
  BY InstantsAreSlots
<1> QED BY <1>1, <1>2, <1>3 DEF Bijection, Injection, Surjection, IsInjective

\* The number of slots a day is expected to have is its length in UTC: 96, 92
\* or 100 of the 15-minute grid (expected_interval_count, timeutil.py).
THEOREM ExpectedCount ==
  ASSUME NEW d \in Int
  PROVE  /\ IsFiniteSet(day_slots(d))
         /\ Cardinality(day_slots(d)) = day_length(d)
<1> DEFINE U == local_midnight_utc(d)
           V == local_midnight_utc(d + 1)
           f == [s \in day_slots(d) |-> localize(d, s[1], s[2])]
<1>1. U \in Int /\ Instants(d) = U .. V - 1
  BY DayIsInterval
<1>2. V \in Int
  <2>1. d + 1 \in Int
    BY SMT
  <2> QED BY <2>1, DayIsInterval
<1>3. U <= V
  BY DayBounds, MidnightIsPlain, Changes, FarApart, ClockAssumption, SMT
     DEF local_midnight_utc, Instant, Offset
<1> HIDE DEF U, V
<1>4. /\ V - 1 \in Int
      /\ IsFiniteSet(U .. V - 1)
      /\ Cardinality(U .. V - 1) = V - U
  <2>1. V - 1 \in Int
    BY <1>2, SMT
  <2>2. /\ IsFiniteSet(U .. V - 1)
        /\ Cardinality(U .. V - 1) = IF U > V - 1 THEN 0 ELSE V - 1 - U + 1
    BY <1>1, <2>1, FS_Interval
  <2> QED BY <1>1, <1>2, <1>3, <2>1, <2>2, SMT
<1>5. f \in Bijection(day_slots(d), Instants(d))
  BY SlotsExact
<1>6. f \in Injection(day_slots(d), Instants(d)) /\ f \in Surjection(day_slots(d), Instants(d))
  BY <1>5 DEF Bijection
<1>7. /\ IsFiniteSet(day_slots(d))
      /\ Cardinality(day_slots(d)) = Cardinality(Instants(d))
  BY <1>1, <1>4, <1>6, FS_Injection
<1> QED BY <1>1, <1>4, <1>7 DEF U, V, day_length

-----------------------------------------------------------------------------
(* The year of a column *)

LEMMA YearLenType ==
  ASSUME NEW y \in Years
  PROVE  /\ y \in Int /\ YearStart[y] \in Int /\ YearLen(y) \in Int
         /\ Labels - 1 <= YearLen(y) /\ YearLen(y) <= Labels
BY CalendarAssumption, SMT DEF YearLen

\* Years do not overlap.
LEMMA YearsApart ==
  ASSUME NEW y \in Years, NEW z \in Years, y < z
  PROVE  YearStart[y] + YearLen(y) <= YearStart[z]
BY CalendarAssumption

LEMMA YearOfKnown ==
  ASSUME NEW d \in Int, Known(d)
  PROVE  YearOf(d) \in Years /\ InYear(d, YearOf(d))
BY DEF Known, YearOf

\* A day is the date its label and its year name.
LEMMA DateOfLabel ==
  ASSUME NEW d \in Int, Known(d)
  PROVE  /\ HasDate(YearOf(d), Label(d))
         /\ Date(YearOf(d), Label(d)) = d
<1> DEFINE y == YearOf(d)
           n == d - YearStart[y] + 1
<1>1. y \in Years /\ YearStart[y] \in Int
  BY YearOfKnown, YearLenType
<1>2. n \in Int /\ 1 <= n /\ n <= YearLen(y)
  BY <1>1, YearOfKnown, YearLenType, SMT DEF InYear
<1>3. Label(d) = IF y \notin Leap /\ n >= LeapLabel THEN n + 1 ELSE n
  BY DEF Label
<1> HIDE DEF y
<1>4. HasDate(y, Label(d)) /\ Date(y, Label(d)) = d
  BY <1>1, <1>2, <1>3, CalendarAssumption, SMT DEF HasDate, Date, YearLen
<1> QED BY <1>4 DEF y

\* The dates of one label in two years are almost a year apart.
LEMMA DatesApart ==
  ASSUME NEW y \in Years, NEW z \in Years, y < z, NEW l \in 1 .. Labels
  PROVE  /\ Date(y, l) \in Int /\ Date(z, l) \in Int
         /\ Date(y, l) + Labels - 1 <= Date(z, l)
<1>1. /\ YearStart[y] + YearLen(y) <= YearStart[z]
      /\ YearStart[y] \in Int /\ YearStart[z] \in Int
  BY YearsApart, YearLenType
<1> QED BY <1>1, CalendarAssumption, SMT DEF Date, YearLen

\* The year of every day of the window is one of the three infer_year tries.
LEMMA YearTried ==
  ASSUME NEW reference \in Int, \A e \in Window(reference) : Known(e),
         NEW d \in Window(reference)
  PROVE  YearOf(d) \in CandidateYears(reference)
<1> DEFINE a == reference - BackDays
           b == reference + ForwardDays
<1>1. /\ a \in Int /\ b \in Int /\ d \in Int /\ a <= d /\ d <= b
      /\ b - a < Labels - 1 /\ a \in Window(reference) /\ b \in Window(reference)
  BY CalendarAssumption, SMT DEF Window
<1>2. /\ YearOf(a) \in Years /\ YearOf(b) \in Years /\ YearOf(d) \in Years
      /\ InYear(a, YearOf(a)) /\ InYear(b, YearOf(b)) /\ InYear(d, YearOf(d))
  BY <1>1, YearOfKnown
<1>3. YearOf(d) = YearOf(a) \/ YearOf(d) = YearOf(b)
  <2> SUFFICES ASSUME YearOf(d) # YearOf(a), YearOf(d) # YearOf(b)  PROVE FALSE
    OBVIOUS
  <2> DEFINE x == YearOf(a)
             y == YearOf(d)
             z == YearOf(b)
  <2>1. /\ x \in Years /\ y \in Years /\ z \in Years /\ x # y /\ y # z
        /\ x \in Int /\ y \in Int /\ z \in Int
        /\ YearStart[x] \in Int /\ YearStart[y] \in Int /\ YearStart[z] \in Int
        /\ YearLen(x) \in Int /\ YearLen(y) \in Int /\ YearLen(z) \in Int
        /\ Labels - 1 <= YearLen(y)
    BY <1>2, YearLenType
  <2>2. InYear(a, x) /\ InYear(d, y) /\ InYear(b, z)
    BY <1>2
  <2>3. /\ y < x => YearStart[y] + YearLen(y) <= YearStart[x]
        /\ x < y => YearStart[x] + YearLen(x) <= YearStart[y]
        /\ z < y => YearStart[z] + YearLen(z) <= YearStart[y]
        /\ y < z => YearStart[y] + YearLen(y) <= YearStart[z]
    BY <2>1, YearsApart
  <2> HIDE DEF x, y, z
  <2> QED BY <1>1, <2>1, <2>2, <2>3, CalendarAssumption, SMT DEF InYear
<1> QED BY <1>3 DEF CandidateYears

\* Of a label, the window holds one date at most.
LEMMA OneCandidate ==
  ASSUME NEW reference \in Int, NEW l \in 1 .. Labels,
         NEW y \in Years, NEW z \in Years,
         Date(y, l) \in Window(reference), Date(z, l) \in Window(reference)
  PROVE  y = z
<1>1. /\ y < z => /\ Date(y, l) \in Int /\ Date(z, l) \in Int
                  /\ Date(y, l) + Labels - 1 <= Date(z, l)
      /\ z < y => /\ Date(y, l) \in Int /\ Date(z, l) \in Int
                  /\ Date(z, l) + Labels - 1 <= Date(y, l)
  BY DatesApart
<1>2. y \in Int /\ z \in Int
  BY YearLenType
<1> QED BY <1>1, <1>2, CalendarAssumption, SMT DEF Window

\* In the window around the reference date a label is the date of one day.
LEMMA OneDate ==
  ASSUME NEW reference \in Int, \A e \in Window(reference) : Known(e),
         NEW d \in Window(reference)
  PROVE  Candidates(Label(d), reference) = {d}
<1> DEFINE fits == Candidates(Label(d), reference)
<1>1. d \in Int /\ Known(d)
  BY CalendarAssumption, SMT DEF Window
<1>2. HasDate(YearOf(d), Label(d)) /\ Date(YearOf(d), Label(d)) = d
  BY <1>1, DateOfLabel
<1>3. Label(d) \in 1 .. Labels
  BY <1>2 DEF HasDate
<1>4. YearOf(d) \in CandidateYears(reference)
  BY YearTried
<1>5. CandidateYears(reference) \subseteq Years
  <2>1. /\ reference - BackDays \in Window(reference)
        /\ reference \in Window(reference)
        /\ reference + ForwardDays \in Window(reference)
        /\ Window(reference) \subseteq Int
    BY CalendarAssumption, SMT DEF Window
  <2> QED BY <2>1, YearOfKnown DEF CandidateYears
<1>6. d \in fits
  BY <1>2, <1>4 DEF Candidates
<1>7. \A e \in fits : e = d
  <2> TAKE e \in fits
  <2>1. PICK y \in CandidateYears(reference) :
          e = Date(y, Label(d)) /\ e \in Window(reference)
    BY DEF Candidates
  <2>2. y = YearOf(d)
    BY <2>1, <1>2, <1>3, <1>4, <1>5, OneCandidate
  <2> QED BY <2>1, <2>2, <1>2
<1> QED BY <1>6, <1>7

\* A column is resolved to the very day the portal rendered, in whichever year
\* it lies, as long as that day is in the window around the reference date;
\* never to another year, and never refused as ambiguous ("only one year can
\* match", timeutil.py).
THEOREM InferExact ==
  ASSUME NEW reference \in Int, \A e \in Window(reference) : Known(e),
         NEW d \in Window(reference)
  PROVE  /\ infer_year(Label(d), NoWeekday, reference) = d
         /\ infer_year(Label(d), Weekday(d), reference) = d
<1> DEFINE fits == Candidates(Label(d), reference)
<1>1. fits = {d}
  BY OneDate
<1> HIDE DEF fits
<1>2. (CHOOSE e \in fits : TRUE) = d
  BY <1>1
<1> QED BY <1>1, <1>2 DEF infer_year, fits

\* Whatever the weekday row says, a label is never read as another day, and a
\* weekday that is not the day's refuses it.
LEMMA InferOrRefuse ==
  ASSUME NEW reference \in Int, \A e \in Window(reference) : Known(e),
         NEW d \in Window(reference), NEW w
  PROVE  /\ infer_year(Label(d), w, reference) \in {d, Refused}
         /\ w \notin {NoWeekday, Weekday(d)} => infer_year(Label(d), w, reference) = Refused
<1> DEFINE fits == Candidates(Label(d), reference)
<1>1. fits = {d}
  BY OneDate
<1> HIDE DEF fits
<1>2. (CHOOSE e \in fits : TRUE) = d
  BY <1>1
<1>3. infer_year(Label(d), w, reference) =
        IF \E e \in fits : fits = {e} /\ w \in {NoWeekday, Weekday(e)}
        THEN CHOOSE e \in fits : TRUE ELSE Refused
  BY DEF infer_year, fits
<1>4. (\E e \in fits : fits = {e} /\ w \in {NoWeekday, Weekday(e)}) <=> w \in {NoWeekday, Weekday(d)}
  BY <1>1
<1> QED BY <1>2, <1>3, <1>4

-----------------------------------------------------------------------------
(* The gap report *)

\* The labels a day is missing are as many as the intervals they stand for.
LEMMA MissingOfDay ==
  ASSUME NEW d \in Int
  PROVE  /\ Missing(d) = Instants(d) \ DOMAIN rows
         /\ Cardinality(missing_labels(d)) = Cardinality(Missing(d))
<1> DEFINE at(s) == localize(d, s[1], s[2])
           f == [s \in missing_labels(d) |-> at(s)]
<1>1. missing_labels(d) \subseteq day_slots(d)
  BY DEF missing_labels
<1>2. Missing(d) = {at(s) : s \in missing_labels(d)}
  BY DEF Missing
<1>3. \A s \in missing_labels(d) : at(s) \notin DOMAIN rows
  BY DEF missing_labels
<1>4. \A s \in day_slots(d) : at(s) \notin DOMAIN rows => s \in missing_labels(d)
  BY DEF missing_labels
<1>5. \A s \in day_slots(d) : at(s) \in Instants(d)
  BY SlotsAreInstants
<1>6. \A u \in Instants(d) : \E s \in day_slots(d) : at(s) = u
  BY InstantsAreSlots
<1>7. \A s, t \in day_slots(d) : at(s) = at(t) => s = t
  BY SlotsAreInstants
<1>8. IsFiniteSet(missing_labels(d))
  BY <1>1, ExpectedCount, FS_Subset
<1> HIDE DEF at
<1>9. Missing(d) = Instants(d) \ DOMAIN rows
  BY <1>1, <1>2, <1>3, <1>4, <1>5, <1>6
<1>10. f \in [missing_labels(d) -> Missing(d)]
  BY <1>2
<1>11. \A s, t \in missing_labels(d) : f[s] = f[t] => s = t
  BY <1>1, <1>7
<1>12. \A u \in Missing(d) : \E s \in missing_labels(d) : f[s] = u
  BY <1>2
<1>13. f \in Bijection(missing_labels(d), Missing(d))
  BY <1>10, <1>11, <1>12 DEF Bijection, Injection, Surjection, IsInjective
<1>14. Cardinality(missing_labels(d)) = Cardinality(Missing(d))
  <2>1. ExistsBijection(missing_labels(d), Missing(d))
    BY <1>13 DEF ExistsBijection
  <2> QED BY <1>8, <2>1, FS_Bijection
<1> QED BY <1>9, <1>14

\* The gap report (gaps, day_slots) lists exactly the intervals of its days that
\* have no row, each once, on days of every length.
THEOREM GapReportExact == Spec => []GapsExact
<1>1. GapsExact
  BY MissingOfDay DEF GapsExact, ReportDays
<1> QED BY <1>1, PTL

-----------------------------------------------------------------------------
(* Induction and folds *)

\* A set that holds 0 and, with every number below n, the next one, holds all
\* numbers up to n.
LEMMA Climb ==
  ASSUME NEW n \in Nat, NEW T,
         0 \in T, \A k \in 0 .. n - 1 : k \in T => k + 1 \in T
  PROVE  0 .. n \subseteq T
<1> DEFINE R == OpToRel(<, Nat)
           U == {k \in 0 .. n : k \notin T}
<1>1. SUFFICES ASSUME U # {}  PROVE FALSE
  OBVIOUS
<1>2. U \subseteq Nat
  OBVIOUS
<1>3. IsWellFoundedOn(R, Nat)
  BY NatLessThanWellFounded
<1> HIDE DEF R
<1>4. PICK x \in U : \A y \in U : <<y, x>> \notin R
  <2> HIDE DEF U
  <2> QED BY <1>1, <1>2, <1>3, WFMin, Zenon
<1>5. x \in Nat /\ x # 0 /\ x - 1 \in 0 .. n - 1 /\ (x - 1) + 1 = x
  OBVIOUS
<1>6. x - 1 \in U
  BY <1>5
<1>7. <<x - 1, x>> \in R
  BY <1>5 DEF R, OpToRel
<1> QED BY <1>4, <1>6, <1>7

\* The recursion behind FoldLeft has a solution: op is F, applied to a position
\* and the value so far.
LEMMA FoldDefined ==
  ASSUME NEW n \in Nat, NEW A, NEW base \in A, NEW F \in [(1 .. n) \X A -> A]
  PROVE  \E g \in [SUBSET (1 .. n) -> A] :
           \A s \in SUBSET (1 .. n) :
             /\ g[s] = IF s = {} THEN base ELSE F[<<Max(s), g[s \ {Max(s)}]>>]
             /\ s # {} => Max(s) \in s
<1> DEFINE Good(k, g) ==
             /\ g \in [SUBSET (1 .. k) -> A]
             /\ \A s \in SUBSET (1 .. k) :
                  /\ g[s] = IF s = {} THEN base ELSE F[<<Max(s), g[s \ {Max(s)}]>>]
                  /\ s # {} => Max(s) \in s
           T == {k \in 0 .. n : \E g : Good(k, g)}
<1>1. 0 \in T
  <2> DEFINE g == [s \in SUBSET (1 .. 0) |-> base]
  <2>1. 1 .. 0 = {}
    BY SMT
  <2>2. Good(0, g)
    BY <2>1
  <2>3. 0 \in 0 .. n
    BY SMT
  <2>4. \E h : Good(0, h)
    <3> HIDE DEF Good
    <3> QED BY <2>2
  <2> QED BY <2>3, <2>4
<1>2. ASSUME NEW k \in 0 .. n - 1, k \in T
      PROVE  k + 1 \in T
  <2>1. PICK g : Good(k, g)
    BY <1>2
  <2> DEFINE h == [s \in SUBSET (1 .. k + 1) |->
                     IF k + 1 \in s THEN F[<<k + 1, g[s \ {k + 1}]>>] ELSE g[s]]
  <2>2. /\ k \in Int /\ k + 1 \in 1 .. n /\ k + 1 \in 0 .. n
        /\ k + 1 \notin 1 .. k
        /\ 1 .. k + 1 = (1 .. k) \cup {k + 1}
    BY SMT
  <2>3. ASSUME NEW s \in SUBSET (1 .. k + 1), k + 1 \in s
        PROVE  /\ Max(s) = k + 1
               /\ s \ {k + 1} \in SUBSET (1 .. k)
               /\ h[s] = F[<<k + 1, g[s \ {k + 1}]>>]
               /\ h[s \ {k + 1}] = g[s \ {k + 1}]
    <3>1. s \ {k + 1} \in SUBSET (1 .. k)
      BY <2>2
    <3>2. \A y \in s : k + 1 >= y
      BY <2>2, SMT
    <3>3. \A x \in s : (\A y \in s : x >= y) => x = k + 1
      BY <2>2, <2>3, SMT
    <3>4. Max(s) = k + 1
      BY <2>3, <3>2, <3>3 DEF Max
    <3> QED BY <2>3, <3>1, <3>4
  <2>4. ASSUME NEW s \in SUBSET (1 .. k + 1), k + 1 \notin s
        PROVE  s \in SUBSET (1 .. k) /\ h[s] = g[s]
    BY <2>2, <2>4
  <2>5. h \in [SUBSET (1 .. k + 1) -> A]
    <3> SUFFICES ASSUME NEW s \in SUBSET (1 .. k + 1)  PROVE h[s] \in A
      OBVIOUS
    <3>1. CASE k + 1 \in s
      <4>1. g[s \ {k + 1}] \in A
        BY <2>1, <2>3, <3>1
      <4> QED BY <2>2, <2>3, <3>1, <4>1
    <3>2. CASE k + 1 \notin s
      BY <2>1, <2>4, <3>2
    <3> QED BY <3>1, <3>2
  <2>6. ASSUME NEW s \in SUBSET (1 .. k + 1)
        PROVE  /\ h[s] = IF s = {} THEN base ELSE F[<<Max(s), h[s \ {Max(s)}]>>]
               /\ s # {} => Max(s) \in s
    <3>1. CASE k + 1 \in s
      BY <2>3, <3>1
    <3>2. CASE k + 1 \notin s /\ s = {}
      BY <2>1, <2>4, <3>2
    <3>3. CASE k + 1 \notin s /\ s # {}
      <4>1. s \in SUBSET (1 .. k) /\ h[s] = g[s]
        BY <2>4, <3>3
      <4>2. g[s] = F[<<Max(s), g[s \ {Max(s)}]>>] /\ Max(s) \in s
        BY <2>1, <3>3, <4>1
      <4>3. s \ {Max(s)} \in SUBSET (1 .. k + 1) /\ k + 1 \notin s \ {Max(s)}
        BY <3>3
      <4>4. h[s \ {Max(s)}] = g[s \ {Max(s)}]
        BY <2>4, <4>3
      <4> QED BY <3>3, <4>1, <4>2, <4>4
    <3> QED BY <3>1, <3>2, <3>3
  <2> QED BY <2>2, <2>5, <2>6
<1>3. 0 .. n \subseteq T
  <2> HIDE DEF T
  <2> QED BY <1>1, <1>2, Climb
<1>4. n \in 0 .. n
  BY SMT
<1> QED BY <1>3, <1>4

\* iter solves the recursion of a fold of F over 1 .. n.
Unwinds(iter, n, A, base, F) ==
  /\ n \in Nat /\ base \in A /\ F \in [(1 .. n) \X A -> A]
  /\ iter[{}] = base
  /\ \A s \in SUBSET (1 .. n) :
       s # {} /\ iter[s \ {Max(s)}] \in A => iter[s] = F[<<Max(s), iter[s \ {Max(s)}]>>]

\* acc are the values the fold goes through.
Runs(acc, n, A, base, F) ==
  /\ acc \in [0 .. n -> A]
  /\ acc[0] = base
  /\ \A k \in 0 .. n - 1 : acc[k + 1] = F[<<k + 1, acc[k]>>]

\* The loop itself: a solution of the recursion, read off at the prefixes.
LEMMA LoopDefined ==
  ASSUME NEW iter, NEW n, NEW A, NEW base, NEW F, Unwinds(iter, n, A, base, F)
  PROVE  \E acc : Runs(acc, n, A, base, F) /\ iter[1 .. n] = acc[n]
<1> DEFINE acc == [k \in 0 .. n |-> iter[1 .. k]]
<1> n \in Nat /\ base \in A /\ F \in [(1 .. n) \X A -> A]
  BY DEF Unwinds
<1>1. acc[0] = base
  <2>1. 1 .. 0 = {} /\ 0 \in 0 .. n
    BY SMT
  <2> QED BY <2>1 DEF Unwinds
<1>2. ASSUME NEW k \in 0 .. n - 1, acc[k] \in A
      PROVE  acc[k + 1] = F[<<k + 1, acc[k]>>]
  <2>1. k \in Int /\ 0 <= k /\ k + 1 <= n
    BY SMT
  <2>2. k \in 0 .. n /\ k + 1 \in 0 .. n /\ k + 1 \in 1 .. k + 1
    BY <2>1, SMT
  <2>3. \A i \in 1 .. k + 1 : i \in 1 .. n /\ (i # k + 1 <=> i \in 1 .. k)
    BY <2>1, SMT
  <2>4. \A i \in 1 .. k : i \in 1 .. k + 1
    BY <2>1, SMT
  <2>5. /\ 1 .. k + 1 \in SUBSET (1 .. n)
        /\ 1 .. k + 1 # {} /\ (1 .. k + 1) \ {k + 1} = 1 .. k
    BY <2>2, <2>3, <2>4
  <2>6. Max(1 .. k + 1) = k + 1
    BY SMT DEF Max
  <2>7. iter[1 .. k + 1] = F[<<k + 1, iter[1 .. k]>>]
    BY <1>2, <2>2, <2>5, <2>6 DEF Unwinds
  <2> QED BY <2>2, <2>7
<1> DEFINE T == {k \in 0 .. n : acc[k] \in A}
<1>3. acc = [k \in 0 .. n |-> acc[k]]
  OBVIOUS
<1>4. iter[1 .. n] = acc[n]
  BY SMT
<1> HIDE DEF acc
<1>5. 0 .. n \subseteq T
  <2>1. 0 \in T
    BY <1>1, SMT
  <2>2. ASSUME NEW k \in 0 .. n - 1, k \in T
        PROVE  k + 1 \in T
    <3>1. k + 1 \in 1 .. n /\ k + 1 \in 0 .. n
      BY SMT
    <3> QED BY <1>2, <2>2, <3>1
  <2> HIDE DEF T
  <2> QED BY <2>1, <2>2, Climb
<1>6. acc \in [0 .. n -> A]
  BY <1>3, <1>5
<1>7. \A k \in 0 .. n - 1 : acc[k + 1] = F[<<k + 1, acc[k]>>]
  <2> SUFFICES ASSUME NEW k \in 0 .. n - 1  PROVE acc[k + 1] = F[<<k + 1, acc[k]>>]
    OBVIOUS
  <2>1. k \in 0 .. n
    BY SMT
  <2> QED BY <1>2, <1>6, <2>1
<1> QED BY <1>1, <1>4, <1>6, <1>7 DEF Runs

-----------------------------------------------------------------------------
(* Kept *)

\* The sequences Kept goes through.
KeptRun(S, s, T, acc) ==
  /\ acc \in [0 .. Len(s) -> Seq(S)]
  /\ acc[0] = <<>>
  /\ \A k \in 0 .. Len(s) - 1 :
       acc[k + 1] = IF s[k + 1] \in T THEN Append(acc[k], s[k + 1]) ELSE acc[k]
  /\ Kept(s, T) = acc[Len(s)]

LEMMA KeptLoop ==
  ASSUME NEW S, NEW s \in Seq(S), NEW T
  PROVE  \E acc : KeptRun(S, s, T, acc)
<1> DEFINE n == Len(s)
           op(i, u) == IF s[i] \in T THEN Append(u, s[i]) ELSE u
           F == [x \in (1 .. n) \X Seq(S) |-> op(x[1], x[2])]
           Solves(h) ==
             h = [x \in SUBSET (1 .. n) |-> IF x = {} THEN <<>> ELSE op(Max(x), h[x \ {Max(x)}])]
           iter == CHOOSE h : Solves(h)
<1>1. /\ n \in Nat /\ DOMAIN s = 1 .. n
      /\ \A i \in 1 .. n : s[i] \in S
  BY LenProperties
<1>2. Kept(s, T) = iter[1 .. n]
  BY <1>1 DEF Kept, FoldLeft, MapThenFoldSet
<1>3. \A i \in 1 .. n, u \in Seq(S) : op(i, u) \in Seq(S)
  BY <1>1
<1>4. /\ F \in [(1 .. n) \X Seq(S) -> Seq(S)]
      /\ \A i \in 1 .. n, u \in Seq(S) : F[<<i, u>>] = op(i, u)
  <2> HIDE DEF op, n
  <2> QED BY <1>3
<1>5. <<>> \in Seq(S)
  OBVIOUS
<1>6. PICK g \in [SUBSET (1 .. n) -> Seq(S)] :
        \A x \in SUBSET (1 .. n) :
          /\ g[x] = IF x = {} THEN <<>> ELSE F[<<Max(x), g[x \ {Max(x)}]>>]
          /\ x # {} => Max(x) \in x
  <2> HIDE DEF F, n
  <2> QED BY <1>1, <1>4, <1>5, FoldDefined
<1>7. Solves(g)
  <2>1. ASSUME NEW x \in SUBSET (1 .. n), x # {}
        PROVE  F[<<Max(x), g[x \ {Max(x)}]>>] = op(Max(x), g[x \ {Max(x)}])
    <3>1. Max(x) \in 1 .. n /\ g[x \ {Max(x)}] \in Seq(S)
      BY <1>6, <2>1
    <3> HIDE DEF F, op
    <3> QED BY <1>4, <3>1
  <2> HIDE DEF F, op
  <2> QED BY <1>6, <2>1
<1>8. Solves(iter)
  <2> HIDE DEF Solves
  <2> QED BY <1>7
<1> HIDE DEF iter
<1>9. \A x \in SUBSET (1 .. n) :
        iter[x] = IF x = {} THEN <<>> ELSE op(Max(x), iter[x \ {Max(x)}])
  <2> HIDE DEF op
  <2> QED BY <1>8
<1> HIDE DEF op, F, n
<1>10. iter[{}] = <<>>
  BY <1>9
<1>11. ASSUME NEW x \in SUBSET (1 .. n), x # {}, iter[x \ {Max(x)}] \in Seq(S)
       PROVE  iter[x] = F[<<Max(x), iter[x \ {Max(x)}]>>]
  <2>1. Max(x) \in 1 .. n
    BY <1>6, <1>11
  <2>2. F[<<Max(x), iter[x \ {Max(x)}]>>] = op(Max(x), iter[x \ {Max(x)}])
    BY <1>4, <1>11, <2>1
  <2> QED BY <1>9, <1>11, <2>2
<1>12. PICK acc : Runs(acc, n, Seq(S), <<>>, F) /\ iter[1 .. n] = acc[n]
  <2>1. Unwinds(iter, n, Seq(S), <<>>, F)
    BY <1>1, <1>4, <1>5, <1>10, <1>11 DEF Unwinds
  <2> QED BY <2>1, LoopDefined
<1>13. ASSUME NEW k \in 0 .. n - 1
       PROVE  acc[k + 1] = op(k + 1, acc[k])
  <2>1. k + 1 \in 1 .. n /\ k \in 0 .. n
    BY <1>1, SMT
  <2>2. acc[k] \in Seq(S)
    BY <1>12, <2>1 DEF Runs
  <2>3. F[<<k + 1, acc[k]>>] = op(k + 1, acc[k])
    BY <1>4, <2>1, <2>2
  <2> QED BY <1>12, <2>3 DEF Runs
<1>14. acc \in [0 .. n -> Seq(S)] /\ acc[0] = <<>>
  BY <1>12 DEF Runs
<1> QED BY <1>2, <1>12, <1>13, <1>14 DEF op, n, KeptRun

\* f names the positions of the elements of u in s: all those in T.
Picked(s, T, n, u, f) ==
  /\ f \in [1 .. Len(u) -> 1 .. n]
  /\ \A j \in 1 .. Len(u) : u[j] = s[f[j]] /\ s[f[j]] \in T
  /\ \A j, k \in 1 .. Len(u) : f[j] = f[k] => j = k
  /\ \A i \in 1 .. n : s[i] \in T => \E j \in 1 .. Len(u) : f[j] = i

\* Kept returns the elements in T, each once.
LEMMA KeptIs ==
  ASSUME NEW S, NEW s \in Seq(S), NEW T
  PROVE  /\ Kept(s, T) \in Seq(S)
         /\ \E f : Picked(s, T, Len(s), Kept(s, T), f)
<1>0. PICK acc : KeptRun(S, s, T, acc)
  BY KeptLoop
<1>1. /\ acc \in [0 .. Len(s) -> Seq(S)]
      /\ acc[0] = <<>>
      /\ \A k \in 0 .. Len(s) - 1 :
           acc[k + 1] = IF s[k + 1] \in T THEN Append(acc[k], s[k + 1]) ELSE acc[k]
      /\ Kept(s, T) = acc[Len(s)]
  BY <1>0 DEF KeptRun
<1>2. Len(s) \in Nat /\ \A i \in 1 .. Len(s) : s[i] \in S
  BY LenProperties
<1> DEFINE n == Len(s)
           U == {k \in 0 .. n : \E f : Picked(s, T, k, acc[k], f)}
<1> HIDE DEF n
<1>3. 0 \in U
  <2>1. Picked(s, T, 0, <<>>, [j \in {} |-> 0])
    <3>1. Len(<<>>) = 0 /\ 1 .. 0 = {}
      BY SMT
    <3> QED BY <3>1 DEF Picked
  <2> QED BY <1>1, <1>2, <2>1, SMT DEF n
<1>4. ASSUME NEW k \in 0 .. n - 1, k \in U
      PROVE  k + 1 \in U
  <2>1. /\ k \in Nat /\ k + 1 \in 0 .. n /\ k \in 0 .. n /\ k + 1 \in 1 .. n
        /\ 1 .. k \subseteq 1 .. k + 1 /\ k + 1 \in 1 .. k + 1 /\ k + 1 \notin 1 .. k
        /\ \A i \in 1 .. k + 1 : i # k + 1 => i \in 1 .. k
    BY <1>2, SMT DEF n
  <2>2. PICK f : Picked(s, T, k, acc[k], f)
    BY <1>4
  <2>3. acc[k + 1] = IF s[k + 1] \in T THEN Append(acc[k], s[k + 1]) ELSE acc[k]
    BY <1>1 DEF n
  <2>4. acc[k] \in Seq(S) /\ s[k + 1] \in S
    BY <1>1, <1>2, <2>1 DEF n
  <2>5. CASE s[k + 1] \notin T
    <3>1. acc[k + 1] = acc[k]
      BY <2>3, <2>5
    <3>2. Picked(s, T, k + 1, acc[k], f)
      BY <2>1, <2>2, <2>5 DEF Picked
    <3> QED BY <2>1, <3>1, <3>2
  <2>6. CASE s[k + 1] \in T
    <3> DEFINE u == acc[k]
               v == acc[k + 1]
               l == Len(u)
               g == [j \in 1 .. l + 1 |-> IF j = l + 1 THEN k + 1 ELSE f[j]]
    <3>1. /\ l \in Nat /\ Len(v) = l + 1 /\ v[l + 1] = s[k + 1]
          /\ \A j \in 1 .. l : v[j] = u[j]
      BY <2>3, <2>4, <2>6, AppendProperties
    <3> HIDE DEF u, v, l
    <3>2. /\ l + 1 \in 1 .. l + 1 /\ 1 .. l \subseteq 1 .. l + 1 /\ l + 1 \notin 1 .. l
          /\ \A j \in 1 .. l + 1 : j # l + 1 => j \in 1 .. l
      BY <3>1, SMT
    <3>3. /\ f \in [1 .. l -> 1 .. k]
          /\ \A j \in 1 .. l : u[j] = s[f[j]] /\ s[f[j]] \in T
          /\ \A j, i \in 1 .. l : f[j] = f[i] => j = i
          /\ \A i \in 1 .. k : s[i] \in T => \E j \in 1 .. l : f[j] = i
      BY <2>2 DEF Picked, u, l
    <3>4. /\ g[l + 1] = k + 1
          /\ \A j \in 1 .. l : g[j] = f[j] /\ f[j] \in 1 .. k
      BY <3>2, <3>3
    <3>5. g \in [1 .. l + 1 -> 1 .. k + 1]
      BY <2>1, <3>2, <3>3
    <3> HIDE DEF g
    <3>6. \A j \in 1 .. l + 1 : v[j] = s[g[j]] /\ s[g[j]] \in T
      BY <2>6, <3>1, <3>2, <3>3, <3>4
    <3>7. \A j, i \in 1 .. l + 1 : g[j] = g[i] => j = i
      BY <2>1, <3>2, <3>3, <3>4
    <3>8. \A i \in 1 .. k + 1 : s[i] \in T => \E j \in 1 .. l + 1 : g[j] = i
      BY <2>1, <3>2, <3>3, <3>4
    <3>9. Picked(s, T, k + 1, v, g)
      BY <3>1, <3>5, <3>6, <3>7, <3>8 DEF Picked
    <3> QED BY <2>1, <3>9 DEF v
  <2> QED BY <2>5, <2>6
<1>5. n \in Nat
  BY <1>2 DEF n
<1>6. 0 .. n \subseteq U
  <2> HIDE DEF U
  <2> QED BY <1>3, <1>4, <1>5, Climb
<1>7. n \in U
  <2> HIDE DEF U
  <2>1. n \in 0 .. n
    BY <1>5, SMT
  <2> QED BY <1>6, <2>1
<1>8. acc[n] \in Seq(S)
  <2>1. n \in 0 .. n
    BY <1>5, SMT
  <2> QED BY <1>1, <2>1 DEF n
<1> QED BY <1>1, <1>7, <1>8 DEF n

\* It returns as many as there are.
LEMMA KeptCount ==
  ASSUME NEW S, NEW s \in Seq(S), NEW T
  PROVE  Len(Kept(s, T)) = Cardinality({i \in 1 .. Len(s) : s[i] \in T})
<1> DEFINE u == Kept(s, T)
           at == {i \in 1 .. Len(s) : s[i] \in T}
<1>1. PICK f : Picked(s, T, Len(s), u, f)
  BY KeptIs
<1>2. u \in Seq(S) /\ Len(u) \in Nat
  BY KeptIs, LenProperties
<1>3. f \in Bijection(1 .. Len(u), at)
  BY <1>1 DEF Picked, Bijection, Injection, Surjection, IsInjective
<1>4. IsFiniteSet(1 .. Len(u)) /\ Cardinality(1 .. Len(u)) = Len(u)
  <2>1. 1 \in Int /\ Len(u) \in Int
    BY <1>2
  <2>2. /\ IsFiniteSet(1 .. Len(u))
        /\ Cardinality(1 .. Len(u)) = IF 1 > Len(u) THEN 0 ELSE Len(u) - 1 + 1
    BY <2>1, FS_Interval
  <2> QED BY <1>2, <2>2, SMT
<1>5. ExistsBijection(1 .. Len(u), at)
  BY <1>3 DEF ExistsBijection
<1> HIDE DEF u, at
<1>6. Cardinality(1 .. Len(u)) = Cardinality(at)
  BY <1>4, <1>5, FS_Bijection
<1> QED BY <1>4, <1>6 DEF u, at

\* Where T is the elements up to a position, Kept cuts the sequence there.
LEMMA KeptPrefix ==
  ASSUME NEW S, NEW s \in Seq(S), NEW T, NEW m \in 0 .. Len(s),
         \A i \in 1 .. Len(s) : s[i] \in T <=> i <= m
  PROVE  Kept(s, T) = [i \in 1 .. m |-> s[i]]
<1>0. PICK acc : KeptRun(S, s, T, acc)
  BY KeptLoop
<1>1. /\ acc \in [0 .. Len(s) -> Seq(S)]
      /\ acc[0] = <<>>
      /\ \A k \in 0 .. Len(s) - 1 :
           acc[k + 1] = IF s[k + 1] \in T THEN Append(acc[k], s[k + 1]) ELSE acc[k]
      /\ Kept(s, T) = acc[Len(s)]
  BY <1>0 DEF KeptRun
<1> DEFINE n == Len(s)
           cut(k) == [i \in 1 .. (IF k <= m THEN k ELSE m) |-> s[i]]
           U == {k \in 0 .. n : acc[k] = cut(k)}
<1>2. n \in Nat /\ (\A i \in 1 .. n : s[i] \in S) /\ m \in 0 .. n
  BY LenProperties
<1> HIDE DEF n
<1>3. 0 \in U
  <2>1. 0 \in 0 .. n /\ (0 <= m) /\ 1 .. 0 = {}
    BY <1>2, SMT
  <2>2. cut(0) = <<>>
    BY <2>1
  <2> QED BY <1>1, <2>1, <2>2
<1>4. ASSUME NEW k \in 0 .. n - 1, k \in U
      PROVE  k + 1 \in U
  <2>1. k \in Nat /\ k + 1 \in 0 .. n /\ k + 1 \in 1 .. n /\ m \in Nat /\ m <= n /\ k <= n
    BY <1>2, SMT
  <2>2. acc[k + 1] = IF k + 1 <= m THEN Append(acc[k], s[k + 1]) ELSE acc[k]
    BY <1>1, <2>1 DEF n
  <2>3. acc[k] = cut(k)
    BY <1>4
  <2>4. CASE k + 1 <= m
    <3>1. k <= m
      BY <2>1, <2>4, SMT
    <3>2. cut(k) = [i \in 1 .. k |-> s[i]] /\ cut(k + 1) = [i \in 1 .. k + 1 |-> s[i]]
      BY <2>4, <3>1
    <3>3. \A i \in 1 .. k + 1 : i \in 1 .. n
      <4>1. k + 1 <= n /\ n \in Nat /\ k \in Nat
        BY <1>2, <2>1, SMT
      <4> QED BY <4>1, SMT
    <3>4. [i \in 1 .. k |-> s[i]] \in Seq(S)
      <4>1. \A i \in 1 .. k : s[i] \in S
        BY <1>2, <2>1, SMT
      <4> QED BY <2>1, <4>1
    <3>5. Append([i \in 1 .. k |-> s[i]], s[k + 1]) = [i \in 1 .. k + 1 |-> s[i]]
      BY <1>2, <2>1, <3>3, <3>4, AppendProperties
    <3> QED BY <2>1, <2>2, <2>3, <2>4, <3>2, <3>5
  <2>5. CASE ~(k + 1 <= m)
    <3>1. cut(k) = cut(k + 1)
      <4>1. k <= m => k = m
        BY <2>1, <2>5, SMT
      <4> QED BY <2>5, <4>1
    <3> QED BY <2>1, <2>2, <2>3, <2>5, <3>1
  <2> QED BY <2>4, <2>5
<1>5. n \in U
  <2> HIDE DEF U
  <2>1. 0 .. n \subseteq U
    BY <1>2, <1>3, <1>4, Climb
  <2> QED BY <1>2, <2>1, SMT
<1>6. cut(n) = [i \in 1 .. m |-> s[i]]
  <2>1. n <= m => n = m
    BY <1>2, SMT
  <2> QED BY <2>1
<1> QED BY <1>1, <1>5, <1>6 DEF n

-----------------------------------------------------------------------------
(* FlattenSeq, where all parts are equally long *)

LEMMA Multiples ==
  ASSUME NEW a \in Nat, NEW b \in Nat, NEW w \in Nat, a <= b
  PROVE  a * w \in Nat /\ b * w \in Nat /\ a * w <= b * w /\ (a + 1) * w = a * w + w
<1>1. (b - a) * w >= 0
  BY SMT
<1> QED BY <1>1, SMT

\* q is a sequence of n sequences of length w.
Parts(q, n, w, S) ==
  /\ n \in Nat \ {0} /\ w \in Nat
  /\ q \in Seq(Seq(S)) /\ Len(q) = n
  /\ \A k \in 1 .. n : Len(q[k]) = w

\* u is the first k of them, one after the other.
Flat(u, q, k, w, S) ==
  /\ u \in Seq(S) /\ Len(u) = k * w
  /\ \A i \in 1 .. k, j \in 1 .. w :
       (i - 1) * w + j \in 1 .. k * w /\ u[(i - 1) * w + j] = q[i][j]

LEMMA FlatNext ==
  ASSUME NEW q, NEW n, NEW w, NEW S, Parts(q, n, w, S),
         NEW k \in 1 .. n - 1, NEW u, Flat(u, q, k, w, S)
  PROVE  Flat(u \o q[k + 1], q, k + 1, w, S)
<1> DEFINE v == q[k + 1]
<1>1. /\ n \in Nat /\ k \in Nat /\ k + 1 \in Nat /\ w \in Nat /\ k + 1 \in 1 .. n
      /\ k - 1 \in Nat /\ \A i \in 1 .. k : i \in 1 .. n /\ i \in Nat /\ i - 1 \in Nat
  BY SMT DEF Parts
<1>2. v \in Seq(S) /\ Len(v) = w /\ u \in Seq(S) /\ Len(u) = k * w
  BY <1>1, LenProperties DEF Parts, Flat
<1> HIDE DEF v
<1>3. k * w \in Nat /\ (k + 1) * w = k * w + w
  BY <1>1, Multiples
<1>4. /\ u \o v \in Seq(S) /\ Len(u \o v) = (k + 1) * w
      /\ \A x \in 1 .. k * w : (u \o v)[x] = u[x]
      /\ \A j \in 1 .. w : (u \o v)[k * w + j] = v[j]
  <2>1. u \o v \in Seq(S) /\ Len(u \o v) = Len(u) + Len(v)
    BY <1>2, ConcatProperties
  <2>2. \A i \in 1 .. Len(u) + Len(v) :
          (u \o v)[i] = IF i <= Len(u) THEN u[i] ELSE v[i - Len(u)]
    BY <1>2, ConcatProperties
  <2>3. ASSUME NEW x \in 1 .. k * w  PROVE (u \o v)[x] = u[x]
    <3>1. x \in 1 .. Len(u) + Len(v) /\ x <= Len(u)
      BY <1>1, <1>2, <1>3, SMT
    <3> QED BY <2>2, <3>1
  <2>4. ASSUME NEW j \in 1 .. w  PROVE (u \o v)[k * w + j] = v[j]
    <3> DEFINE x == k * w + j
    <3>1. x \in 1 .. Len(u) + Len(v) /\ ~(x <= Len(u)) /\ x - Len(u) = j
      BY <1>1, <1>2, <1>3, SMT
    <3> HIDE DEF x
    <3>2. (u \o v)[x] = v[x - Len(u)]
      BY <2>2, <3>1
    <3> QED BY <3>1, <3>2 DEF x
  <2> QED BY <1>2, <1>3, <2>1, <2>3, <2>4
<1>5. ASSUME NEW i \in 1 .. k + 1, NEW j \in 1 .. w
      PROVE  /\ (i - 1) * w + j \in 1 .. (k + 1) * w
             /\ (u \o v)[(i - 1) * w + j] = q[i][j]
  <2>1. CASE i = k + 1
    <3>1. (i - 1) * w + j = k * w + j
      BY <1>1, <2>1
    <3>2. k * w + j \in 1 .. (k + 1) * w
      BY <1>1, <1>3, SMT
    <3> QED BY <1>4, <2>1, <3>1, <3>2 DEF v
  <2>2. CASE i # k + 1
    <3>1. i \in 1 .. k
      BY <1>1, <2>2, SMT
    <3>2. (i - 1) * w + j \in 1 .. k * w /\ u[(i - 1) * w + j] = q[i][j]
      BY <3>1 DEF Flat
    <3>3. (i - 1) * w + j \in 1 .. (k + 1) * w
      BY <1>1, <1>3, <3>2, SMT
    <3> QED BY <1>4, <3>2, <3>3
  <2> QED BY <2>1, <2>2
<1> QED BY <1>4, <1>5 DEF Flat, v

\* FlattenSeq puts the j-th element of part k at (k - 1) * w + j.
LEMMA FlattenIs ==
  ASSUME NEW q, NEW n, NEW w, NEW S, Parts(q, n, w, S)
  PROVE  Flat(FlattenSeq(q), q, n, w, S)
<1> DEFINE next(h, i) == IF i = 1 THEN q[i] ELSE h[i - 1] \o q[i]
           Solves(h) == h = [i \in 1 .. n |-> next(h, i)]
           flat == CHOOSE h : Solves(h)
<1>1. /\ n \in Nat /\ n # 0 /\ w \in Nat /\ Len(q) = n
      /\ \A k \in 1 .. n : q[k] \in Seq(S) /\ Len(q[k]) = w
  BY LenProperties DEF Parts
<1>2. FlattenSeq(q) = flat[n]
  BY <1>1 DEF FlattenSeq
<1>3. \E h : Solves(h)
  <2> DEFINE U == {k \in 0 .. n : \E h : h = [i \in 1 .. k |-> next(h, i)]}
  <2>1. 0 \in U
    <3> DEFINE h == [i \in 1 .. 0 |-> q]
    <3>1. 1 .. 0 = {} /\ 0 \in 0 .. n
      BY <1>1, SMT
    <3>2. h = [i \in 1 .. 0 |-> next(h, i)]
      BY <3>1
    <3> QED BY <3>1, <3>2
  <2>2. ASSUME NEW k \in 0 .. n - 1, k \in U
        PROVE  k + 1 \in U
    <3>1. PICK h : h = [i \in 1 .. k |-> next(h, i)]
      BY <2>2
    <3> DEFINE g == [i \in 1 .. k + 1 |-> IF i = k + 1 THEN next(h, i) ELSE h[i]]
    <3>2. /\ k \in Nat /\ k + 1 \in 0 .. n
          /\ \A i \in 1 .. k + 1 : (i # k + 1 => i \in 1 .. k) /\ (i # 1 => i - 1 \in 1 .. k)
          /\ \A i \in 1 .. k : i \in 1 .. k + 1 /\ i # k + 1
      BY <1>1, SMT
    <3>3. \A i \in 1 .. k : g[i] = h[i]
      BY <3>2
    <3>4. ASSUME NEW i \in 1 .. k + 1  PROVE g[i] = next(g, i)
      <4>1. g[i] = next(h, i)
        BY <3>1, <3>2
      <4> QED BY <3>2, <3>3, <4>1
    <3>5. g = [i \in 1 .. k + 1 |-> g[i]]
      OBVIOUS
    <3> HIDE DEF g, next
    <3>6. g = [i \in 1 .. k + 1 |-> next(g, i)]
      BY <3>4, <3>5
    <3> QED BY <3>2, <3>6
  <2> HIDE DEF U
  <2>3. 0 .. n \subseteq U
    BY <1>1, <2>1, <2>2, Climb
  <2>4. n \in U
    BY <1>1, <2>3, SMT
  <2> QED BY <2>4 DEF U
<1>4. Solves(flat)
  <2> HIDE DEF Solves
  <2> QED BY <1>3
<1> HIDE DEF flat
<1>5. \A i \in 1 .. n : flat[i] = next(flat, i)
  <2> HIDE DEF next
  <2> QED BY <1>4
<1> DEFINE U == {k \in 0 .. n : k # 0 => Flat(flat[k], q, k, w, S)}
<1>6. 0 \in U
  BY <1>1, SMT
<1>7. ASSUME NEW k \in 0 .. n - 1, k \in U
      PROVE  k + 1 \in U
  <2>1. k \in Nat /\ k + 1 \in 0 .. n /\ k + 1 \in 1 .. n /\ (k + 1) - 1 = k
    BY <1>1, SMT
  <2>2. CASE k = 0
    <3>1. flat[1] = q[1] /\ 1 \in 1 .. n
      BY <1>5, <2>1, <2>2
    <3>2. q[1] \in Seq(S) /\ Len(q[1]) = w
      BY <1>1, <3>1
    <3>3. 1 * w = w /\ \A i \in 1 .. 1, j \in 1 .. w : i = 1 /\ (i - 1) * w + j = j
      BY <1>1, SMT
    <3>4. Flat(q[1], q, 1, w, S)
      BY <3>2, <3>3 DEF Flat
    <3> QED BY <2>1, <2>2, <3>1, <3>4
  <2>3. CASE k # 0
    <3>1. Flat(flat[k], q, k, w, S)
      BY <1>7, <2>3
    <3>2. k \in 1 .. n - 1
      BY <1>1, <2>1, <2>3, SMT
    <3>3. flat[k + 1] = flat[k] \o q[k + 1]
      <4>1. k + 1 # 1
        BY <2>1, <2>3, SMT
      <4> QED BY <1>5, <2>1, <4>1
    <3>4. Flat(flat[k + 1], q, k + 1, w, S)
      BY <3>1, <3>2, <3>3, FlatNext
    <3> QED BY <2>1, <3>4
  <2> QED BY <2>2, <2>3
<1>8. Flat(flat[n], q, n, w, S)
  <2>1. 0 .. n \subseteq U
    <3> HIDE DEF U
    <3> QED BY <1>1, <1>6, <1>7, Climb
  <2> QED BY <1>1, <2>1, SMT
<1> QED BY <1>2, <1>8

\* Every position is in one of the parts.
LEMMA Split ==
  ASSUME NEW n \in Nat, NEW w \in Nat, NEW x \in 1 .. n * w
  PROVE  \E k \in 1 .. n, j \in 1 .. w : x = (k - 1) * w + j
<1> DEFINE In(m, y) == \E k \in 1 .. m, j \in 1 .. w : y = (k - 1) * w + j
           U == {m \in 0 .. n : \A y \in 1 .. m * w : In(m, y)}
<1>1. 0 \in U
  <2>1. 0 * w = 0 /\ 0 \in 0 .. n /\ 1 .. 0 = {}
    BY SMT
  <2> QED BY <2>1
<1>2. ASSUME NEW m \in 0 .. n - 1, m \in U
      PROVE  m + 1 \in U
  <2>1. m \in Nat /\ m + 1 \in 0 .. n /\ (\A k \in 1 .. m : k \in 1 .. m + 1) /\ m + 1 \in 1 .. m + 1
    BY SMT
  <2>2. m * w \in Nat /\ (m + 1) * w = m * w + w
    BY <2>1, Multiples
  <2>3. ASSUME NEW y \in 1 .. (m + 1) * w
        PROVE  In(m + 1, y)
    <3>1. CASE y <= m * w
      <4>1. y \in 1 .. m * w
        BY <2>2, <3>1, SMT
      <4> QED BY <1>2, <2>1, <4>1
    <3>2. CASE ~(y <= m * w)
      <4>1. y - m * w \in 1 .. w /\ y = ((m + 1) - 1) * w + (y - m * w)
        BY <2>1, <2>2, <3>2, SMT
      <4> QED BY <2>1, <4>1
    <3> QED BY <3>1, <3>2
  <2> QED BY <2>1, <2>3
<1>3. n \in U
  <2> HIDE DEF U
  <2>1. 0 .. n \subseteq U
    BY <1>1, <1>2, Climb
  <2> QED BY <2>1, SMT
<1> QED BY <1>3

-----------------------------------------------------------------------------
(* store_intervals *)

Tables == UNION {[D -> [Registers -> Cells]] : D \in SUBSET Int}

LEMMA TableType ==
  /\ \A t \in Tables : /\ DOMAIN t \subseteq Int
                       /\ t = [u \in DOMAIN t |-> t[u]]
                       /\ \A u \in DOMAIN t : /\ t[u] \in [Registers -> Cells]
                                              /\ \A f \in Registers : t[u][f] \in Cells
  /\ \A t : /\ t = [u \in DOMAIN t |-> t[u]] /\ DOMAIN t \subseteq Int
            /\ \A u \in DOMAIN t : t[u] \in [Registers -> Cells]
            => t \in Tables
<1>1. ASSUME NEW t \in Tables
      PROVE  /\ DOMAIN t \subseteq Int
             /\ t = [u \in DOMAIN t |-> t[u]]
             /\ \A u \in DOMAIN t : /\ t[u] \in [Registers -> Cells]
                                    /\ \A f \in Registers : t[u][f] \in Cells
  <2>1. PICK D \in SUBSET Int : t \in [D -> [Registers -> Cells]]
    BY DEF Tables
  <2> HIDE DEF Cells
  <2>2. DOMAIN t = D /\ t = [u \in D |-> t[u]]
    BY <2>1
  <2>3. \A u \in D : t[u] \in [Registers -> Cells]
    BY <2>1
  <2>4. \A u \in D : \A f \in Registers : t[u][f] \in Cells
    BY <2>3
  <2> QED BY <2>2, <2>3, <2>4
<1>2. ASSUME NEW t, t = [u \in DOMAIN t |-> t[u]], DOMAIN t \subseteq Int,
             \A u \in DOMAIN t : t[u] \in [Registers -> Cells]
      PROVE  t \in Tables
  <2> HIDE DEF Cells
  <2>1. t \in [DOMAIN t -> [Registers -> Cells]]
    BY <1>2
  <2> QED BY <1>2, <2>1 DEF Tables
<1> QED BY <1>1, <1>2

LEMMA ValuesType ==
  ASSUME NEW r \in Parsed
  PROVE  /\ r.start \in Int /\ r.exists \in BOOLEAN
         /\ Values(r) \in [Registers -> Cells]
         /\ Values(r)["delivered"] = r.delivered /\ Values(r)["received"] = r.received
<1>1. r.start \in Int /\ r.exists \in BOOLEAN /\ r.delivered \in Cells /\ r.received \in Cells
  BY DEF Parsed
<1> HIDE DEF Cells
<1> QED BY <1>1 DEF Values, Registers

\* What one reading does to the table.
LEMMA UpsertFacts ==
  ASSUME NEW t \in Tables, NEW r \in Parsed
  PROVE  /\ Upsert(t, r) \in Tables
         /\ DOMAIN Upsert(t, r) = DOMAIN t \cup {r.start}
         /\ \A u \in DOMAIN t : u # r.start => Upsert(t, r)[u] = t[u]
         /\ \A f \in Registers : Upsert(t, r)[r.start][f] = Merged(t, r, f)
<1> DEFINE s == Upsert(t, r)
           merged == [f \in Registers |-> Merged(t, r, f)]
<1>1. /\ DOMAIN t \subseteq Int
      /\ \A u \in DOMAIN t : /\ t[u] \in [Registers -> Cells]
                             /\ \A f \in Registers : t[u][f] \in Cells
  BY TableType
<1>2. r.start \in Int /\ \A f \in Registers : Values(r)[f] \in Cells
  BY ValuesType
<1>3. \A f \in Registers : Merged(t, r, f) \in Cells
  BY <1>1, <1>2 DEF Merged
<1>4. /\ DOMAIN s = DOMAIN t \cup {r.start} /\ s = [u \in DOMAIN s |-> s[u]]
      /\ s[r.start] = merged
      /\ \A u \in DOMAIN t : u # r.start => s[u] = t[u]
  BY DEF Upsert
<1>5. merged \in [Registers -> Cells] /\ \A f \in Registers : merged[f] = Merged(t, r, f)
  BY <1>3
<1> HIDE DEF s, merged
<1>6. \A u \in DOMAIN s : s[u] \in [Registers -> Cells]
  BY <1>1, <1>4, <1>5
<1>7. s \in Tables
  BY <1>1, <1>2, <1>4, <1>6, TableType
<1> QED BY <1>4, <1>5, <1>7 DEF s

StoreRun(t, readings, acc) ==
  /\ acc \in [0 .. Len(readings) -> Tables]
  /\ acc[0] = t
  /\ \A k \in 0 .. Len(readings) - 1 : acc[k + 1] = Upsert(acc[k], readings[k + 1])
  /\ store_intervals(t, readings) = acc[Len(readings)]

LEMMA StoreLoop ==
  ASSUME NEW t \in Tables, NEW readings \in Seq(Parsed)
  PROVE  \E acc : StoreRun(t, readings, acc)
<1> DEFINE n == Len(readings)
           op(i, u) == Upsert(u, readings[i])
           F == [x \in (1 .. n) \X Tables |-> op(x[1], x[2])]
           Solves(h) ==
             h = [x \in SUBSET (1 .. n) |-> IF x = {} THEN t ELSE op(Max(x), h[x \ {Max(x)}])]
           iter == CHOOSE h : Solves(h)
<1>1. /\ n \in Nat /\ DOMAIN readings = 1 .. n
      /\ \A i \in 1 .. n : readings[i] \in Parsed
  BY LenProperties
<1>2. store_intervals(t, readings) = iter[1 .. n]
  BY <1>1 DEF store_intervals, FoldLeft, MapThenFoldSet
<1>3. \A i \in 1 .. n, u \in Tables : op(i, u) \in Tables
  BY <1>1, UpsertFacts
<1>4. /\ F \in [(1 .. n) \X Tables -> Tables]
      /\ \A i \in 1 .. n, u \in Tables : F[<<i, u>>] = op(i, u)
  <2> HIDE DEF op, n
  <2> QED BY <1>3
<1>6. PICK g \in [SUBSET (1 .. n) -> Tables] :
        \A x \in SUBSET (1 .. n) :
          /\ g[x] = IF x = {} THEN t ELSE F[<<Max(x), g[x \ {Max(x)}]>>]
          /\ x # {} => Max(x) \in x
  <2> HIDE DEF F, n
  <2> QED BY <1>1, <1>4, FoldDefined
<1>7. Solves(g)
  <2>1. ASSUME NEW x \in SUBSET (1 .. n), x # {}
        PROVE  F[<<Max(x), g[x \ {Max(x)}]>>] = op(Max(x), g[x \ {Max(x)}])
    <3>1. Max(x) \in 1 .. n /\ g[x \ {Max(x)}] \in Tables
      BY <1>6, <2>1
    <3> HIDE DEF F, op
    <3> QED BY <1>4, <3>1
  <2> HIDE DEF F, op
  <2> QED BY <1>6, <2>1
<1>8. Solves(iter)
  <2> HIDE DEF Solves
  <2> QED BY <1>7
<1> HIDE DEF iter
<1>9. \A x \in SUBSET (1 .. n) :
        iter[x] = IF x = {} THEN t ELSE op(Max(x), iter[x \ {Max(x)}])
  <2> HIDE DEF op
  <2> QED BY <1>8
<1> HIDE DEF op, F, n
<1>10. iter[{}] = t
  BY <1>9
<1>11. ASSUME NEW x \in SUBSET (1 .. n), x # {}, iter[x \ {Max(x)}] \in Tables
       PROVE  iter[x] = F[<<Max(x), iter[x \ {Max(x)}]>>]
  <2>1. Max(x) \in 1 .. n
    BY <1>6, <1>11
  <2>2. F[<<Max(x), iter[x \ {Max(x)}]>>] = op(Max(x), iter[x \ {Max(x)}])
    BY <1>4, <1>11, <2>1
  <2> QED BY <1>9, <1>11, <2>2
<1>12. PICK acc : Runs(acc, n, Tables, t, F) /\ iter[1 .. n] = acc[n]
  <2>1. Unwinds(iter, n, Tables, t, F)
    BY <1>1, <1>4, <1>10, <1>11 DEF Unwinds
  <2> QED BY <2>1, LoopDefined
<1>13. ASSUME NEW k \in 0 .. n - 1
       PROVE  acc[k + 1] = op(k + 1, acc[k])
  <2>1. k + 1 \in 1 .. n /\ k \in 0 .. n
    BY <1>1, SMT
  <2>2. acc[k] \in Tables
    BY <1>12, <2>1 DEF Runs
  <2>3. F[<<k + 1, acc[k]>>] = op(k + 1, acc[k])
    BY <1>4, <2>1, <2>2
  <2> QED BY <1>12, <2>3 DEF Runs
<1>14. acc \in [0 .. n -> Tables] /\ acc[0] = t
  BY <1>12 DEF Runs
<1> QED BY <1>2, <1>12, <1>13, <1>14 DEF op, n, StoreRun

\* The values the first k readings have for a register of an instant.
Given(readings, k, u, f) ==
  {Values(readings[i])[f] : i \in {x \in 1 .. k : readings[x].start = u}} \ {NULL}

\* s is the table t after the first k readings.
Stores(t, readings, k, s) ==
  /\ DOMAIN s = DOMAIN t \cup {readings[i].start : i \in 1 .. k}
  /\ \A u \in DOMAIN s, f \in Registers :
       IF Given(readings, k, u, f) = {}
       THEN s[u][f] = IF u \in DOMAIN t THEN t[u][f] ELSE NULL
       ELSE s[u][f] \in Given(readings, k, u, f)

LEMMA StoresNext ==
  ASSUME NEW t \in Tables, NEW readings \in Seq(Parsed), NEW k \in 0 .. Len(readings) - 1,
         NEW s \in Tables, Stores(t, readings, k, s)
  PROVE  Stores(t, readings, k + 1, Upsert(s, readings[k + 1]))
<1> DEFINE r == readings[k + 1]
           v == Upsert(s, r)
<1>1. /\ Len(readings) \in Nat /\ k + 1 \in 1 .. Len(readings) /\ k \in Nat
      /\ 1 .. k + 1 = (1 .. k) \cup {k + 1}
  BY LenProperties, SMT
<1>2. r \in Parsed
  BY <1>1, LenProperties
<1>3. /\ DOMAIN v = DOMAIN s \cup {r.start}
      /\ \A u \in DOMAIN s : u # r.start => v[u] = s[u]
      /\ \A f \in Registers : v[r.start][f] = Merged(s, r, f)
  BY <1>2, UpsertFacts
<1> HIDE DEF v
<1>4. DOMAIN v = DOMAIN t \cup {readings[i].start : i \in 1 .. k + 1}
  BY <1>1, <1>3 DEF Stores
<1>5. \A u, f : Given(readings, k + 1, u, f) =
        Given(readings, k, u, f) \cup ((IF r.start = u THEN {Values(r)[f]} ELSE {}) \ {NULL})
  BY <1>1 DEF Given
<1> HIDE DEF r
<1>6. ASSUME NEW u \in DOMAIN v, NEW f \in Registers
      PROVE  IF Given(readings, k + 1, u, f) = {}
             THEN v[u][f] = IF u \in DOMAIN t THEN t[u][f] ELSE NULL
             ELSE v[u][f] \in Given(readings, k + 1, u, f)
  <2>1. CASE u # r.start
    <3>1. Given(readings, k + 1, u, f) = Given(readings, k, u, f)
      BY <1>5, <2>1
    <3> QED BY <1>3, <2>1, <3>1 DEF Stores
  <2>2. CASE u = r.start /\ Values(r)[f] # NULL
    <3>1. v[u][f] = Values(r)[f]
      BY <1>3, <2>2 DEF Merged
    <3>2. Values(r)[f] \in Given(readings, k + 1, u, f)
      BY <1>5, <2>2
    <3> QED BY <3>1, <3>2
  <2>3. CASE u = r.start /\ Values(r)[f] = NULL
    <3>1. Given(readings, k + 1, u, f) = Given(readings, k, u, f)
      <4> DEFINE more == (IF r.start = u THEN {Values(r)[f]} ELSE {}) \ {NULL}
      <4>1. more = {}
        BY <2>3
      <4>2. Given(readings, k + 1, u, f) = Given(readings, k, u, f) \cup more
        BY <1>5
      <4> HIDE DEF more
      <4> QED BY <4>1, <4>2
    <3>2. CASE u \in DOMAIN s
      <4>1. v[u][f] = s[u][f]
        BY <1>3, <2>3, <3>2 DEF Merged
      <4> QED BY <3>1, <3>2, <4>1 DEF Stores
    <3>3. CASE u \notin DOMAIN s
      <4>1. v[u][f] = NULL
        BY <1>3, <2>3, <3>3 DEF Merged
      <4>2. u \notin DOMAIN t /\ \A i \in 1 .. k : readings[i].start # u
        BY <3>3 DEF Stores
      <4>3. Given(readings, k, u, f) = {}
        BY <4>2 DEF Given
      <4> QED BY <3>1, <4>1, <4>2, <4>3
    <3> QED BY <3>2, <3>3
  <2> QED BY <2>1, <2>2, <2>3
<1> QED BY <1>4, <1>6 DEF Stores, v, r

\* A page inserts the rows it has no row for, and leaves in every cell a value it
\* has for it, if it has one, and what was there otherwise.
LEMMA StoreFacts ==
  ASSUME NEW t \in Tables, NEW readings \in Seq(Parsed)
  PROVE  /\ store_intervals(t, readings) \in Tables
         /\ Stores(t, readings, Len(readings), store_intervals(t, readings))
<1>0. PICK acc : StoreRun(t, readings, acc)
  BY StoreLoop
<1>1. /\ acc \in [0 .. Len(readings) -> Tables]
      /\ acc[0] = t
      /\ \A k \in 0 .. Len(readings) - 1 : acc[k + 1] = Upsert(acc[k], readings[k + 1])
      /\ store_intervals(t, readings) = acc[Len(readings)]
  BY <1>0 DEF StoreRun
<1> DEFINE n == Len(readings)
           U == {k \in 0 .. n : Stores(t, readings, k, acc[k])}
<1>2. n \in Nat
  BY LenProperties
<1>3. 0 \in U
  <2>1. 0 \in 0 .. n /\ 1 .. 0 = {}
    BY <1>2, SMT
  <2>2. Stores(t, readings, 0, t)
    BY <2>1 DEF Stores, Given
  <2> QED BY <1>1, <2>1, <2>2
<1>4. ASSUME NEW k \in 0 .. n - 1, k \in U
      PROVE  k + 1 \in U
  <2>1. k \in 0 .. n /\ k + 1 \in 0 .. n
    BY <1>2, SMT
  <2>2. acc[k] \in Tables /\ Stores(t, readings, k, acc[k])
    BY <1>1, <1>4, <2>1
  <2>3. Stores(t, readings, k + 1, Upsert(acc[k], readings[k + 1]))
    BY <2>2, StoresNext
  <2> QED BY <1>1, <2>1, <2>3
<1> HIDE DEF U
<1>5. 0 .. n \subseteq U
  BY <1>2, <1>3, <1>4, Climb
<1>6. n \in U /\ n \in 0 .. n
  BY <1>2, <1>5, SMT
<1> QED BY <1>1, <1>6 DEF U

-----------------------------------------------------------------------------
(* Pages *)

Texts    == STRING \cup {"$ Cost"}
Metrics  == {"temperature_f", "kwh", "kwh_delivered", "kwh_received", "kw", "unknown"}
Columns  == [label : Int \cup {NULL}, weekday : Int]
Rows     == [label : (0 .. DayLen - 1) \cup {Summary}, cells : Seq(Cells)]
DataRow  == [label : 0 .. DayLen - 1, cells : Seq(Cells)]
Pages    == [above : Int, columns : Seq(Columns), headers : Seq(Texts), body : Seq(Rows)]

\* A page whose columns are days of D, or have lost their dates.
Names(page, D) ==
  /\ page \in Pages
  /\ \A i \in 1 .. Len(page.columns) :
       page.columns[i].label \in {NULL} \cup {Label(d) : d \in D}

\* All days around the reference date are known, those of D are among them.
Around(D, reference) ==
  /\ reference \in Int
  /\ \A e \in Window(reference) : Known(e)
  /\ D \subseteq Window(reference)

LEMMA AroundType ==
  ASSUME NEW D, NEW reference, Around(D, reference)
  PROVE  D \subseteq Int
BY CalendarAssumption, SMT DEF Around, Window

LEMMA DatesIn ==
  ASSUME NEW D, NEW reference, Around(D, reference), NEW page, Names(page, D)
  PROVE  Dates(page, reference) \in Seq(D \cup {Refused})
<1> DEFINE T == {c \in ToSet(page.columns) : c.label # NULL}
           dated == Kept(page.columns, T)
           w(i) == IF page.above >= 2 THEN dated[i].weekday ELSE NoWeekday
<1>1. page.columns \in Seq(Columns)
  BY DEF Names, Pages
<1>2. PICK f : Picked(page.columns, T, Len(page.columns), dated, f)
  BY <1>1, KeptIs
<1>3. dated \in Seq(Columns) /\ Len(dated) \in Nat
  BY <1>1, KeptIs, LenProperties
<1>4. \A i \in 1 .. Len(dated) : dated[i].label \in {Label(d) : d \in D}
  <2> SUFFICES ASSUME NEW i \in 1 .. Len(dated)  PROVE dated[i].label \in {Label(d) : d \in D}
    OBVIOUS
  <2>1. f[i] \in 1 .. Len(page.columns) /\ dated[i] = page.columns[f[i]] /\ page.columns[f[i]] \in T
    BY <1>2 DEF Picked
  <2>2. page.columns[f[i]].label # NULL
    BY <2>1 DEF T
  <2> QED BY <2>1, <2>2 DEF Names
<1>5. Dates(page, reference) = [i \in 1 .. Len(dated) |-> infer_year(dated[i].label, w(i), reference)]
  BY DEF Dates
<1> HIDE DEF dated, w, T
<1>6. \A i \in 1 .. Len(dated) : infer_year(dated[i].label, w(i), reference) \in D \cup {Refused}
  <2> SUFFICES ASSUME NEW i \in 1 .. Len(dated)
               PROVE  infer_year(dated[i].label, w(i), reference) \in D \cup {Refused}
    OBVIOUS
  <2>1. PICK d \in D : dated[i].label = Label(d)
    BY <1>4
  <2>2. d \in Window(reference) /\ reference \in Int /\ \A e \in Window(reference) : Known(e)
    BY DEF Around
  <2>3. infer_year(Label(d), w(i), reference) \in {d, Refused}
    BY <2>2, InferOrRefuse
  <2> QED BY <2>1, <2>3
<1> QED BY <1>3, <1>5, <1>6

LEMMA MaxOfPositions ==
  ASSUME NEW n \in Nat, NEW s \in SUBSET (1 .. n), s # {}
  PROVE  Max(s) \in s
<1> DEFINE F == [x \in (1 .. n) \X {0} |-> 0]
<1>1. F \in [(1 .. n) \X {0} -> {0}]
  OBVIOUS
<1> HIDE DEF F
<1> QED BY <1>1, FoldDefined

LEMMA ValueType ==
  ASSUME NEW cells \in Seq(Cells), NEW metrics \in Seq(Metrics), NEW k \in Nat \ {0},
         k * Len(metrics) <= Len(cells), NEW metric
  PROVE  Value(cells, metrics, k, metric) \in Cells
<1> DEFINE at == {j \in DOMAIN metrics : metrics[j] = metric}
           x == (k - 1) * Len(metrics) + Max(at)
<1>1. Len(metrics) \in Nat /\ DOMAIN metrics = 1 .. Len(metrics)
      /\ Len(cells) \in Nat /\ \A i \in 1 .. Len(cells) : cells[i] \in Cells
  BY LenProperties
<1>2. CASE at = {}
  BY <1>2 DEF Value, Cells
<1>3. CASE at # {}
  <2>1. Max(at) \in 1 .. Len(metrics)
    BY <1>1, <1>3, MaxOfPositions
  <2>2. k - 1 \in Nat /\ (k - 1) + 1 = k
    BY SMT
  <2>3. (k - 1) * Len(metrics) \in Nat /\ k * Len(metrics) = (k - 1) * Len(metrics) + Len(metrics)
    BY <1>1, <2>2, Multiples
  <2>4. x \in 1 .. Len(cells)
    <3> HIDE DEF at
    <3> QED BY <1>1, <2>1, <2>3, SMT
  <2>5. Value(cells, metrics, k, metric) = cells[x]
    BY <1>3 DEF Value
  <2> HIDE DEF x
  <2> QED BY <1>1, <2>4, <2>5
<1> QED BY <1>2, <1>3

LEMMA ReadRowType ==
  ASSUME NEW row \in DataRow, NEW pass, NEW metrics \in Seq(Metrics), NEW d \in Int,
         NEW k \in Nat \ {0}, k * Len(metrics) <= Len(row.cells)
  PROVE  ReadRow(row, pass, metrics, d, k) \in Parsed
<1>1. row.cells \in Seq(Cells) /\ row.label \in Int
  BY ClockAssumption, SMT DEF DataRow
<1>2. \A metric : Value(row.cells, metrics, k, metric) \in Cells
  BY <1>1, ValueType
<1>3. localize(d, row.label, pass) \in Int
  BY <1>1, SlotOfDay, InstantNear DEF localize
<1>4. slot_exists(d, row.label, pass) \in BOOLEAN
  BY DEF slot_exists
<1> QED BY <1>2, <1>3, <1>4 DEF ReadRow, Parsed

LEMMA DataRowsAre ==
  ASSUME NEW page \in Pages
  PROVE  DataRows(page) \in Seq(DataRow)
<1> DEFINE T == {row \in ToSet(page.body) : row.label # Summary}
           body == Kept(page.body, T)
<1>1. page.body \in Seq(Rows)
  BY DEF Pages
<1>2. PICK f : Picked(page.body, T, Len(page.body), body, f)
  BY <1>1, KeptIs
<1>3. body \in Seq(Rows) /\ Len(body) \in Nat /\ body = [i \in 1 .. Len(body) |-> body[i]]
      /\ \A i \in 1 .. Len(body) : body[i] \in Rows
  BY <1>1, KeptIs, LenProperties
<1>4. \A i \in 1 .. Len(body) : body[i].label # Summary
  BY <1>2 DEF Picked
<1>5. DataRows(page) = body
  BY DEF DataRows
<1> HIDE DEF body
<1>6. \A i \in 1 .. Len(body) : body[i] \in DataRow
  BY <1>3, <1>4 DEF Rows, DataRow
<1> QED BY <1>3, <1>5, <1>6

-----------------------------------------------------------------------------
(* What an accepted page is read as *)

Entry(body, metrics, dates, k, i) ==
  ReadRow(body[i], Occurrence(body, i), metrics, dates[k], k)

\* The readings are the existing entries of a table of rows and days, and an
\* anomaly is left unless the rows fit and no slot is a ghost.
ReadAs(grid, body, metrics, dates) ==
  /\ grid.readings \in Seq(Parsed) /\ grid.anomaly \in BOOLEAN
  /\ \A x \in 1 .. Len(grid.readings) :
       \E k \in 1 .. Len(dates), i \in 1 .. Len(body) :
         /\ grid.readings[x] = Entry(body, metrics, dates, k, i)
         /\ Entry(body, metrics, dates, k, i).exists
  /\ \A k \in 1 .. Len(dates), i \in 1 .. Len(body) :
       Entry(body, metrics, dates, k, i).exists
       => \E x \in 1 .. Len(grid.readings) :
            grid.readings[x] = Entry(body, metrics, dates, k, i)
  /\ ~grid.anomaly => /\ ~CountIsOff(body, dates) /\ Backward(body) = {}
                      /\ \A k \in 1 .. Len(dates), i \in 1 .. Len(body) :
                           ~Ghost(Entry(body, metrics, dates, k, i))

\* The parts of a table that fits.
Fits(page, D, body, metrics, dates) ==
  /\ body = DataRows(page) /\ body \in Seq(DataRow) /\ Len(body) \in Nat \ {0}
  /\ dates \in Seq(D) /\ Len(dates) \in Nat \ {0}
  /\ metrics = Groups(page, Len(dates))[1] /\ metrics \in Seq(Metrics)
  /\ Len(metrics) \in Nat /\ Len(page.headers) = Len(dates) * Len(metrics)
  /\ HeaderFits(page, dates) /\ RowsFit(body, dates, Len(dates) * Len(metrics))

LEMMA CanonicalType == \A text : canonical_metric(text) \in Metrics
BY Zenon DEF canonical_metric, Metrics

LEMMA GroupsAre ==
  ASSUME NEW page \in Pages, NEW n \in Nat \ {0}, Len(page.headers) % n = 0
  PROVE  LET w == Len(page.headers) \div n IN
         /\ w \in Nat /\ Len(page.headers) = n * w
         /\ \A i \in 1 .. n :
              Groups(page, n)[i] = [j \in 1 .. w |-> canonical_metric(page.headers[(i - 1) * w + j])]
         /\ Groups(page, n)[1] \in Seq(Metrics) /\ Len(Groups(page, n)[1]) = w
<1> DEFINE len == Len(page.headers)
           w == len \div n
<1>1. len \in Nat
  BY LenProperties DEF Pages
<1>2. w \in Nat /\ len = n * w
  <2>1. len % n = 0
    OBVIOUS
  <2> HIDE DEF len
  <2>2. w \in Nat
    BY <1>1, SMT
  <2>3. len = n * w
    BY <1>1, <2>1, SMT
  <2> QED BY <2>2, <2>3
<1>3. \A i \in 1 .. n :
        Groups(page, n)[i] = [j \in 1 .. w |-> canonical_metric(page.headers[(i - 1) * w + j])]
  BY DEF Groups
<1>4. 1 \in 1 .. n
  BY SMT
<1> HIDE DEF w
<1>5. Groups(page, n)[1] \in Seq(Metrics) /\ Len(Groups(page, n)[1]) = w
  <2> DEFINE text(j) == page.headers[(1 - 1) * w + j]
  <2>1. Groups(page, n)[1] = [j \in 1 .. w |-> canonical_metric(text(j))]
    BY <1>3, <1>4
  <2> HIDE DEF text
  <2>2. \A j \in 1 .. w : canonical_metric(text(j)) \in Metrics
    BY CanonicalType
  <2> QED BY <1>2, <2>1, <2>2
<1> QED BY <1>2, <1>3, <1>5 DEF w

\* cells are the entries of a table of rows and days.
Entries(cells, body, metrics, dates) ==
  LET n == Len(dates)
      m == Len(body)
  IN  /\ cells \in Seq(Parsed) /\ Len(cells) = n * m /\ DOMAIN cells = 1 .. n * m
      /\ \A k \in 1 .. n, i \in 1 .. m :
           /\ (k - 1) * m + i \in 1 .. n * m
           /\ cells[(k - 1) * m + i] = Entry(body, metrics, dates, k, i)
      /\ \A y \in 1 .. n * m : \E k \in 1 .. n, i \in 1 .. m :
           cells[y] = Entry(body, metrics, dates, k, i)

LEMMA TableOf ==
  ASSUME NEW D, NEW reference, Around(D, reference), NEW page, Names(page, D),
         LET dates == Dates(page, reference) IN
         /\ HeaderFits(page, dates)
         /\ RowsFit(DataRows(page), dates, Len(dates) * Len(Groups(page, Len(dates))[1]))
  PROVE  LET dates   == Dates(page, reference)
             body    == DataRows(page)
             metrics == Groups(page, Len(dates))[1]
         IN  /\ Fits(page, D, body, metrics, dates)
             /\ Entries(ReadRows(body, metrics, dates), body, metrics, dates)
<1> DEFINE dates   == Dates(page, reference)
           body    == DataRows(page)
           metrics == Groups(page, Len(dates))[1]
           cells   == ReadRows(body, metrics, dates)
           n == Len(dates)
           m == Len(body)
           w == Len(metrics)
<1>1. HeaderFits(page, dates) /\ RowsFit(body, dates, n * w)
  OBVIOUS
<1>3. dates \in Seq(D \cup {Refused}) /\ page \in Pages /\ D \subseteq Int
  BY DatesIn, AroundType DEF Names
<1>4. dates # <<>> /\ Refused \notin ToSet(dates) /\ Len(page.headers) % n = 0
  BY <1>1 DEF HeaderFits
<1>5. dates \in Seq(D) /\ n \in Nat \ {0} /\ \A k \in 1 .. n : dates[k] \in D /\ dates[k] \in Int
  <2> HIDE DEF dates
  <2>1. n \in Nat /\ dates = [k \in 1 .. n |-> dates[k]] /\ DOMAIN dates = 1 .. n
        /\ \A k \in 1 .. n : dates[k] \in D \cup {Refused}
    BY <1>3, LenProperties
  <2>2. \A k \in 1 .. n : dates[k] \in D
    BY <1>4, <2>1 DEF ToSet
  <2>3. dates \in Seq(D)
    BY <2>1, <2>2
  <2>4. n # 0
    BY <1>3, <1>4, EmptySeq
  <2> QED BY <1>3, <2>1, <2>2, <2>3, <2>4
<1>6. body \in Seq(DataRow) /\ m \in Nat \ {0} /\ \A i \in 1 .. m : body[i] \in DataRow
  <2>1. body \in Seq(DataRow)
    BY <1>3, DataRowsAre
  <2>2. body # <<>>
    BY <1>1 DEF RowsFit
  <2> HIDE DEF body
  <2> QED BY <2>1, <2>2, EmptySeq, LenProperties
<1>7. metrics \in Seq(Metrics) /\ w \in Nat /\ Len(page.headers) = n * w
  <2>1. n \in Nat \ {0} /\ page \in Pages /\ Len(page.headers) % n = 0
    BY <1>3, <1>4, <1>5
  <2> HIDE DEF dates, n
  <2>2. LET v == Len(page.headers) \div n IN
        /\ v \in Nat /\ Len(page.headers) = n * v
        /\ Groups(page, n)[1] \in Seq(Metrics) /\ Len(Groups(page, n)[1]) = v
    BY <2>1, GroupsAre
  <2>3. metrics = Groups(page, n)[1]
    BY DEF n
  <2> HIDE DEF metrics
  <2> QED BY <2>2, <2>3
<1>8. Fits(page, D, body, metrics, dates)
  BY <1>1, <1>5, <1>6, <1>7 DEF Fits
<1>9. cells = FlattenSeq([k \in 1 .. n |-> [i \in 1 .. m |-> Entry(body, metrics, dates, k, i)]])
  BY DEF ReadRows, Entry
<1>10. \A i \in 1 .. m : Len(body[i].cells) >= n * w
  <2>1. DOMAIN body = 1 .. m
    BY <1>6, LenProperties
  <2> QED BY <1>1, <2>1 DEF RowsFit
<1> HIDE DEF dates, body, metrics, cells
<1>11. \A k \in 1 .. n, i \in 1 .. m : Entry(body, metrics, dates, k, i) \in Parsed
  <2> SUFFICES ASSUME NEW k \in 1 .. n, NEW i \in 1 .. m
               PROVE  Entry(body, metrics, dates, k, i) \in Parsed
    OBVIOUS
  <2>1. body[i] \in DataRow /\ dates[k] \in Int /\ k \in Nat \ {0} /\ k <= n /\ n \in Nat
    BY <1>5, <1>6, SMT
  <2>2. k * w <= n * w /\ k * w \in Nat /\ n * w \in Nat
    BY <1>7, <2>1, Multiples
  <2>3. Len(body[i].cells) \in Nat
    BY <2>1, LenProperties DEF DataRow
  <2>4. k * w <= Len(body[i].cells)
    BY <1>10, <2>2, <2>3, SMT
  <2> QED BY <1>7, <2>1, <2>4, ReadRowType DEF Entry
<1> DEFINE q == [k \in 1 .. n |-> [i \in 1 .. m |-> Entry(body, metrics, dates, k, i)]]
<1>12. Parts(q, n, m, Parsed) /\ \A k \in 1 .. n, i \in 1 .. m : q[k][i] = Entry(body, metrics, dates, k, i)
  <2>1. \A k \in 1 .. n : /\ [i \in 1 .. m |-> Entry(body, metrics, dates, k, i)] \in Seq(Parsed)
                          /\ Len([i \in 1 .. m |-> Entry(body, metrics, dates, k, i)]) = m
    BY <1>6, <1>11
  <2>2. q \in Seq(Seq(Parsed)) /\ Len(q) = n
    BY <1>5, <2>1
  <2> QED BY <1>5, <1>6, <2>1, <2>2 DEF Parts
<1>13. Flat(cells, q, n, m, Parsed)
  <2> HIDE DEF q
  <2>1. Flat(FlattenSeq(q), q, n, m, Parsed)
    BY <1>12, FlattenIs
  <2> QED BY <1>9, <2>1 DEF q
<1> HIDE DEF q
<1>14. /\ cells \in Seq(Parsed) /\ Len(cells) = n * m /\ DOMAIN cells = 1 .. n * m
       /\ \A k \in 1 .. n, i \in 1 .. m : /\ (k - 1) * m + i \in 1 .. n * m
                                          /\ cells[(k - 1) * m + i] = Entry(body, metrics, dates, k, i)
  BY <1>12, <1>13, LenProperties DEF Flat
<1>15. \A y \in 1 .. n * m : \E k \in 1 .. n, i \in 1 .. m :
         cells[y] = Entry(body, metrics, dates, k, i)
  <2> SUFFICES ASSUME NEW y \in 1 .. n * m
               PROVE  \E k \in 1 .. n, i \in 1 .. m : cells[y] = Entry(body, metrics, dates, k, i)
    OBVIOUS
  <2>1. PICK k \in 1 .. n, i \in 1 .. m : y = (k - 1) * m + i
    BY <1>5, <1>6, Split
  <2> QED BY <1>14, <2>1
<1>16. Entries(cells, body, metrics, dates)
  BY <1>14, <1>15 DEF Entries
<1> QED BY <1>8, <1>16 DEF dates, body, metrics, cells

LEMMA ParseFacts ==
  ASSUME NEW D, NEW reference, Around(D, reference), NEW page, Names(page, D),
         parse_interval_grid(page, reference) # Refused
  PROVE  LET dates   == Dates(page, reference)
             body    == DataRows(page)
             metrics == Groups(page, Len(dates))[1]
         IN  /\ Fits(page, D, body, metrics, dates)
             /\ ReadAs(parse_interval_grid(page, reference), body, metrics, dates)
<1> DEFINE dates   == Dates(page, reference)
           body    == DataRows(page)
           metrics == Groups(page, Len(dates))[1]
           cells   == ReadRows(body, metrics, dates)
           grid    == parse_interval_grid(page, reference)
           n == Len(dates)
           m == Len(body)
           w == Len(metrics)
           T == {r \in ToSet(cells) : r.exists}
<1>1. /\ HeaderFits(page, dates) /\ RowsFit(body, dates, n * w)
      /\ grid = [readings |-> Kept(cells, T),
                 anomaly  |-> \/ CountIsOff(body, dates)
                              \/ Backward(body) # {}
                              \/ \E i \in DOMAIN cells : Ghost(cells[i])]
  BY DEF parse_interval_grid
<1>2. /\ grid.readings = Kept(cells, T)
      /\ grid.anomaly = (\/ CountIsOff(body, dates)
                         \/ Backward(body) # {}
                         \/ \E i \in DOMAIN cells : Ghost(cells[i]))
  BY <1>1
<1> HIDE DEF grid, T
<1>8. Fits(page, D, body, metrics, dates) /\ Entries(cells, body, metrics, dates)
  BY <1>1, TableOf
<1> HIDE DEF dates, body, metrics, cells
<1>14. /\ cells \in Seq(Parsed) /\ Len(cells) = n * m /\ DOMAIN cells = 1 .. n * m
       /\ \A k \in 1 .. n, i \in 1 .. m : /\ (k - 1) * m + i \in 1 .. n * m
                                          /\ cells[(k - 1) * m + i] = Entry(body, metrics, dates, k, i)
  BY <1>8 DEF Entries
<1>15. \A y \in 1 .. n * m : \E k \in 1 .. n, i \in 1 .. m :
         cells[y] = Entry(body, metrics, dates, k, i)
  BY <1>8 DEF Entries
<1>16. \A y \in 1 .. n * m : cells[y] \in T <=> cells[y].exists
  BY <1>14 DEF T, ToSet
<1>17. PICK f : Picked(cells, T, n * m, grid.readings, f)
  BY <1>2, <1>14, KeptIs
<1>18. grid.readings \in Seq(Parsed)
  BY <1>2, <1>14, KeptIs
<1>19. \A x \in 1 .. Len(grid.readings) :
         \E k \in 1 .. n, i \in 1 .. m :
           /\ grid.readings[x] = Entry(body, metrics, dates, k, i)
           /\ Entry(body, metrics, dates, k, i).exists
  <2> SUFFICES ASSUME NEW x \in 1 .. Len(grid.readings)
               PROVE  \E k \in 1 .. n, i \in 1 .. m :
                        /\ grid.readings[x] = Entry(body, metrics, dates, k, i)
                        /\ Entry(body, metrics, dates, k, i).exists
    OBVIOUS
  <2>1. f[x] \in 1 .. n * m /\ grid.readings[x] = cells[f[x]] /\ cells[f[x]] \in T
    BY <1>17 DEF Picked
  <2>2. cells[f[x]].exists
    BY <1>16, <2>1
  <2> QED BY <1>15, <2>1, <2>2
<1>20. ASSUME NEW k \in 1 .. n, NEW i \in 1 .. m, Entry(body, metrics, dates, k, i).exists
       PROVE  \E x \in 1 .. Len(grid.readings) : grid.readings[x] = Entry(body, metrics, dates, k, i)
  <2> DEFINE y == (k - 1) * m + i
  <2>1. y \in 1 .. n * m /\ cells[y] = Entry(body, metrics, dates, k, i)
    BY <1>14
  <2> HIDE DEF y
  <2>2. cells[y] \in T
    BY <1>16, <1>20, <2>1
  <2> QED BY <1>17, <2>1, <2>2 DEF Picked
<1>21. grid.anomaly \in BOOLEAN
  BY <1>2
<1>22. ~grid.anomaly => /\ ~CountIsOff(body, dates) /\ Backward(body) = {}
                        /\ \A k \in 1 .. n, i \in 1 .. m : ~Ghost(Entry(body, metrics, dates, k, i))
  <2> SUFFICES ASSUME ~grid.anomaly, NEW k \in 1 .. n, NEW i \in 1 .. m
               PROVE  /\ ~CountIsOff(body, dates) /\ Backward(body) = {}
                      /\ ~Ghost(Entry(body, metrics, dates, k, i))
    BY <1>2
  <2> DEFINE y == (k - 1) * m + i
  <2>1. y \in 1 .. n * m /\ cells[y] = Entry(body, metrics, dates, k, i)
    BY <1>14
  <2> HIDE DEF y
  <2>2. y \in DOMAIN cells
    BY <1>14, <2>1
  <2> QED BY <1>2, <2>1, <2>2
<1>23. ReadAs(grid, body, metrics, dates)
  BY <1>18, <1>19, <1>20, <1>21, <1>22 DEF ReadAs
<1> QED BY <1>8, <1>23 DEF dates, body, metrics, grid

-----------------------------------------------------------------------------
(* The time labels of the rows *)

Slots == 0 .. DayLen - 1

\* u is s and then t, or a, b and then c.
Joined(u, s, t, S) ==
  /\ u \in Seq(S) /\ Len(u) = Len(s) + Len(t)
  /\ \A i \in 1 .. Len(s) + Len(t) : u[i] = IF i <= Len(s) THEN s[i] ELSE t[i - Len(s)]

LEMMA Join ==
  ASSUME NEW S, NEW s \in Seq(S), NEW t \in Seq(S)
  PROVE  Joined(s \o t, s, t, S)
BY ConcatProperties DEF Joined

Joined3(u, a, b, c, S) ==
  /\ u \in Seq(S) /\ Len(u) = Len(a) + Len(b) + Len(c)
  /\ \A i \in 1 .. Len(a) + Len(b) + Len(c) :
       u[i] = IF i <= Len(a) THEN a[i]
              ELSE IF i <= Len(a) + Len(b) THEN b[i - Len(a)]
              ELSE c[i - (Len(a) + Len(b))]

LEMMA Join3 ==
  ASSUME NEW S, NEW a \in Seq(S), NEW b \in Seq(S), NEW c \in Seq(S)
  PROVE  Joined3(a \o b \o c, a, b, c, S)
<1> DEFINE ab == a \o b
           abc == ab \o c
<1>1. Len(a) \in Nat /\ Len(b) \in Nat /\ Len(c) \in Nat
  BY LenProperties
<1>2. Joined(ab, a, b, S)
  BY Join
<1> HIDE DEF ab
<1>3. ab \in Seq(S)
  BY <1>2 DEF Joined
<1>4. Joined(abc, ab, c, S)
  BY <1>3, Join
<1> HIDE DEF abc
<1>5. Len(ab) = Len(a) + Len(b) /\ Len(abc) = Len(a) + Len(b) + Len(c) /\ abc \in Seq(S)
  BY <1>2, <1>4 DEF Joined
<1>6. ASSUME NEW i \in 1 .. Len(a) + Len(b) + Len(c)
      PROVE  abc[i] = IF i <= Len(a) THEN a[i]
                      ELSE IF i <= Len(a) + Len(b) THEN b[i - Len(a)]
                      ELSE c[i - (Len(a) + Len(b))]
  <2>1. abc[i] = IF i <= Len(ab) THEN ab[i] ELSE c[i - Len(ab)]
    BY <1>4, <1>5 DEF Joined
  <2>2. i <= Len(ab) => i \in 1 .. Len(a) + Len(b)
    BY <1>1, <1>5, SMT
  <2>3. i <= Len(a) => i <= Len(ab)
    BY <1>1, <1>5, SMT
  <2>4. i <= Len(ab) => ab[i] = IF i <= Len(a) THEN a[i] ELSE b[i - Len(a)]
    BY <1>2, <2>2 DEF Joined
  <2> QED BY <1>5, <2>1, <2>3, <2>4
<1> QED BY <1>5, <1>6 DEF Joined3, abc, ab

LEMMA OrdinaryIs ==
  /\ Ordinary \in Seq(Slots) /\ Len(Ordinary) = DayLen
  /\ \A i \in 1 .. DayLen : Ordinary[i] = i - 1
<1>1. \A i \in 1 .. DayLen : i - 1 \in Slots
  BY ClockAssumption, SMT DEF Slots
<1> QED BY <1>1, ClockAssumption DEF Ordinary

LEMMA RepeatedIs ==
  /\ Repeated \in Seq(Slots) /\ Len(Repeated) = Shift
  /\ \A i \in 1 .. Shift : Repeated[i] = Change - Shift + i - 1
<1>1. \A i \in 1 .. Shift : Change - Shift + i - 1 \in Slots
  BY ClockAssumption, SMT DEF Slots
<1> QED BY <1>1, ClockAssumption DEF Repeated

\* The rows between two ordinary ones.
LEMMA PartOfOrdinary ==
  ASSUME NEW m \in 1 .. DayLen, NEW n \in 0 .. DayLen, m <= n + 1
  PROVE  LET s == SubSeq(Ordinary, m, n) IN
         /\ s \in Seq(Slots) /\ Len(s) = n - m + 1
         /\ \A i \in 1 .. n - m + 1 : s[i] = m + i - 2
<1> DEFINE s == SubSeq(Ordinary, m, n)
<1>1. m \in Int /\ n \in Int /\ \A i \in m .. n : i \in 1 .. DayLen /\ i - 1 \in Slots
  BY ClockAssumption, SMT DEF Slots
<1>2. \A i \in m .. n : Ordinary[i] \in Slots
  BY <1>1, OrdinaryIs
<1>3. /\ s \in Seq(Slots)
      /\ Len(s) = IF m <= n THEN n - m + 1 ELSE 0
      /\ \A i \in 1 .. n - m + 1 : s[i] = Ordinary[m + i - 1]
  BY <1>1, <1>2, SubSeqProperties
<1> HIDE DEF s
<1>4. Len(s) = n - m + 1
  BY <1>1, <1>3, SMT
<1>5. ASSUME NEW i \in 1 .. n - m + 1
      PROVE  s[i] = m + i - 2
  <2> DEFINE x == m + i - 1
  <2>1. x \in 1 .. DayLen /\ x - 1 = m + i - 2
    BY <1>1, ClockAssumption, SMT
  <2>2. s[i] = Ordinary[x]
    BY <1>3
  <2> HIDE DEF x
  <2> QED BY <2>1, <2>2, OrdinaryIs
<1> QED BY <1>3, <1>4, <1>5 DEF s

\* The label of row i of a style, and the number of its rows.
Rung(style, i) ==
  IF style = "block" THEN (IF i <= Change THEN i - 1 ELSE i - 1 - Shift)
  ELSE IF style = "pairs"
       THEN (IF i <= Change - Shift THEN i - 1
             ELSE IF i <= Change + Shift THEN Change - Shift + ((i - (Change - Shift) - 1) \div 2)
             ELSE i - 1 - Shift)
  ELSE IF style = "appended" THEN (IF i <= DayLen THEN i - 1 ELSE Change - Shift + (i - DayLen - 1))
  ELSE i - 1

Rungs(style) == IF style \in {"block", "pairs", "appended"} THEN DayLen + Shift ELSE DayLen

\* u is the ladder of a style.
Climbs(u, style) ==
  /\ u \in Seq(Slots) /\ Len(u) = Rungs(style)
  /\ \A i \in 1 .. Rungs(style) : u[i] = Rung(style, i)

LEMMA BlockLadder == Climbs(Ladder("block"), "block")
<1> DEFINE a == SubSeq(Ordinary, 1, Change)
           c == SubSeq(Ordinary, Change + 1, DayLen)
           u == a \o Repeated \o c
<1>1. 1 \in 1 .. DayLen /\ Change \in 0 .. DayLen /\ 1 <= Change + 1
      /\ Change + 1 \in 1 .. DayLen /\ DayLen \in 0 .. DayLen /\ Change + 1 <= DayLen + 1
      /\ Change \in Nat /\ Shift \in Nat /\ DayLen \in Nat
  BY ClockAssumption, SMT
<1>2. /\ a \in Seq(Slots) /\ Len(a) = Change - 1 + 1
      /\ \A i \in 1 .. Change - 1 + 1 : a[i] = 1 + i - 2
  BY <1>1, PartOfOrdinary
<1>3. /\ c \in Seq(Slots) /\ Len(c) = DayLen - (Change + 1) + 1
      /\ \A i \in 1 .. DayLen - (Change + 1) + 1 : c[i] = (Change + 1) + i - 2
  BY <1>1, PartOfOrdinary
<1>4. Ladder("block") = u
  BY DEF Ladder
<1> HIDE DEF a, c
<1>5. Len(a) = Change /\ Len(c) = DayLen - Change /\ Rungs("block") = DayLen + Shift
  BY <1>1, <1>2, <1>3, SMT DEF Rungs
<1>6. /\ u \in Seq(Slots) /\ Len(u) = Len(a) + Len(Repeated) + Len(c)
      /\ \A i \in 1 .. Len(a) + Len(Repeated) + Len(c) :
           u[i] = IF i <= Len(a) THEN a[i]
                  ELSE IF i <= Len(a) + Len(Repeated) THEN Repeated[i - Len(a)]
                  ELSE c[i - (Len(a) + Len(Repeated))]
  <2>1. a \in Seq(Slots) /\ c \in Seq(Slots) /\ Repeated \in Seq(Slots)
    BY <1>2, <1>3, RepeatedIs
  <2>2. Joined3(u, a, Repeated, c, Slots)
    BY <2>1, Join3
  <2> HIDE DEF u
  <2> QED BY <2>2 DEF Joined3
<1> HIDE DEF u
<1>7. Len(a) + Len(Repeated) + Len(c) = DayLen + Shift /\ Len(a) + Len(Repeated) = Change + Shift
  BY <1>1, <1>5, RepeatedIs, SMT
<1>8. ASSUME NEW i \in 1 .. DayLen + Shift
      PROVE  u[i] = Rung("block", i)
  <2>0. u[i] = IF i <= Change THEN a[i]
               ELSE IF i <= Change + Shift THEN Repeated[i - Change]
               ELSE c[i - (Change + Shift)]
    BY <1>5, <1>6, <1>7
  <2>1. CASE i <= Change
    <3>1. i \in 1 .. Change - 1 + 1 /\ 1 + i - 2 = i - 1
      BY <1>1, <2>1, SMT
    <3> QED BY <1>2, <2>0, <2>1, <3>1 DEF Rung
  <2>2. CASE ~(i <= Change) /\ i <= Change + Shift
    <3> DEFINE x == i - Change
    <3>1. x \in 1 .. Shift /\ Change - Shift + x - 1 = i - 1 - Shift
      BY <1>1, <2>2, SMT
    <3>2. u[i] = Repeated[x]
      BY <2>0, <2>2
    <3> HIDE DEF x
    <3>3. u[i] = Change - Shift + x - 1
      BY <3>1, <3>2, RepeatedIs
    <3> QED BY <2>2, <3>1, <3>3 DEF Rung
  <2>3. CASE ~(i <= Change) /\ ~(i <= Change + Shift)
    <3> DEFINE x == i - (Change + Shift)
    <3>1. x \in 1 .. DayLen - (Change + 1) + 1 /\ (Change + 1) + x - 2 = i - 1 - Shift
      BY <1>1, <2>3, SMT
    <3>2. u[i] = c[x]
      BY <2>0, <2>3
    <3> HIDE DEF x
    <3>3. u[i] = (Change + 1) + x - 2
      BY <1>3, <3>1, <3>2
    <3> QED BY <2>3, <3>1, <3>3 DEF Rung
  <2> QED BY <2>1, <2>2, <2>3
<1> QED BY <1>4, <1>5, <1>6, <1>7, <1>8 DEF Climbs

LEMMA PairsLadder == Climbs(Ladder("pairs"), "pairs")
<1> DEFINE q == [i \in 1 .. Shift |-> <<Repeated[i], Repeated[i]>>]
           a == SubSeq(Ordinary, 1, Change - Shift)
           b == FlattenSeq(q)
           c == SubSeq(Ordinary, Change + 1, DayLen)
           u == a \o b \o c
<1>1. 1 \in 1 .. DayLen /\ Change - Shift \in 0 .. DayLen /\ 1 <= Change - Shift + 1
      /\ Change + 1 \in 1 .. DayLen /\ DayLen \in 0 .. DayLen /\ Change + 1 <= DayLen + 1
      /\ Change \in Nat /\ Shift \in Nat \ {0} /\ DayLen \in Nat
  BY ClockAssumption, SMT
<1>2. /\ a \in Seq(Slots) /\ Len(a) = Change - Shift - 1 + 1
      /\ \A i \in 1 .. Change - Shift - 1 + 1 : a[i] = 1 + i - 2
  BY <1>1, PartOfOrdinary
<1>3. /\ c \in Seq(Slots) /\ Len(c) = DayLen - (Change + 1) + 1
      /\ \A i \in 1 .. DayLen - (Change + 1) + 1 : c[i] = (Change + 1) + i - 2
  BY <1>1, PartOfOrdinary
<1>4. Ladder("pairs") = u
  BY DEF Ladder
<1> HIDE DEF a, c
<1>5. Parts(q, Shift, 2, Slots)
  <2>1. \A i \in 1 .. Shift : Repeated[i] \in Slots
    BY RepeatedIs, LenProperties
  <2>2. \A i \in 1 .. Shift : /\ <<Repeated[i], Repeated[i]>> \in Seq(Slots)
                              /\ Len(<<Repeated[i], Repeated[i]>>) = 2
    BY <2>1
  <2>3. q \in Seq(Seq(Slots)) /\ Len(q) = Shift
    BY <1>1, <2>2
  <2> QED BY <1>1, <2>2, <2>3 DEF Parts
<1>6. Flat(b, q, Shift, 2, Slots)
  <2> HIDE DEF q
  <2> QED BY <1>5, FlattenIs
<1>7. \A k \in 1 .. Shift, j \in 1 .. 2 : q[k][j] = Change - Shift + k - 1
  <2>1. \A j \in 1 .. 2 : j = 1 \/ j = 2
    BY SMT
  <2> QED BY <2>1, RepeatedIs
<1> HIDE DEF b, q
<1>8. b \in Seq(Slots) /\ Len(b) = Shift * 2
      /\ \A k \in 1 .. Shift, j \in 1 .. 2 : b[(k - 1) * 2 + j] = Change - Shift + k - 1
  BY <1>6, <1>7 DEF Flat
<1>9. \A x \in 1 .. Shift * 2 : b[x] = Change - Shift + ((x - 1) \div 2)
  <2> SUFFICES ASSUME NEW x \in 1 .. Shift * 2
               PROVE  b[x] = Change - Shift + ((x - 1) \div 2)
    OBVIOUS
  <2>0. Shift \in Nat /\ 2 \in Nat
    BY <1>1
  <2>1. PICK k \in 1 .. Shift, j \in 1 .. 2 : x = (k - 1) * 2 + j
    BY <2>0, Split
  <2>2. k - 1 = (x - 1) \div 2
    BY <2>1, SMT
  <2> QED BY <1>1, <1>8, <2>1, <2>2
<1>10. Len(a) = Change - Shift /\ Len(c) = DayLen - Change /\ Rungs("pairs") = DayLen + Shift
  BY <1>1, <1>2, <1>3, SMT DEF Rungs
<1>11. /\ u \in Seq(Slots) /\ Len(u) = Len(a) + Len(b) + Len(c)
       /\ \A i \in 1 .. Len(a) + Len(b) + Len(c) :
            u[i] = IF i <= Len(a) THEN a[i]
                   ELSE IF i <= Len(a) + Len(b) THEN b[i - Len(a)]
                   ELSE c[i - (Len(a) + Len(b))]
  <2>1. a \in Seq(Slots) /\ b \in Seq(Slots) /\ c \in Seq(Slots)
    BY <1>2, <1>3, <1>8
  <2>2. Joined3(u, a, b, c, Slots)
    BY <2>1, Join3
  <2> HIDE DEF u
  <2> QED BY <2>2 DEF Joined3
<1> HIDE DEF u
<1>12. Len(a) + Len(b) + Len(c) = DayLen + Shift /\ Len(a) + Len(b) = Change + Shift
  BY <1>1, <1>8, <1>10, SMT
<1>13. ASSUME NEW i \in 1 .. DayLen + Shift
       PROVE  u[i] = Rung("pairs", i)
  <2>0. u[i] = IF i <= Change - Shift THEN a[i]
               ELSE IF i <= Change + Shift THEN b[i - (Change - Shift)]
               ELSE c[i - (Change + Shift)]
    BY <1>10, <1>11, <1>12
  <2>1. CASE i <= Change - Shift
    <3>1. i \in 1 .. Change - Shift - 1 + 1 /\ 1 + i - 2 = i - 1
      BY <1>1, <2>1, SMT
    <3> QED BY <1>2, <2>0, <2>1, <3>1 DEF Rung
  <2>2. CASE ~(i <= Change - Shift) /\ i <= Change + Shift
    <3> DEFINE x == i - (Change - Shift)
    <3>1. x \in 1 .. Shift * 2
      BY <1>1, <2>2, SMT
    <3>2. u[i] = b[x]
      BY <2>0, <2>2
    <3>3. u[i] = Change - Shift + ((x - 1) \div 2)
      <4> HIDE DEF x
      <4> QED BY <1>9, <3>1, <3>2
    <3> QED BY <2>2, <3>3 DEF Rung
  <2>3. CASE ~(i <= Change - Shift) /\ ~(i <= Change + Shift)
    <3> DEFINE x == i - (Change + Shift)
    <3>1. x \in 1 .. DayLen - (Change + 1) + 1 /\ (Change + 1) + x - 2 = i - 1 - Shift
      BY <1>1, <2>3, SMT
    <3>2. u[i] = c[x]
      BY <2>0, <2>3
    <3> HIDE DEF x
    <3>3. u[i] = (Change + 1) + x - 2
      BY <1>3, <3>1, <3>2
    <3> QED BY <2>3, <3>1, <3>3 DEF Rung
  <2> QED BY <2>1, <2>2, <2>3
<1> QED BY <1>4, <1>10, <1>11, <1>12, <1>13 DEF Climbs

LEMMA AppendedLadder == Climbs(Ladder("appended"), "appended")
<1> DEFINE u == Ordinary \o Repeated
<1>1. Ladder("appended") = u
  BY DEF Ladder
<1>2. /\ u \in Seq(Slots) /\ Len(u) = Len(Ordinary) + Len(Repeated)
      /\ \A i \in 1 .. Len(Ordinary) + Len(Repeated) :
           u[i] = IF i <= Len(Ordinary) THEN Ordinary[i] ELSE Repeated[i - Len(Ordinary)]
  BY OrdinaryIs, RepeatedIs, ConcatProperties
<1>3. Rungs("appended") = DayLen + Shift /\ DayLen \in Nat /\ Shift \in Nat /\ Change \in Nat
  BY ClockAssumption DEF Rungs
<1> HIDE DEF u
<1>4. ASSUME NEW i \in 1 .. DayLen + Shift
      PROVE  u[i] = Rung("appended", i)
  <2>1. u[i] = IF i <= DayLen THEN Ordinary[i] ELSE Repeated[i - DayLen]
    BY <1>2, OrdinaryIs, RepeatedIs
  <2>2. CASE i <= DayLen
    <3>1. i \in 1 .. DayLen
      BY <1>3, <2>2, SMT
    <3> QED BY <2>1, <2>2, <3>1, OrdinaryIs DEF Rung
  <2>3. CASE ~(i <= DayLen)
    <3> DEFINE x == i - DayLen
    <3>1. x \in 1 .. Shift /\ Change - Shift + x - 1 = Change - Shift + (i - DayLen - 1)
      BY <1>3, <2>3, SMT
    <3>2. u[i] = Repeated[x]
      BY <2>1, <2>3
    <3> HIDE DEF x
    <3>3. u[i] = Change - Shift + x - 1
      BY <3>1, <3>2, RepeatedIs
    <3> QED BY <2>3, <3>1, <3>3 DEF Rung
  <2> QED BY <2>2, <2>3
<1> QED BY <1>1, <1>2, <1>3, <1>4, OrdinaryIs, RepeatedIs DEF Climbs

LEMMA LadderIs == ASSUME NEW style PROVE Climbs(Ladder(style), style)
<1>1. CASE style \in {"block", "pairs", "appended"}
  BY <1>1, BlockLadder, PairsLadder, AppendedLadder
<1>2. CASE style \notin {"block", "pairs", "appended"}
  <2>1. Ladder(style) = Ordinary
    BY <1>2, Zenon DEF Ladder
  <2>2. Rungs(style) = DayLen /\ \A i \in 1 .. DayLen : Rung(style, i) = i - 1
    BY <1>2 DEF Rungs, Rung
  <2> QED BY <2>1, <2>2, OrdinaryIs DEF Climbs
<1> QED BY <1>1, <1>2

-----------------------------------------------------------------------------
(* The days on a page *)

LEMMA ShownDays ==
  ASSUME NEW t \in Int
  PROVE  /\ DOMAIN Shown(t) = 1 .. Width /\ Width \in Nat \ {0}
         /\ \A i \in 1 .. Width : /\ Shown(t)[i] = Newest(t) - i + 1
                                  /\ Shown(t)[i] \in Oldest(t) .. Newest(t) /\ Shown(t)[i] \in Int
         /\ \A d \in Oldest(t) .. Newest(t) :
              /\ d \in Int /\ Newest(t) - d + 1 \in 1 .. Width
              /\ Shown(t)[Newest(t) - d + 1] = d
         /\ ToSet(Shown(t)) = Oldest(t) .. Newest(t)
         /\ Oldest(t) \in Int /\ Newest(t) \in Int
<1>1. /\ Width \in Nat \ {0} /\ Newest(t) \in Int /\ Oldest(t) \in Int
      /\ Oldest(t) = Newest(t) - Width + 1
  BY PortalAssumption, SMT DEF Newest, Oldest
<1>2. DOMAIN Shown(t) = 1 .. Width /\ \A i \in 1 .. Width : Shown(t)[i] = Newest(t) - i + 1
  BY DEF Shown
<1>3. \A i \in 1 .. Width : Newest(t) - i + 1 \in Oldest(t) .. Newest(t) /\ Newest(t) - i + 1 \in Int
  BY <1>1, SMT
<1>4. ASSUME NEW d \in Oldest(t) .. Newest(t)
      PROVE  /\ d \in Int /\ Newest(t) - d + 1 \in 1 .. Width
             /\ Shown(t)[Newest(t) - d + 1] = d
  <2> DEFINE x == Newest(t) - d + 1
  <2>1. d \in Int /\ x \in 1 .. Width /\ Newest(t) - x + 1 = d
    BY <1>1, SMT
  <2> HIDE DEF x
  <2>2. Shown(t)[x] = d
    BY <1>2, <2>1
  <2> QED BY <2>1, <2>2 DEF x
<1>5. ToSet(Shown(t)) = Oldest(t) .. Newest(t)
  <2>1. \A d \in ToSet(Shown(t)) : d \in Oldest(t) .. Newest(t)
    BY <1>2, <1>3 DEF ToSet
  <2>2. \A d \in Oldest(t) .. Newest(t) : d \in ToSet(Shown(t))
    <3> SUFFICES ASSUME NEW d \in Oldest(t) .. Newest(t)  PROVE d \in ToSet(Shown(t))
      OBVIOUS
    <3> DEFINE x == Newest(t) - d + 1
    <3>1. x \in DOMAIN Shown(t) /\ Shown(t)[x] = d
      BY <1>2, <1>4
    <3> HIDE DEF x
    <3> QED BY <3>1 DEF ToSet
  <2> QED BY <2>1, <2>2
<1> QED BY <1>1, <1>2, <1>3, <1>4, <1>5

\* The date may turn while a page is fetched; its days stay in the window.
LEMMA DaysAround ==
  ASSUME NEW t \in FirstDay .. LastDay, NEW late \in {0, 1}
  PROVE  t \in Int /\ Around(Oldest(t) .. Newest(t), t + late)
<1>1. t \in Int /\ t + late \in Int /\ FirstDay \in Int /\ LastDay \in Int
  BY GridAssumption, SMT
<1>2. \A e \in Window(t + late) : e \in FirstDay - BackDays .. LastDay + 1 + ForwardDays
  BY <1>1, CalendarAssumption, SMT DEF Window
<1>3. Oldest(t) .. Newest(t) \subseteq Window(t + late)
  BY <1>1, PortalAssumption, CalendarAssumption, SMT DEF Window, Oldest, Newest
<1> QED BY <1>1, <1>2, <1>3, GridAssumption DEF Around

LEMMA LabelType ==
  ASSUME NEW D, NEW reference, Around(D, reference), NEW d \in D
  PROVE  Label(d) \in Int /\ Label(d) # NULL /\ Weekday(d) \in Int
<1>1. d \in Int /\ Known(d)
  BY AroundType DEF Around
<1>2. Label(d) \in 1 .. Labels
  BY <1>1, DateOfLabel DEF HasDate
<1> QED BY <1>1, <1>2, CalendarAssumption, PortalAssumption, SMT DEF Weekday

-----------------------------------------------------------------------------
(* A clean page *)

LEMMA CarriesType == \A header : Carries(header) \in Registers \cup {"other"}
BY Zenon DEF Carries, Registers

LEMMA ShownAtType ==
  ASSUME NEW style, NEW d \in Int, NEW i \in 1 .. Rungs(style)
  PROVE  ShownAt(style, d, i) \in Int \cup {NULL}
<1>1. Ladder(style)[i] \in Slots /\ Ladder(style)[i] \in Int /\ i \in Int
  BY LadderIs, LenProperties, ClockAssumption, SMT DEF Climbs, Slots
<1>2. \A pass : localize(d, Ladder(style)[i], pass) \in Int
  BY <1>1, SlotOfDay, InstantNear DEF localize
<1>3. local_midnight_utc(d) + i - 1 \in Int
  BY <1>1, DayIsInterval, SMT
<1> QED BY <1>2, <1>3 DEF ShownAt

LEMMA GroupType ==
  ASSUME NEW metrics, Len(metrics) \in Nat, NEW at \in Int \cup {NULL}
  PROVE  /\ Group(metrics, at) \in Seq(Cells) /\ Len(Group(metrics, at)) = Len(metrics)
         /\ \A j \in 1 .. Len(metrics) :
              Group(metrics, at)[j] = IF at = NULL THEN NULL
                                      ELSE [at |-> at, of |-> Carries(metrics[j])]
<1> DEFINE cell(j) == IF at = NULL THEN NULL ELSE [at |-> at, of |-> Carries(metrics[j])]
<1>1. \A j \in 1 .. Len(metrics) : cell(j) \in Cells
  BY CarriesType DEF Cells, Usage
<1>2. Group(metrics, at) = [j \in 1 .. Len(metrics) |-> cell(j)]
  BY DEF Group
<1> HIDE DEF cell
<1>3. Group(metrics, at) \in Seq(Cells) /\ Len(Group(metrics, at)) = Len(metrics)
      /\ \A j \in 1 .. Len(metrics) : Group(metrics, at)[j] = cell(j)
  BY <1>1, <1>2
<1> QED BY <1>3 DEF cell

\* Position j of the k-th group of w.
Place(k, w, j) == (k - 1) * w + j

LEMMA LayoutFacts ==
  ASSUME NEW metrics \in Layouts
  PROVE  /\ metrics \in Seq(Texts) /\ Len(metrics) \in Nat \ {0}
         /\ \A j \in 1 .. Len(metrics) : canonical_metric(metrics[j]) # "unknown"
         /\ \A i, j \in 1 .. Len(metrics) :
              canonical_metric(metrics[i]) = canonical_metric(metrics[j]) => i = j
         /\ \E j \in 1 .. Len(metrics) : canonical_metric(metrics[j]) \in {"kwh", "kwh_delivered"}
<1>1. metrics \in Seq(STRING)
  BY LayoutAssumption
<1>2. metrics \in Seq(Texts) /\ Len(metrics) \in Nat
  BY <1>1, SeqMonotonic, LenProperties DEF Texts
<1>3. \E j \in 1 .. Len(metrics) : canonical_metric(metrics[j]) \in {"kwh", "kwh_delivered"}
  BY LayoutAssumption
<1>4. Len(metrics) # 0
  BY <1>2, <1>3, SMT
<1> QED BY <1>2, <1>3, <1>4, LayoutAssumption

\* page is a clean one: its columns, its headers and its rows.
CleanColumns(page, t) ==
  /\ Len(page.columns) = Width
  /\ \A k \in 1 .. Width : /\ page.columns[k].label = Label(Shown(t)[k])
                           /\ page.columns[k].weekday = Weekday(Shown(t)[k])

CleanHeaders(page, metrics) ==
  /\ Len(page.headers) = Width * Len(metrics)
  /\ \A k \in 1 .. Width, j \in 1 .. Len(metrics) :
       /\ Place(k, Len(metrics), j) \in 1 .. Width * Len(metrics)
       /\ page.headers[Place(k, Len(metrics), j)] = metrics[j]

CleanRow(row, t, style, metrics, i) ==
  /\ row \in DataRow
  /\ row.label = Rung(style, i)
  /\ Len(row.cells) = Width * Len(metrics)
  /\ \A k \in 1 .. Width, j \in 1 .. Len(metrics) :
       /\ Place(k, Len(metrics), j) \in 1 .. Width * Len(metrics)
       /\ row.cells[Place(k, Len(metrics), j)] = Group(metrics, ShownAt(style, Shown(t)[k], i))[j]

CleanBody(page, t, style, metrics) ==
  /\ Len(page.body) = Rungs(style) + 1
  /\ \A i \in 1 .. Rungs(style) : CleanRow(page.body[i], t, style, metrics, i)
  /\ page.body[Rungs(style) + 1].label = Summary /\ page.body[Rungs(style) + 1].cells = <<>>

LEMMA RowIsClean ==
  ASSUME NEW t \in Int, NEW style, NEW metrics \in Layouts, NEW i \in 1 .. Rungs(style)
  PROVE  CleanRow([label |-> Ladder(style)[i],
                   cells |-> FlattenSeq([k \in 1 .. Width |->
                               Group(metrics, ShownAt(style, Shown(t)[k], i))])],
                  t, style, metrics, i)
<1> DEFINE at(k) == ShownAt(style, Shown(t)[k], i)
           q == [k \in 1 .. Width |-> Group(metrics, at(k))]
           cells == FlattenSeq(q)
           w == Len(metrics)
<1>1. Width \in Nat \ {0} /\ w \in Nat
  BY ShownDays, LayoutFacts
<1>2. \A k \in 1 .. Width : at(k) \in Int \cup {NULL}
  BY ShownDays, ShownAtType
<1> HIDE DEF at
<1>3. \A k \in 1 .. Width : Group(metrics, at(k)) \in Seq(Cells) /\ Len(Group(metrics, at(k))) = w
  BY <1>1, <1>2, GroupType
<1>4. Parts(q, Width, w, Cells) /\ \A k \in 1 .. Width : q[k] = Group(metrics, at(k))
  <2>1. q \in Seq(Seq(Cells)) /\ Len(q) = Width
    BY <1>1, <1>3
  <2> QED BY <1>1, <1>3, <2>1 DEF Parts
<1>5. Flat(cells, q, Width, w, Cells)
  <2> HIDE DEF q
  <2> QED BY <1>4, FlattenIs
<1> HIDE DEF q, cells, w
<1>6. /\ cells \in Seq(Cells) /\ Len(cells) = Width * w
      /\ \A k \in 1 .. Width, j \in 1 .. w :
           /\ Place(k, w, j) \in 1 .. Width * w
           /\ cells[Place(k, w, j)] = Group(metrics, at(k))[j]
  BY <1>4, <1>5 DEF Flat, Place
<1>7. Ladder(style)[i] = Rung(style, i) /\ Ladder(style)[i] \in Slots
  BY LadderIs, LenProperties DEF Climbs
<1> DEFINE row == [label |-> Ladder(style)[i], cells |-> cells]
<1>8. row \in DataRow /\ row.label = Rung(style, i) /\ row.cells = cells
  BY <1>6, <1>7 DEF DataRow, Slots
<1> HIDE DEF row
<1>9. CleanRow(row, t, style, metrics, i)
  BY <1>6, <1>8 DEF CleanRow, at, w
<1> QED BY <1>9 DEF row, cells, q, at

Clean(page, t, style, metrics) ==
  /\ Names(page, Oldest(t) .. Newest(t)) /\ page.above = 3
  /\ CleanColumns(page, t) /\ CleanHeaders(page, metrics) /\ CleanBody(page, t, style, metrics)

LEMMA DataRowIsRow == DataRow \subseteq Rows
BY DEF DataRow, Rows

LEMMA RungsType == ASSUME NEW style PROVE Rungs(style) \in Nat /\ DayLen <= Rungs(style)
BY ClockAssumption, SMT DEF Rungs

LEMMA CleanPageIs ==
  ASSUME NEW t \in FirstDay .. LastDay, NEW style, NEW metrics \in Layouts
  PROVE  Clean(CleanPage(t, style, metrics), t, style, metrics)
<1> DEFINE page == CleanPage(t, style, metrics)
           w == Len(metrics)
           n == Rungs(style)
           columns == [i \in 1 .. Width |-> [label |-> Label(Shown(t)[i]), weekday |-> Weekday(Shown(t)[i])]]
           q == [i \in 1 .. Width |-> metrics]
           headers == FlattenSeq(q)
           row(i) == [label |-> Ladder(style)[i],
                      cells |-> FlattenSeq([k \in 1 .. Width |->
                                  Group(metrics, ShownAt(style, Shown(t)[k], i))])]
           upper == [i \in 1 .. n |-> row(i)]
           lower == <<[label |-> Summary, cells |-> <<>>]>>
           body == upper \o lower
<1>1. /\ t \in Int /\ Width \in Nat \ {0} /\ w \in Nat \ {0} /\ n \in Nat
      /\ metrics \in Seq(Texts)
      /\ \A i \in 1 .. Width : Shown(t)[i] \in Oldest(t) .. Newest(t)
  BY DaysAround, ShownDays, LayoutFacts, RungsType
<1>2. \A d \in Oldest(t) .. Newest(t) : Label(d) \in Int /\ Weekday(d) \in Int
  <2>1. Around(Oldest(t) .. Newest(t), t + 0)
    BY DaysAround
  <2> QED BY <2>1, LabelType
<1>3. Len(Ladder(style)) = n
  BY LadderIs DEF Climbs
<1>4. page = [above |-> 3, columns |-> columns, headers |-> headers, body |-> body]
  BY <1>3 DEF CleanPage
<1>5. page.above = 3 /\ page.columns = columns /\ page.headers = headers /\ page.body = body
  <2> HIDE DEF page, columns, headers, body
  <2> QED BY <1>4
<1>6. columns \in Seq(Columns) /\ Len(columns) = Width
      /\ \A i \in 1 .. Width : /\ columns[i].label = Label(Shown(t)[i])
                               /\ columns[i].weekday = Weekday(Shown(t)[i])
  <2>1. \A i \in 1 .. Width :
          [label |-> Label(Shown(t)[i]), weekday |-> Weekday(Shown(t)[i])] \in Columns
    BY <1>1, <1>2 DEF Columns
  <2> QED BY <1>1, <2>1
<1>7. /\ headers \in Seq(Texts) /\ Len(headers) = Width * w
      /\ \A k \in 1 .. Width, j \in 1 .. w :
           /\ Place(k, w, j) \in 1 .. Width * w
           /\ headers[Place(k, w, j)] = metrics[j]
  <2>1. Parts(q, Width, w, Texts) /\ \A k \in 1 .. Width : q[k] = metrics
    <3>1. q \in Seq(Seq(Texts)) /\ Len(q) = Width
      BY <1>1
    <3> QED BY <1>1, <3>1 DEF Parts
  <2>2. Flat(headers, q, Width, w, Texts)
    <3> HIDE DEF q
    <3> QED BY <2>1, FlattenIs
  <2> HIDE DEF q, headers, w
  <2> QED BY <2>1, <2>2 DEF Flat, Place
<1>8. \A i \in 1 .. n : CleanRow(row(i), t, style, metrics, i)
  BY <1>1, RowIsClean
<1> HIDE DEF row, columns, headers, page
<1>9. /\ body \in Seq(Rows) /\ Len(body) = n + 1
      /\ \A i \in 1 .. n : body[i] = row(i)
      /\ body[n + 1].label = Summary /\ body[n + 1].cells = <<>>
  <2>1. \A i \in 1 .. n : row(i) \in Rows
    BY <1>8, DataRowIsRow DEF CleanRow
  <2>2. upper \in Seq(Rows) /\ Len(upper) = n /\ \A i \in 1 .. n : upper[i] = row(i)
    BY <1>1, <2>1
  <2>3. [label |-> Summary, cells |-> <<>>] \in Rows
    BY EmptySeq DEF Rows
  <2>4. lower \in Seq(Rows) /\ Len(lower) = 1 /\ lower[1].label = Summary /\ lower[1].cells = <<>>
    BY <2>3
  <2> HIDE DEF upper, lower
  <2>5. Joined(body, upper, lower, Rows)
    BY <2>2, <2>4, Join
  <2> HIDE DEF body
  <2>6. body \in Seq(Rows) /\ Len(body) = n + 1
    BY <2>2, <2>4, <2>5 DEF Joined
  <2>7. \A i \in 1 .. n + 1 : body[i] = IF i <= n THEN upper[i] ELSE lower[i - n]
    BY <2>2, <2>4, <2>5 DEF Joined
  <2>8. \A i \in 1 .. n : i \in 1 .. n + 1 /\ i <= n
    BY <1>1, SMT
  <2>9. n + 1 \in 1 .. n + 1 /\ ~(n + 1 <= n) /\ (n + 1) - n = 1
    BY <1>1, SMT
  <2>10. body[n + 1] = lower[1]
    BY <2>7, <2>9
  <2> QED BY <2>2, <2>4, <2>6, <2>7, <2>8, <2>10
<1> HIDE DEF body
<1>10. page \in Pages
  BY <1>4, <1>6, <1>7, <1>9 DEF Pages
<1>11. Names(page, Oldest(t) .. Newest(t))
  BY <1>1, <1>5, <1>6, <1>10 DEF Names
<1>12. CleanBody(page, t, style, metrics)
  BY <1>5, <1>8, <1>9 DEF CleanBody
<1>13. CleanColumns(page, t) /\ CleanHeaders(page, metrics)
  BY <1>5, <1>6, <1>7 DEF CleanColumns, CleanHeaders
<1> QED BY <1>5, <1>11, <1>12, <1>13 DEF Clean, page

-----------------------------------------------------------------------------
(* A disturbed page *)

\* A page with another part.
LEMMA PageWith ==
  ASSUME NEW page \in Pages
  PROVE  /\ \A x : LET odd == [page EXCEPT !.above = x] IN
              /\ x \in Int => odd \in Pages
              /\ odd.above = x /\ odd.columns = page.columns
              /\ odd.headers = page.headers /\ odd.body = page.body
         /\ \A x : LET odd == [page EXCEPT !.columns = x] IN
              /\ x \in Seq(Columns) => odd \in Pages
              /\ odd.above = page.above /\ odd.columns = x
              /\ odd.headers = page.headers /\ odd.body = page.body
         /\ \A x : LET odd == [page EXCEPT !.headers = x] IN
              /\ x \in Seq(Texts) => odd \in Pages
              /\ odd.above = page.above /\ odd.columns = page.columns
              /\ odd.headers = x /\ odd.body = page.body
         /\ \A x : LET odd == [page EXCEPT !.body = x] IN
              /\ x \in Seq(Rows) => odd \in Pages
              /\ odd.above = page.above /\ odd.columns = page.columns
              /\ odd.headers = page.headers /\ odd.body = x
<1>1. \A x : LET odd == [page EXCEPT !.above = x] IN
        /\ x \in Int => odd \in Pages
        /\ odd.above = x /\ odd.columns = page.columns
        /\ odd.headers = page.headers /\ odd.body = page.body
  BY DEF Pages
<1>2. \A x : LET odd == [page EXCEPT !.columns = x] IN
        /\ x \in Seq(Columns) => odd \in Pages
        /\ odd.above = page.above /\ odd.columns = x
        /\ odd.headers = page.headers /\ odd.body = page.body
  BY DEF Pages
<1>3. \A x : LET odd == [page EXCEPT !.headers = x] IN
        /\ x \in Seq(Texts) => odd \in Pages
        /\ odd.above = page.above /\ odd.columns = page.columns
        /\ odd.headers = x /\ odd.body = page.body
  BY DEF Pages
<1>4. \A x : LET odd == [page EXCEPT !.body = x] IN
        /\ x \in Seq(Rows) => odd \in Pages
        /\ odd.above = page.above /\ odd.columns = page.columns
        /\ odd.headers = page.headers /\ odd.body = x
  BY DEF Pages
<1> QED BY <1>1, <1>2, <1>3, <1>4

\* The rows above the "Total" row are the data rows.
LEMMA TopRows ==
  ASSUME NEW page \in Pages, NEW n \in Nat, Len(page.body) = n + 1,
         \A i \in 1 .. n : page.body[i].label # Summary, page.body[n + 1].label = Summary
  PROVE  DataRows(page) = [i \in 1 .. n |-> page.body[i]]
<1> DEFINE T == {row \in ToSet(page.body) : row.label # Summary}
<1>1. page.body \in Seq(Rows) /\ DOMAIN page.body = 1 .. n + 1
  BY LenProperties DEF Pages
<1>2. n \in 0 .. Len(page.body)
  BY SMT
<1>3. \A i \in 1 .. Len(page.body) : page.body[i] \in T <=> i <= n
  <2> SUFFICES ASSUME NEW i \in 1 .. n + 1  PROVE page.body[i] \in T <=> i <= n
    OBVIOUS
  <2>1. page.body[i] \in ToSet(page.body)
    BY <1>1 DEF ToSet
  <2>2. i <= n => i \in 1 .. n
    BY SMT
  <2>3. ~(i <= n) => i = n + 1
    BY SMT
  <2> QED BY <2>1, <2>2, <2>3
<1> HIDE DEF T
<1>4. Kept(page.body, T) = [i \in 1 .. n |-> page.body[i]]
  BY <1>1, <1>2, <1>3, KeptPrefix
<1> QED BY <1>4 DEF DataRows, T

CellsOf(row, t, style, metrics, i, k) ==
  \A j \in 1 .. Len(metrics) :
    row.cells[Place(k, Len(metrics), j)] = Group(metrics, ShownAt(style, Shown(t)[k], i))[j]

NoCells(row, metrics, k) ==
  \A j \in 1 .. Len(metrics) : row.cells[Place(k, Len(metrics), j)] = NULL

\* The rows of a clean page, the first one empty or one column.
Emptied(b, t, style, metrics) ==
  /\ Len(b) = Rungs(style)
  /\ \A i \in 1 .. Rungs(style) :
       /\ b[i].label = Rung(style, i) /\ Len(b[i].cells) = Width * Len(metrics)
       /\ \A k \in 1 .. Width :
            CellsOf(b[i], t, style, metrics, i, k) \/ NoCells(b[i], metrics, k)
  /\ \A k \in 1 .. Width :
       \/ \A i \in 2 .. Rungs(style) : CellsOf(b[i], t, style, metrics, i, k)
       \/ \A i \in 1 .. Rungs(style) : NoCells(b[i], metrics, k)

\* Rows that are left out have no cells.
Bare(page) ==
  \A i \in 1 .. Len(page.body) : page.body[i].label = Summary => page.body[i].cells = <<>>

\* The rows of a clean page, the labels of x and the row below it swapped.
Traded(x, i) == IF i = x THEN x + 1 ELSE IF i = x + 1 THEN x ELSE i

Swapped(b, t, style, metrics, x) ==
  /\ x \in OddRows /\ Len(b) = Rungs(style)
  /\ \A i \in 1 .. Rungs(style) :
       /\ b[i].label = Rung(style, Traded(x, i)) /\ Len(b[i].cells) = Width * Len(metrics)
       /\ \A k \in 1 .. Width : CellsOf(b[i], t, style, metrics, i, k)

\* The row below x is x once more.
Twice(b, t, style, metrics, x) ==
  /\ x \in OddRows /\ Len(b) = Rungs(style) + 1
  /\ b[x].label = Rung(style, x) /\ b[x + 1].label = Rung(style, x)
  /\ \A k \in 1 .. Width : CellsOf(b[x + 1], t, style, metrics, x, k)

OddBody(b, t, style, metrics) ==
  \/ Emptied(b, t, style, metrics)
  \/ Len(b) = Rungs(style) - 1
  \/ \E x : Twice(b, t, style, metrics, x)
  \/ Len(b) = Rungs(style) /\ Len(b[1].cells) < Width * Len(metrics)
  \/ \E x : Swapped(b, t, style, metrics, x)

WrongWeekday(page, t) ==
  /\ page.above = 3 /\ Len(page.columns) = Width
  /\ \A k \in 1 .. Width : page.columns[k].label = Label(Shown(t)[k])
  /\ \E i \in 1 .. Width : page.columns[i].weekday = (Weekday(Shown(t)[i]) + 1) % 7

Undated(page, t) ==
  /\ Len(page.columns) = Width
  /\ \E i \in 1 .. Width :
       /\ page.columns[i].label = NULL
       /\ \A k \in (1 .. Width) \ {i} : page.columns[k].label = Label(Shown(t)[k])

Unheard(page, metrics) ==
  /\ Len(page.headers) = Width * Len(metrics)
  /\ \E i \in 1 .. Len(metrics) : page.headers[i] = "$ Cost"

Rearranged(page, metrics) ==
  LET w == Len(metrics)
  IN  /\ Len(page.headers) = Width * w
      /\ \A k \in 1 .. Width, j \in 1 .. w :
           page.headers[Place(k, w, j)] =
             IF k # 1 THEN metrics[j]
             ELSE IF j = 1 THEN metrics[w] ELSE IF j = w THEN metrics[1] ELSE metrics[j]

\* The ways in which a page differs from a clean one.
OddForm(page, t, style, metrics) ==
  \/ /\ CleanColumns(page, t) /\ CleanHeaders(page, metrics)
     /\ OddBody(DataRows(page), t, style, metrics)
     /\ Len(DataRows(page)) = Rungs(style) => Bare(page)
  \/ /\ WrongWeekday(page, t)
  \/ /\ Undated(page, t) /\ CleanHeaders(page, metrics)
  \/ /\ CleanColumns(page, t) /\ Unheard(page, metrics)
  \/ /\ CleanColumns(page, t) /\ Rearranged(page, metrics)
     /\ Emptied(DataRows(page), t, style, metrics) /\ Bare(page)

Odd(page, t, style, metrics) ==
  Names(page, Oldest(t) .. Newest(t)) /\ OddForm(page, t, style, metrics)

LEMMA CleanIsEmptied ==
  ASSUME NEW page \in Pages, NEW t, NEW style, NEW metrics, CleanBody(page, t, style, metrics)
  PROVE  /\ DataRows(page) = [i \in 1 .. Rungs(style) |-> page.body[i]]
         /\ Emptied(DataRows(page), t, style, metrics) /\ Bare(page)
<1> DEFINE n == Rungs(style)
           b == DataRows(page)
<1>1. n \in Nat
  BY RungsType
<1>2. \A i \in 1 .. n : CleanRow(page.body[i], t, style, metrics, i)
  BY DEF CleanBody
<1>3. \A i \in 1 .. n : page.body[i].label # Summary
  <2>1. \A row \in DataRow : row.label # Summary
    BY PortalAssumption, ClockAssumption, SMT DEF DataRow
  <2> QED BY <1>2, <2>1 DEF CleanRow
<1>4. /\ Len(page.body) = n + 1
      /\ page.body[n + 1].label = Summary /\ page.body[n + 1].cells = <<>>
  BY DEF CleanBody
<1> HIDE DEF n
<1>5. b = [i \in 1 .. n |-> page.body[i]]
  BY <1>1, <1>3, <1>4, TopRows
<1>6. Len(b) = n /\ \A i \in 1 .. n : b[i] = page.body[i]
  BY <1>1, <1>5
<1> HIDE DEF b
<1>7. \A i \in 1 .. n :
        /\ b[i].label = Rung(style, i) /\ Len(b[i].cells) = Width * Len(metrics)
        /\ \A k \in 1 .. Width : CellsOf(b[i], t, style, metrics, i, k)
  BY <1>2, <1>6 DEF CleanRow, CellsOf
<1>8. \A i \in 2 .. n : i \in 1 .. n
  BY <1>1, SMT
<1>9. Bare(page)
  <2>1. \A i \in 1 .. n + 1 : i # n + 1 => i \in 1 .. n
    BY <1>1, SMT
  <2> QED BY <1>3, <1>4, <2>1 DEF Bare
<1> QED BY <1>5, <1>6, <1>7, <1>8, <1>9 DEF Emptied, n, b

LEMMA CleanIsOdd ==
  ASSUME NEW page, NEW t, NEW style, NEW metrics, Clean(page, t, style, metrics)
  PROVE  Odd(page, t, style, metrics)
<1>1. page \in Pages
  BY DEF Clean, Names
<1>2. Emptied(DataRows(page), t, style, metrics) /\ Bare(page)
  BY <1>1, CleanIsEmptied DEF Clean
<1> QED BY <1>2 DEF Clean, Odd, OddForm, OddBody

LEMMA OtherColumns ==
  ASSUME NEW t \in FirstDay .. LastDay, NEW style, NEW metrics \in Layouts,
         NEW page, Clean(page, t, style, metrics), NEW i \in 1 .. Width
  PROVE  /\ Odd([page EXCEPT !.columns[i].weekday = (page.columns[i].weekday + 1) % 7],
                t, style, metrics)
         /\ Odd([page EXCEPT !.columns[i].label = NULL], t, style, metrics)
<1> DEFINE columns == page.columns
           D == Oldest(t) .. Newest(t)
           v == (columns[i].weekday + 1) % 7
           c1 == [columns[i] EXCEPT !.weekday = v]
           c2 == [columns[i] EXCEPT !.label = NULL]
           x1 == [columns EXCEPT ![i] = c1]
           x2 == [columns EXCEPT ![i] = c2]
           odd1 == [page EXCEPT !.columns = x1]
           odd2 == [page EXCEPT !.columns = x2]
<1>1. /\ page \in Pages /\ columns \in Seq(Columns) /\ Len(columns) = Width
      /\ \A k \in 1 .. Width : columns[k] \in Columns
  BY LenProperties DEF Clean, Names, Pages, CleanColumns
<1>2. \A k \in 1 .. Width : /\ columns[k].label = Label(Shown(t)[k])
                            /\ columns[k].weekday = Weekday(Shown(t)[k])
                            /\ columns[k].label \in {NULL} \cup {Label(d) : d \in D}
  BY <1>1 DEF Clean, CleanColumns, Names
<1>3. c1 \in Columns /\ c1.label = columns[i].label /\ c1.weekday = v
      /\ c2 \in Columns /\ c2.label = NULL
  <2>1. v \in Int
    BY <1>1, SMT DEF Columns
  <2> HIDE DEF v
  <2> QED BY <1>1, <2>1 DEF Columns
<1> HIDE DEF c1, c2, v, columns
<1>4. /\ x1 \in Seq(Columns) /\ Len(x1) = Width
      /\ \A k \in 1 .. Width : x1[k] = IF k = i THEN c1 ELSE columns[k]
  BY <1>1, <1>3, ExceptSeq
<1>5. /\ x2 \in Seq(Columns) /\ Len(x2) = Width
      /\ \A k \in 1 .. Width : x2[k] = IF k = i THEN c2 ELSE columns[k]
  BY <1>1, <1>3, ExceptSeq
<1> HIDE DEF x1, x2
<1>6. odd1 \in Pages /\ odd1.above = page.above /\ odd1.columns = x1
  BY <1>1, <1>4, PageWith
<1>7. odd2 \in Pages /\ odd2.columns = x2 /\ odd2.headers = page.headers
  BY <1>1, <1>5, PageWith
<1> HIDE DEF odd1, odd2
<1>8. Odd(odd1, t, style, metrics)
  <2>1. Names(odd1, D)
    BY <1>2, <1>3, <1>4, <1>6 DEF Names
  <2>2. WrongWeekday(odd1, t)
    BY <1>2, <1>3, <1>4, <1>6 DEF WrongWeekday, Clean, v
  <2> QED BY <2>1, <2>2 DEF Odd, OddForm
<1>9. Odd(odd2, t, style, metrics)
  <2>1. Names(odd2, D)
    BY <1>2, <1>3, <1>5, <1>7 DEF Names
  <2>2. Undated(odd2, t)
    BY <1>2, <1>3, <1>5, <1>7 DEF Undated
  <2>3. CleanHeaders(odd2, metrics)
    BY <1>7 DEF Clean, CleanHeaders
  <2> QED BY <2>1, <2>2, <2>3 DEF Odd, OddForm
<1> QED BY <1>8, <1>9 DEF odd1, odd2, x1, x2, c1, c2, v, columns

\* What the other pages share with a clean one.
LEMMA SameRest ==
  ASSUME NEW t, NEW style, NEW metrics, NEW page, Clean(page, t, style, metrics),
         NEW odd \in Pages, odd.columns = page.columns
  PROVE  /\ Names(odd, Oldest(t) .. Newest(t)) /\ CleanColumns(odd, t)
         /\ odd.headers = page.headers => CleanHeaders(odd, metrics)
         /\ odd.body = page.body => Emptied(DataRows(odd), t, style, metrics) /\ Bare(odd)
<1>1. Names(odd, Oldest(t) .. Newest(t)) /\ CleanColumns(odd, t)
  BY DEF Clean, Names, CleanColumns
<1>2. odd.headers = page.headers => CleanHeaders(odd, metrics)
  BY DEF Clean, CleanHeaders
<1>3. odd.body = page.body => Emptied(DataRows(odd), t, style, metrics) /\ Bare(odd)
  <2> SUFFICES ASSUME odd.body = page.body
               PROVE  Emptied(DataRows(odd), t, style, metrics) /\ Bare(odd)
    OBVIOUS
  <2>1. CleanBody(odd, t, style, metrics)
    BY DEF Clean, CleanBody
  <2> QED BY <2>1, CleanIsEmptied
<1> QED BY <1>1, <1>2, <1>3

LEMMA OtherHeaderIsOdd ==
  ASSUME NEW t \in FirstDay .. LastDay, NEW style, NEW metrics \in Layouts,
         NEW page, Clean(page, t, style, metrics), NEW odd \in OtherHeader(page, Len(metrics))
  PROVE  Odd(odd, t, style, metrics)
<1> DEFINE w == Len(metrics)
           headers == page.headers
<1>1. page \in Pages /\ headers \in Seq(Texts) /\ w \in Nat \ {0} /\ Width \in Nat \ {0}
      /\ Len(headers) = Width * w
  BY LayoutFacts, PortalAssumption DEF Clean, Names, Pages, CleanHeaders
<1>2. w <= Width * w /\ Width * w \in Nat /\ 1 * w = w
  <2>1. 1 \in Nat /\ 1 <= Width /\ w \in Nat /\ Width \in Nat
    BY <1>1, SMT
  <2>2. 1 * w <= Width * w /\ Width * w \in Nat
    BY <2>1, Multiples
  <2>3. 1 * w = w
    BY <2>1, SMT
  <2> QED BY <2>2, <2>3
<1>3. 1 \in 1 .. Len(headers) /\ w \in 1 .. Len(headers) /\ \A i \in 1 .. w : i \in 1 .. Len(headers)
  BY <1>1, <1>2, SMT
<1>4. CASE \E n \in 0 .. 1 : odd = [page EXCEPT !.above = n]
  <2>1. PICK n \in 0 .. 1 : odd = [page EXCEPT !.above = n]
    BY <1>4
  <2>2. odd \in Pages /\ odd.columns = page.columns /\ odd.headers = page.headers /\ odd.body = page.body
    <3>1. n \in Int
      BY SMT
    <3> QED BY <1>1, <2>1, <3>1, PageWith
  <2> QED BY <2>2, SameRest DEF Odd, OddForm, OddBody
<1>5. CASE \E i \in 1 .. Width : odd = [page EXCEPT !.columns[i].weekday = (page.columns[i].weekday + 1) % 7]
  <2>1. PICK i \in 1 .. Width : odd = [page EXCEPT !.columns[i].weekday = (page.columns[i].weekday + 1) % 7]
    BY <1>5
  <2>2. Odd([page EXCEPT !.columns[i].weekday = (page.columns[i].weekday + 1) % 7], t, style, metrics)
    BY OtherColumns
  <2> QED BY <2>1, <2>2
<1>6. CASE \E i \in 1 .. Width : odd = [page EXCEPT !.columns[i].label = NULL]
  <2>1. PICK i \in 1 .. Width : odd = [page EXCEPT !.columns[i].label = NULL]
    BY <1>6
  <2>2. Odd([page EXCEPT !.columns[i].label = NULL], t, style, metrics)
    BY OtherColumns
  <2> QED BY <2>1, <2>2
<1>7. CASE \E i \in {1, w} : odd = [page EXCEPT !.headers[i] = "$ Cost"]
  <2>1. PICK i \in {1, w} : odd = [page EXCEPT !.headers[i] = "$ Cost"]
    BY <1>7
  <2> DEFINE text == "$ Cost"
             x == [headers EXCEPT ![i] = text]
  <2>2. i \in 1 .. Len(headers) /\ i \in 1 .. w
    BY <1>1, <1>3, SMT
  <2>3. text \in Texts
    BY DEF Texts
  <2>4. x \in Seq(Texts) /\ Len(x) = Len(headers) /\ x[i] = text
    <3> HIDE DEF headers, text
    <3> QED BY <1>1, <2>2, <2>3, ExceptSeq
  <2>5. odd = [page EXCEPT !.headers = x]
    BY <2>1
  <2> HIDE DEF x
  <2>6. odd \in Pages /\ odd.columns = page.columns /\ odd.headers = x
    BY <1>1, <2>4, <2>5, PageWith
  <2>7. Unheard(odd, metrics)
    BY <1>1, <2>2, <2>4, <2>6 DEF Unheard
  <2> QED BY <2>6, <2>7, SameRest DEF Odd, OddForm
<1>8. CASE odd = [page EXCEPT !.headers = SwapAt(page.headers, 1, w)]
  <2> DEFINE y == [headers EXCEPT ![1] = headers[w]]
             x == [y EXCEPT ![w] = headers[1]]
  <2>1. y \in Seq(Texts) /\ Len(y) = Len(headers)
        /\ \A p \in 1 .. Len(headers) : y[p] = IF p = 1 THEN headers[w] ELSE headers[p]
    <3>1. headers[w] \in Texts
      BY <1>1, <1>3, LenProperties
    <3> QED BY <1>1, <1>3, <3>1, ExceptSeq
  <2> HIDE DEF y
  <2>2. x \in Seq(Texts) /\ Len(x) = Len(headers)
        /\ \A p \in 1 .. Len(headers) : x[p] = IF p = w THEN headers[1] ELSE y[p]
    <3>1. headers[1] \in Texts
      BY <1>1, <1>3, LenProperties
    <3> QED BY <1>3, <2>1, <3>1, ExceptSeq
  <2>3. odd = [page EXCEPT !.headers = x]
    BY <1>8 DEF SwapAt, y
  <2> HIDE DEF x
  <2>4. odd \in Pages /\ odd.columns = page.columns /\ odd.headers = x /\ odd.body = page.body
    BY <1>1, <2>2, <2>3, PageWith
  <2>5. ASSUME NEW k \in 1 .. Width, NEW j \in 1 .. w
        PROVE  x[Place(k, w, j)] =
                 IF k # 1 THEN metrics[j]
                 ELSE IF j = 1 THEN metrics[w] ELSE IF j = w THEN metrics[1] ELSE metrics[j]
    <3> DEFINE p == Place(k, w, j)
    <3>1. p \in 1 .. Len(headers) /\ headers[p] = metrics[j]
      BY DEF Clean, CleanHeaders
    <3>2. headers[1] = metrics[1] /\ headers[w] = metrics[w]
      <4>1. 1 \in 1 .. Width /\ 1 \in 1 .. w /\ w \in 1 .. w
            /\ Place(1, w, 1) = 1 /\ Place(1, w, w) = w
        BY <1>1, SMT DEF Place
      <4> QED BY <4>1 DEF Clean, CleanHeaders
    <3>3. k = 1 => p = j
      BY <1>1, SMT DEF Place
    <3>4. k # 1 => p # 1 /\ p # w
      <4> SUFFICES ASSUME k # 1  PROVE p # 1 /\ p # w
        OBVIOUS
      <4>1. 1 \in Nat /\ k - 1 \in Nat /\ 1 <= k - 1
        BY <1>1, SMT
      <4>2. 1 * w <= (k - 1) * w /\ (k - 1) * w \in Nat
        BY <1>1, <4>1, Multiples
      <4> QED BY <1>1, <1>2, <4>2, SMT DEF Place
    <3> HIDE DEF p
    <3>5. x[p] = IF p = w THEN headers[1] ELSE IF p = 1 THEN headers[w] ELSE headers[p]
      BY <2>1, <2>2, <3>1
    <3>6. x[p] = IF k # 1 THEN metrics[j]
                 ELSE IF j = 1 THEN metrics[w] ELSE IF j = w THEN metrics[1] ELSE metrics[j]
      BY <3>1, <3>2, <3>3, <3>4, <3>5
    <3> QED BY <3>6 DEF p
  <2>6. Rearranged(odd, metrics)
    BY <1>1, <2>2, <2>4, <2>5 DEF Rearranged
  <2> QED BY <2>4, <2>6, SameRest DEF Odd, OddForm
<1> QED BY <1>4, <1>5, <1>6, <1>7, <1>8 DEF OtherHeader

BodyIs(page, t, style, metrics) ==
  /\ page \in Pages /\ page.body \in Seq(Rows)
  /\ Rungs(style) \in Nat /\ Len(page.body) = Rungs(style) + 1
  /\ \A p \in 1 .. Rungs(style) + 1 : page.body[p] \in Rows
  /\ \A p \in 1 .. Rungs(style) :
       /\ page.body[p] \in DataRow /\ page.body[p].label # Summary
       /\ page.body[p].label = Rung(style, p)
       /\ Len(page.body[p].cells) = Width * Len(metrics)
       /\ \A k \in 1 .. Width : CellsOf(page.body[p], t, style, metrics, p, k)
  /\ page.body[Rungs(style) + 1].label = Summary /\ page.body[Rungs(style) + 1].cells = <<>>
  /\ \A x \in OddRows : x \in Nat /\ x \in 1 .. Rungs(style) /\ x + 1 \in 1 .. Rungs(style)

LEMMA BodyFacts ==
  ASSUME NEW t, NEW style, NEW metrics, NEW page, Clean(page, t, style, metrics)
  PROVE  BodyIs(page, t, style, metrics)
<1> DEFINE n == Rungs(style)
<1>1. page \in Pages /\ page.body \in Seq(Rows) /\ CleanBody(page, t, style, metrics)
  BY DEF Clean, Names, Pages
<1>2. n \in Nat /\ DayLen <= n
  BY RungsType
<1>3. Len(page.body) = n + 1 /\ page.body[n + 1].label = Summary /\ page.body[n + 1].cells = <<>>
      /\ \A p \in 1 .. n : CleanRow(page.body[p], t, style, metrics, p)
  BY <1>1 DEF CleanBody
<1>4. \A p \in 1 .. n + 1 : page.body[p] \in Rows
  BY <1>1, <1>3, LenProperties
<1>5. \A row \in DataRow : row.label # Summary
  BY PortalAssumption, ClockAssumption, SMT DEF DataRow
<1>6. \A p \in 1 .. n :
        /\ page.body[p] \in DataRow /\ page.body[p].label # Summary
        /\ page.body[p].label = Rung(style, p)
        /\ Len(page.body[p].cells) = Width * Len(metrics)
        /\ \A k \in 1 .. Width : CellsOf(page.body[p], t, style, metrics, p, k)
  BY <1>3, <1>5 DEF CleanRow, CellsOf
<1>7. \A x \in OddRows : x \in Nat /\ x \in 1 .. n /\ x + 1 \in 1 .. n
  <2>1. \A x \in 1 .. DayLen - 1 : x \in Nat /\ x \in 1 .. n /\ x + 1 \in 1 .. n
    BY <1>2, ClockAssumption, SMT
  <2> QED BY <2>1, PortalAssumption
<1> QED BY <1>1, <1>2, <1>3, <1>4, <1>6, <1>7 DEF BodyIs

\* A clean page with other rows above its "Total" row.
LEMMA NewBody ==
  ASSUME NEW t, NEW style, NEW metrics, NEW page, Clean(page, t, style, metrics),
         NEW x \in Seq(Rows), NEW m \in Nat, Len(x) = m + 1,
         \A i \in 1 .. m : x[i].label # Summary, x[m + 1].label = Summary, x[m + 1].cells = <<>>
  PROVE  LET odd == [page EXCEPT !.body = x] IN
         /\ Len(DataRows(odd)) = m /\ \A i \in 1 .. m : DataRows(odd)[i] = x[i]
         /\ OddBody(DataRows(odd), t, style, metrics) => Odd(odd, t, style, metrics)
<1> DEFINE odd == [page EXCEPT !.body = x]
           b == DataRows(odd)
<1>1. odd \in Pages /\ odd.columns = page.columns /\ odd.headers = page.headers /\ odd.body = x
  BY BodyFacts, PageWith DEF BodyIs
<1> HIDE DEF odd
<1>2. b = [i \in 1 .. m |-> x[i]]
  BY <1>1, TopRows
<1>3. Len(b) = m /\ \A i \in 1 .. m : b[i] = x[i]
  BY <1>2
<1>4. Names(odd, Oldest(t) .. Newest(t)) /\ CleanColumns(odd, t) /\ CleanHeaders(odd, metrics)
  BY <1>1, SameRest
<1>5. Bare(odd)
  <2>1. \A i \in 1 .. m + 1 : i # m + 1 => i \in 1 .. m
    BY SMT
  <2> QED BY <1>1, <2>1 DEF Bare
<1>6. OddBody(b, t, style, metrics) => Odd(odd, t, style, metrics)
  BY <1>4, <1>5 DEF Odd, OddForm
<1> HIDE DEF b
<1> QED BY <1>3, <1>6 DEF b, odd

\* The same rows with one of them changed.
LEMMA OneRow ==
  ASSUME NEW t, NEW style, NEW metrics, NEW page, Clean(page, t, style, metrics),
         NEW i \in 1 .. Rungs(style), NEW row \in Rows, row.label # Summary
  PROVE  LET odd == [page EXCEPT !.body = [page.body EXCEPT ![i] = row]] IN
         /\ Len(DataRows(odd)) = Rungs(style)
         /\ \A p \in 1 .. Rungs(style) : DataRows(odd)[p] = IF p = i THEN row ELSE page.body[p]
         /\ OddBody(DataRows(odd), t, style, metrics) => Odd(odd, t, style, metrics)
<1> DEFINE n == Rungs(style)
           body == page.body
           x == [body EXCEPT ![i] = row]
           odd == [page EXCEPT !.body = x]
<1>1. /\ body \in Seq(Rows) /\ n \in Nat /\ Len(body) = n + 1
      /\ \A p \in 1 .. n : body[p].label # Summary
      /\ body[n + 1].label = Summary /\ body[n + 1].cells = <<>>
  <2>0. BodyIs(page, t, style, metrics)
    BY BodyFacts
  <2>1. /\ page.body \in Seq(Rows) /\ Rungs(style) \in Nat /\ Len(page.body) = Rungs(style) + 1
        /\ page.body[Rungs(style) + 1].label = Summary /\ page.body[Rungs(style) + 1].cells = <<>>
    BY <2>0 DEF BodyIs
  <2>2. \A p \in 1 .. Rungs(style) : page.body[p].label # Summary
    BY <2>0, Zenon DEF BodyIs
  <2> QED BY <2>1, <2>2
<1>2. i \in 1 .. Len(body) /\ i # n + 1 /\ n + 1 \in 1 .. Len(body)
      /\ \A p \in 1 .. n : p \in 1 .. Len(body)
  BY <1>1, SMT
<1> HIDE DEF n
<1>3. x \in Seq(Rows) /\ Len(x) = Len(body)
      /\ \A p \in 1 .. Len(body) : x[p] = IF p = i THEN row ELSE body[p]
  <2> HIDE DEF body
  <2> QED BY <1>1, <1>2, ExceptSeq
<1> HIDE DEF x
<1>4. x[n + 1].label = Summary /\ x[n + 1].cells = <<>> /\ \A p \in 1 .. n : x[p].label # Summary
  BY <1>1, <1>2, <1>3
<1>5. /\ Len(DataRows(odd)) = n /\ \A p \in 1 .. n : DataRows(odd)[p] = x[p]
      /\ OddBody(DataRows(odd), t, style, metrics) => Odd(odd, t, style, metrics)
  BY <1>1, <1>3, <1>4, NewBody
<1> HIDE DEF odd
<1>6. \A p \in 1 .. n : DataRows(odd)[p] = IF p = i THEN row ELSE body[p]
  BY <1>2, <1>3, <1>5
<1> QED BY <1>5, <1>6 DEF odd, x, body, n

\* A row some of whose cells are empty.
\* A row without some of its cells.
Erased(row, S) ==
  [row EXCEPT !.cells = [j \in 1 .. Len(row.cells) |->
                           IF j \in S THEN NULL ELSE row.cells[j]]]

LEMMA EmptyCells ==
  ASSUME NEW row \in Rows, NEW S
  PROVE  /\ Erased(row, S) \in Rows /\ Erased(row, S).label = row.label
         /\ Len(Erased(row, S).cells) = Len(row.cells)
         /\ \A j \in 1 .. Len(row.cells) :
              Erased(row, S).cells[j] = IF j \in S THEN NULL ELSE row.cells[j]
<1> DEFINE n == Len(row.cells)
           c(j) == IF j \in S THEN NULL ELSE row.cells[j]
           cells == [j \in 1 .. n |-> c(j)]
           e == [row EXCEPT !.cells = cells]
<1>1. row.cells \in Seq(Cells) /\ n \in Nat /\ \A j \in 1 .. n : row.cells[j] \in Cells
  BY LenProperties DEF Rows
<1>2. \A j \in 1 .. n : c(j) \in Cells
  BY <1>1 DEF Cells
<1> HIDE DEF c
<1>3. cells \in Seq(Cells) /\ Len(cells) = n /\ \A j \in 1 .. n : cells[j] = c(j)
  BY <1>1, <1>2
<1> HIDE DEF cells
<1>4. e \in Rows /\ e.label = row.label /\ e.cells = cells
  BY <1>3 DEF Rows
<1> HIDE DEF e
<1>5. Len(e.cells) = n /\ \A j \in 1 .. n : e.cells[j] = c(j)
  BY <1>3, <1>4
<1> QED BY <1>4, <1>5 DEF Erased, e, cells, c, n

LEMMA LostLabel ==
  ASSUME NEW t, NEW style, NEW metrics, NEW page, Clean(page, t, style, metrics), NEW i \in OddRows
  PROVE  Odd([page EXCEPT !.body[i].label = Summary], t, style, metrics)
<1> DEFINE n == Rungs(style)
           body == page.body
           row == [body[i] EXCEPT !.label = Summary]
           x == [body EXCEPT ![i] = row]
           odd == [page EXCEPT !.body = x]
           T == {r \in ToSet(odd.body) : r.label # Summary}
<1>0. BodyIs(page, t, style, metrics)
  BY BodyFacts
<1>1. page \in Pages /\ body \in Seq(Rows) /\ n \in Nat /\ Len(body) = n + 1 /\ i \in 1 .. n
      /\ body[n + 1].label = Summary
  BY <1>0 DEF BodyIs
<1>2. \A p \in 1 .. n : body[p].label # Summary
  BY <1>0, Zenon DEF BodyIs
<1>3. i \in 1 .. n + 1 /\ n + 1 \in 1 .. n + 1 /\ i # n + 1 /\ (\A p \in 1 .. n : p \in 1 .. n + 1)
      /\ \A p \in 1 .. n + 1 : p # n + 1 => p \in 1 .. n
  BY <1>1, SMT
<1>4. row \in Rows /\ row.label = Summary
  <2>1. body[i] \in Rows
    BY <1>1, <1>3, LenProperties
  <2> HIDE DEF body
  <2> QED BY <2>1 DEF Rows
<1> HIDE DEF row, n
<1>5. x \in Seq(Rows) /\ Len(x) = n + 1 /\ DOMAIN x = 1 .. n + 1
      /\ \A p \in 1 .. n + 1 : x[p] = IF p = i THEN row ELSE body[p]
  <2> HIDE DEF body
  <2>1. x \in Seq(Rows) /\ Len(x) = n + 1 /\ \A p \in 1 .. n + 1 : x[p] = IF p = i THEN row ELSE body[p]
    BY <1>1, <1>3, <1>4, ExceptSeq
  <2> HIDE DEF x
  <2> QED BY <2>1, LenProperties
<1> HIDE DEF x
<1>6. odd \in Pages /\ odd.columns = page.columns /\ odd.headers = page.headers /\ odd.body = x
  BY <1>1, <1>5, PageWith
<1> HIDE DEF odd
<1>7. Names(odd, Oldest(t) .. Newest(t)) /\ CleanColumns(odd, t) /\ CleanHeaders(odd, metrics)
  BY <1>6, SameRest
<1>8. {p \in 1 .. n + 1 : x[p] \in T} = (1 .. n) \ {i}
  <2>1. \A p \in 1 .. n + 1 : x[p] \in T <=> x[p].label # Summary
    BY <1>5, <1>6 DEF ToSet
  <2> HIDE DEF T, body
  <2>2. \A p \in 1 .. n + 1 : x[p].label # Summary <=> p \in (1 .. n) \ {i}
    BY <1>1, <1>2, <1>3, <1>4, <1>5
  <2> QED BY <1>3, <2>1, <2>2
<1>9. Cardinality((1 .. n) \ {i}) = n - 1
  <2>0. 1 \in Int /\ n \in Int /\ (IF 1 > n THEN 0 ELSE n - 1 + 1) = n
    BY <1>1, SMT
  <2>1. IsFiniteSet(1 .. n) /\ Cardinality(1 .. n) = n
    BY <2>0, FS_Interval
  <2> QED BY <1>1, <2>1, FS_RemoveElement
<1>10. Len(DataRows(odd)) = n - 1
  <2>1. Len(Kept(x, T)) = Cardinality({p \in 1 .. Len(x) : x[p] \in T})
    BY <1>5, KeptCount
  <2>2. DataRows(odd) = Kept(x, T)
    BY <1>6 DEF DataRows
  <2> HIDE DEF T
  <2> QED BY <1>5, <1>8, <1>9, <2>1, <2>2
<1>11. OddBody(DataRows(odd), t, style, metrics) /\ Len(DataRows(odd)) # n
  BY <1>1, <1>10, SMT DEF OddBody, n
<1>12. Odd(odd, t, style, metrics)
  BY <1>7, <1>11 DEF Odd, OddForm, n
<1> QED BY <1>12 DEF odd, x, row, body

LEMMA ShortRow ==
  ASSUME NEW t, NEW style, NEW metrics \in Layouts, NEW page, Clean(page, t, style, metrics)
  PROVE  Odd([page EXCEPT !.body[1].cells = Front(page.body[1].cells)], t, style, metrics)
<1> DEFINE n == Rungs(style)
           len == Width * Len(metrics)
           first == page.body[1]
           cells == Front(first.cells)
           row == [first EXCEPT !.cells = cells]
           odd == [page EXCEPT !.body = [page.body EXCEPT ![1] = row]]
<1>0. BodyIs(page, t, style, metrics)
  BY BodyFacts
<1>1. n \in Nat /\ 1 \in 1 .. n
  BY RungsType, ClockAssumption, SMT
<1>2. first \in DataRow /\ first.label # Summary /\ Len(first.cells) = len
  BY <1>0, <1>1 DEF BodyIs
<1>3. first.cells \in Seq(Cells) /\ first \in Rows
  BY <1>2, DataRowIsRow DEF DataRow
<1>4. len \in Nat \ {0}
  <2>1. Width \in Nat \ {0} /\ Len(metrics) \in Nat \ {0}
    BY PortalAssumption, LayoutFacts
  <2> QED BY <2>1, SMT
<1> HIDE DEF first, len
<1>5. cells \in Seq(Cells) /\ Len(cells) < len
  <2>1. 1 \in Int /\ len - 1 \in Int /\ \A p \in 1 .. len - 1 : p \in 1 .. len
    BY <1>4, SMT
  <2>2. \A p \in 1 .. len - 1 : first.cells[p] \in Cells
    BY <1>2, <1>3, <2>1, LenProperties
  <2>3. /\ SubSeq(first.cells, 1, len - 1) \in Seq(Cells)
        /\ Len(SubSeq(first.cells, 1, len - 1)) = IF 1 <= len - 1 THEN len - 1 - 1 + 1 ELSE 0
    BY <2>1, <2>2, SubSeqProperties
  <2>4. cells = SubSeq(first.cells, 1, len - 1)
    BY <1>2 DEF Front
  <2> HIDE DEF cells
  <2>5. (IF 1 <= len - 1 THEN len - 1 - 1 + 1 ELSE 0) < len
    BY <1>4, SMT
  <2> QED BY <2>3, <2>4, <2>5
<1> HIDE DEF cells
<1>6. row \in Rows /\ row.label = first.label /\ row.cells = cells
  BY <1>3, <1>5 DEF Rows
<1> HIDE DEF row
<1>7. /\ Len(DataRows(odd)) = n
      /\ \A p \in 1 .. n : DataRows(odd)[p] = IF p = 1 THEN row ELSE page.body[p]
      /\ OddBody(DataRows(odd), t, style, metrics) => Odd(odd, t, style, metrics)
  BY <1>1, <1>2, <1>6, OneRow
<1> HIDE DEF odd
<1>8. OddBody(DataRows(odd), t, style, metrics)
  BY <1>1, <1>5, <1>6, <1>7 DEF OddBody, len, n
<1>9. Odd(odd, t, style, metrics)
  BY <1>7, <1>8
<1> QED BY <1>9 DEF odd, row, cells, first

LEMMA TwiceRow ==
  ASSUME NEW t, NEW style, NEW metrics, NEW page, Clean(page, t, style, metrics), NEW i \in OddRows
  PROVE  Odd([page EXCEPT !.body = InsertAt(page.body, i, page.body[i])], t, style, metrics)
<1> DEFINE n == Rungs(style)
           body == page.body
           a == SubSeq(body, 1, i - 1)
           b == <<body[i]>>
           c == SubSeq(body, i, n + 1)
           x == a \o b \o c
           odd == [page EXCEPT !.body = x]
<1>0. BodyIs(page, t, style, metrics)
  BY BodyFacts
<1>1. n \in Nat /\ Len(body) = n + 1 /\ i \in 1 .. n
      /\ body[n + 1].label = Summary /\ body[n + 1].cells = <<>>
      /\ \A p \in 1 .. n + 1 : body[p] \in Rows
  BY <1>0 DEF BodyIs
<1>2. \A p \in 1 .. n : body[p].label # Summary
  BY <1>0, Zenon DEF BodyIs
<1> HIDE DEF n, body
<1>3. /\ i \in Int /\ i - 1 \in Int /\ n + 1 \in Int /\ 1 \in Int /\ i \in 1 .. n + 1
      /\ \A p \in 1 .. i - 1 : p \in 1 .. n + 1
      /\ \A p \in i .. n + 1 : p \in 1 .. n + 1
  BY <1>1, SMT
<1>4. a \in Seq(Rows) /\ Len(a) = i - 1 /\ \A p \in 1 .. i - 1 : a[p] = body[p]
  <2>1. /\ a \in Seq(Rows) /\ Len(a) = IF 1 <= i - 1 THEN i - 1 - 1 + 1 ELSE 0
        /\ \A p \in 1 .. i - 1 - 1 + 1 : a[p] = body[1 + p - 1]
    BY <1>1, <1>3, SubSeqProperties
  <2> HIDE DEF a
  <2>2. Len(a) = i - 1
    BY <1>1, <2>1, SMT
  <2>3. \A p \in 1 .. i - 1 : p \in 1 .. i - 1 - 1 + 1 /\ 1 + p - 1 = p
    BY <1>3, SMT
  <2> QED BY <2>1, <2>2, <2>3
<1>5. c \in Seq(Rows) /\ Len(c) = n + 2 - i /\ \A p \in 1 .. n + 2 - i : c[p] = body[i + p - 1]
  <2>1. /\ c \in Seq(Rows) /\ Len(c) = IF i <= n + 1 THEN n + 1 - i + 1 ELSE 0
        /\ \A p \in 1 .. n + 1 - i + 1 : c[p] = body[i + p - 1]
    BY <1>1, <1>3, SubSeqProperties
  <2> HIDE DEF c
  <2>2. Len(c) = n + 2 - i /\ n + 1 - i + 1 = n + 2 - i
    BY <1>1, <2>1, SMT
  <2> QED BY <2>1, <2>2
<1>6. b \in Seq(Rows) /\ Len(b) = 1 /\ b[1] = body[i]
  BY <1>1, <1>3
<1>7. InsertAt(body, i, body[i]) = x
  BY <1>1 DEF InsertAt
<1> HIDE DEF a, b, c
<1>8. Joined3(x, a, b, c, Rows)
  BY <1>4, <1>5, <1>6, Join3
<1> HIDE DEF x
<1>9. x \in Seq(Rows) /\ Len(x) = n + 2
      /\ \A p \in 1 .. n + 2 : x[p] = IF p <= i - 1 THEN a[p] ELSE IF p <= i THEN b[p - (i - 1)] ELSE c[p - i]
  <2>1. Len(a) + Len(b) + Len(c) = n + 2 /\ Len(a) + Len(b) = i
    BY <1>1, <1>4, <1>5, <1>6, SMT
  <2> QED BY <1>4, <1>8, <2>1 DEF Joined3
<1>10. \A p \in 1 .. n + 2 : x[p] = IF p <= i THEN body[p] ELSE body[p - 1]
  <2> SUFFICES ASSUME NEW p \in 1 .. n + 2  PROVE x[p] = IF p <= i THEN body[p] ELSE body[p - 1]
    OBVIOUS
  <2>1. CASE p <= i - 1
    <3>1. p \in 1 .. i - 1 /\ p <= i
      BY <1>1, <2>1, SMT
    <3> QED BY <1>4, <1>9, <2>1, <3>1
  <2>2. CASE ~(p <= i - 1) /\ p <= i
    <3>1. p = i /\ p - (i - 1) = 1
      BY <1>1, <2>2, SMT
    <3> QED BY <1>6, <1>9, <2>2, <3>1
  <2>3. CASE ~(p <= i)
    <3> DEFINE y == p - i
    <3>1. y \in 1 .. n + 2 - i /\ i + y - 1 = p - 1 /\ ~(p <= i - 1)
      BY <1>1, <2>3, SMT
    <3>2. x[p] = c[y]
      BY <1>9, <2>3, <3>1
    <3> HIDE DEF y
    <3>3. x[p] = body[i + y - 1]
      BY <1>5, <3>1, <3>2
    <3> QED BY <2>3, <3>1, <3>3
  <2> QED BY <2>1, <2>2, <2>3
<1>11. \A p \in 1 .. n + 1 : x[p].label # Summary
  <2> SUFFICES ASSUME NEW p \in 1 .. n + 1  PROVE x[p].label # Summary
    OBVIOUS
  <2>1. p \in 1 .. n + 2 /\ (p <= i => p \in 1 .. n) /\ (~(p <= i) => p - 1 \in 1 .. n)
    BY <1>1, SMT
  <2> QED BY <1>2, <1>10, <2>1
<1>12. n + 1 \in Nat /\ Len(x) = (n + 1) + 1
       /\ x[(n + 1) + 1].label = Summary /\ x[(n + 1) + 1].cells = <<>>
  <2>1. n + 1 \in Nat /\ (n + 1) + 1 = n + 2 /\ n + 2 \in 1 .. n + 2 /\ ~(n + 2 <= i) /\ (n + 2) - 1 = n + 1
    BY <1>1, SMT
  <2>2. x[n + 2] = body[n + 1]
    BY <1>10, <2>1
  <2> QED BY <1>1, <1>9, <2>1, <2>2
<1>13. /\ Len(DataRows(odd)) = n + 1 /\ \A p \in 1 .. n + 1 : DataRows(odd)[p] = x[p]
       /\ OddBody(DataRows(odd), t, style, metrics) => Odd(odd, t, style, metrics)
  BY <1>9, <1>11, <1>12, NewBody
<1>14. OddBody(DataRows(odd), t, style, metrics)
  <2> DEFINE d == DataRows(odd)
             m == i + 1
  <2>1. i \in 1 .. n + 1 /\ m \in 1 .. n + 1 /\ i \in 1 .. n + 2 /\ m \in 1 .. n + 2
        /\ i <= i /\ ~(m <= i) /\ m - 1 = i
    BY <1>1, <1>3, SMT
  <2> HIDE DEF m
  <2>2. x[i] = body[i] /\ x[m] = body[i]
    BY <1>10, <2>1
  <2> HIDE DEF d
  <2>3. d[i] = body[i] /\ d[m] = body[i] /\ Len(d) = n + 1
    BY <1>13, <2>1, <2>2 DEF d
  <2>4. body[i].label = Rung(style, i) /\ \A k \in 1 .. Width : CellsOf(body[i], t, style, metrics, i, k)
    BY <1>0, <1>1, Zenon DEF BodyIs, n, body
  <2>5. Twice(d, t, style, metrics, i)
    BY <2>3, <2>4 DEF Twice, n, m
  <2> QED BY <2>5 DEF OddBody, d
<1> QED BY <1>7, <1>13, <1>14 DEF odd, body

LEMMA TradedLabels ==
  ASSUME NEW t, NEW style, NEW metrics, NEW page, Clean(page, t, style, metrics), NEW i \in OddRows
  PROVE  Odd([page EXCEPT !.body[i].label = page.body[i + 1].label,
                          !.body[i + 1].label = page.body[i].label], t, style, metrics)
<1> DEFINE n == Rungs(style)
           body == page.body
           m == i + 1
           r1 == [body[i] EXCEPT !.label = body[m].label]
           y == [body EXCEPT ![i] = r1]
           r2 == [y[m] EXCEPT !.label = body[i].label]
           x == [y EXCEPT ![m] = r2]
           odd == [page EXCEPT !.body = x]
<1>0. BodyIs(page, t, style, metrics)
  BY BodyFacts
<1>1. /\ page \in Pages /\ body \in Seq(Rows) /\ n \in Nat /\ Len(body) = n + 1
      /\ body[n + 1].label = Summary /\ body[n + 1].cells = <<>>
      /\ \A p \in 1 .. n + 1 : body[p] \in Rows
  BY <1>0 DEF BodyIs
<1>2. i \in Nat /\ i \in 1 .. n /\ m \in 1 .. n
  BY <1>0 DEF BodyIs
<1>3. \A p \in 1 .. n : body[p].label # Summary /\ body[p].label = Rung(style, p)
  BY <1>0, Zenon DEF BodyIs
<1>4. \A p \in 1 .. n : \A k \in 1 .. Width : CellsOf(body[p], t, style, metrics, p, k)
  BY <1>0, Zenon DEF BodyIs
<1> DEFINE len == Width * Len(metrics)
<1>4a. \A p \in 1 .. n : Len(body[p].cells) = len
  BY <1>0, Zenon DEF BodyIs
<1> HIDE DEF len
<1>5. i \in 1 .. n + 1 /\ m \in 1 .. n + 1 /\ i # m /\ n + 1 \in 1 .. n + 1 /\ i # n + 1 /\ m # n + 1
      /\ \A p \in 1 .. n : p \in 1 .. n + 1
  BY <1>1, <1>2, SMT
<1>6. [page EXCEPT !.body[i].label = page.body[i + 1].label,
                   !.body[i + 1].label = page.body[i].label] = odd
  OBVIOUS
<1> HIDE DEF n, m, body
<1>7. r1 \in Rows /\ r1.label = body[m].label /\ r1.cells = body[i].cells
  <2>1. body[i] \in Rows /\ body[m] \in Rows
    BY <1>1, <1>5
  <2> QED BY <2>1 DEF Rows
<1> HIDE DEF r1
<1>8. y \in Seq(Rows) /\ Len(y) = n + 1 /\ \A p \in 1 .. n + 1 : y[p] = IF p = i THEN r1 ELSE body[p]
  BY <1>1, <1>5, <1>7, ExceptSeq
<1> HIDE DEF y
<1>9. r2 \in Rows /\ r2.label = body[i].label /\ r2.cells = body[m].cells
  <2>1. body[i] \in Rows /\ body[m] \in Rows /\ y[m] = body[m]
    BY <1>1, <1>5, <1>8
  <2> QED BY <2>1 DEF Rows
<1> HIDE DEF r2
<1>10. x \in Seq(Rows) /\ Len(x) = n + 1 /\ \A p \in 1 .. n + 1 : x[p] = IF p = m THEN r2 ELSE y[p]
  BY <1>5, <1>8, <1>9, ExceptSeq
<1> HIDE DEF x
<1>11. \A p \in 1 .. n + 1 : x[p] = IF p = m THEN r2 ELSE IF p = i THEN r1 ELSE body[p]
  BY <1>8, <1>10
<1>12. \A p \in 1 .. n : x[p].label = body[Traded(i, p)].label /\ Traded(i, p) \in 1 .. n
  BY <1>2, <1>5, <1>7, <1>9, <1>11 DEF Traded, m
<1>13. \A p \in 1 .. n : x[p].label # Summary /\ x[p].label = Rung(style, Traded(i, p))
  BY <1>3, <1>12
<1>14. \A p \in 1 .. n : x[p].cells = body[p].cells
  BY <1>5, <1>7, <1>9, <1>11
<1>15. x[n + 1].label = Summary /\ x[n + 1].cells = <<>>
  BY <1>1, <1>5, <1>11
<1>16. /\ Len(DataRows(odd)) = n /\ \A p \in 1 .. n : DataRows(odd)[p] = x[p]
       /\ OddBody(DataRows(odd), t, style, metrics) => Odd(odd, t, style, metrics)
  BY <1>1, <1>10, <1>13, <1>15, NewBody
<1> HIDE DEF odd
<1>17. Swapped(DataRows(odd), t, style, metrics, i)
  <2>1. \A p \in 1 .. n : /\ DataRows(odd)[p].label = Rung(style, Traded(i, p))
                          /\ Len(DataRows(odd)[p].cells) = len
    BY <1>4a, <1>13, <1>14, <1>16
  <2>2. \A p \in 1 .. n : \A k \in 1 .. Width : CellsOf(DataRows(odd)[p], t, style, metrics, p, k)
    BY <1>4, <1>14, <1>16 DEF CellsOf
  <2> QED BY <1>16, <2>1, <2>2 DEF Swapped, n, len
<1>18. OddBody(DataRows(odd), t, style, metrics)
  BY <1>17 DEF OddBody
<1>19. Odd(odd, t, style, metrics)
  BY <1>16, <1>18
<1> QED BY <1>6, <1>19

LEMMA OtherRowsAreOdd ==
  ASSUME NEW t, NEW style, NEW metrics \in Layouts, NEW page, Clean(page, t, style, metrics),
         NEW odd \in OtherRows(page)
  PROVE  Odd(odd, t, style, metrics)
<1>1. CASE \E i \in OddRows : odd = [page EXCEPT !.body[i].label = Summary]
  <2>1. PICK i \in OddRows : odd = [page EXCEPT !.body[i].label = Summary]
    BY <1>1
  <2>2. Odd([page EXCEPT !.body[i].label = Summary], t, style, metrics)
    BY LostLabel
  <2> QED BY <2>1, <2>2
<1>2. CASE odd = [page EXCEPT !.body[1].cells = Front(page.body[1].cells)]
  <2>1. Odd([page EXCEPT !.body[1].cells = Front(page.body[1].cells)], t, style, metrics)
    BY ShortRow
  <2> QED BY <1>2, <2>1
<1>3. CASE \E i \in OddRows : odd = [page EXCEPT !.body = InsertAt(page.body, i, page.body[i])]
  BY <1>3, TwiceRow
<1>4. CASE \E i \in OddRows :
             odd = [page EXCEPT !.body[i].label = page.body[i + 1].label,
                                !.body[i + 1].label = page.body[i].label]
  <2>1. PICK i \in OddRows :
          odd = [page EXCEPT !.body[i].label = page.body[i + 1].label,
                             !.body[i + 1].label = page.body[i].label]
    BY <1>4
  <2>2. Odd([page EXCEPT !.body[i].label = page.body[i + 1].label,
                         !.body[i + 1].label = page.body[i].label], t, style, metrics)
    BY TradedLabels
  <2> QED BY <2>1, <2>2
<1> QED BY <1>1, <1>2, <1>3, <1>4 DEF OtherRows

\* Positions of the first group and of the others.
LEMMA Places ==
  ASSUME NEW metrics \in Layouts, NEW k \in 1 .. Width, NEW j \in 1 .. Len(metrics)
  PROVE  /\ Place(k, Len(metrics), j) \in 1 .. Width * Len(metrics)
         /\ k = 1 => Place(k, Len(metrics), j) = j
         /\ k # 1 => Place(k, Len(metrics), j) > Len(metrics)
<1> DEFINE w == Len(metrics)
<1>1. w \in Nat \ {0} /\ Width \in Nat \ {0}
  BY LayoutFacts, PortalAssumption
<1> HIDE DEF w
<1>2. k \in Nat /\ k - 1 \in Nat /\ k <= Width /\ Width \in Nat /\ w \in Nat /\ j \in 1 .. w
      /\ (k - 1) + 1 = k /\ 1 \in Nat /\ (k # 1 => 1 <= k - 1)
  BY <1>1, SMT DEF w
<1>3. (k - 1) * w \in Nat /\ k * w = (k - 1) * w + w /\ k * w <= Width * w /\ Width * w \in Nat
  BY <1>2, Multiples
<1>4. k # 1 => 1 * w <= (k - 1) * w
  BY <1>2, Multiples
<1>5. 1 * w = w /\ (k = 1 => (k - 1) * w = 0)
  BY <1>2, SMT
<1>6. Place(k, w, j) \in 1 .. Width * w
  BY <1>2, <1>3, SMT DEF Place
<1>7. k # 1 => Place(k, w, j) > w
  BY <1>2, <1>3, <1>4, <1>5, SMT DEF Place
<1> QED BY <1>2, <1>5, <1>6, <1>7 DEF Place, w

LEMMA OtherValuesAreOdd ==
  ASSUME NEW t, NEW style, NEW metrics \in Layouts, NEW page, Clean(page, t, style, metrics),
         NEW odd \in OtherValues(page, Len(metrics))
  PROVE  Odd(odd, t, style, metrics)
<1> DEFINE n == Rungs(style)
           w == Len(metrics)
           body == page.body
<1>0. BodyIs(page, t, style, metrics)
  BY BodyFacts
<1>1. n \in Nat /\ body \in Seq(Rows) /\ Len(body) = n + 1 /\ 1 \in 1 .. n
      /\ body[n + 1].label = Summary /\ body[n + 1].cells = <<>>
      /\ \A p \in 1 .. n + 1 : body[p] \in Rows
  BY <1>0, RungsType, ClockAssumption, SMT DEF BodyIs
<1>2. \A p \in 1 .. n : /\ body[p].label # Summary /\ body[p].label = Rung(style, p)
                        /\ Len(body[p].cells) = Width * w
  BY <1>0, Zenon DEF BodyIs
<1>3. \A p \in 1 .. n : \A k \in 1 .. Width : CellsOf(body[p], t, style, metrics, p, k)
  BY <1>0, Zenon DEF BodyIs
<1>4. ASSUME NEW S, NEW row \in Rows
      PROVE  /\ Erased(row, S) \in Rows /\ Erased(row, S).label = row.label
             /\ Len(Erased(row, S).cells) = Len(row.cells)
             /\ \A j \in 1 .. Len(row.cells) : Erased(row, S).cells[j] = IF j \in S THEN NULL ELSE row.cells[j]
  BY EmptyCells
<1>5. odd \in {[page EXCEPT !.body = [body EXCEPT ![1] = Erased(body[1], 1 .. Width * w)]],
               [page EXCEPT !.body = [i \in 1 .. Len(body) |-> Erased(body[i], 1 .. w)]]}
  BY DEF OtherValues, Erased
<1> HIDE DEF n, body
<1>6. \A p \in 1 .. n : p \in 1 .. n + 1
  BY <1>1, SMT
<1>7. CASE odd = [page EXCEPT !.body = [body EXCEPT ![1] = Erased(body[1], 1 .. Width * w)]]
  <2> DEFINE row == Erased(body[1], 1 .. Width * w)
             b == DataRows(odd)
  <2>1. /\ row \in Rows /\ row.label = Rung(style, 1) /\ row.label # Summary
        /\ Len(row.cells) = Width * w /\ \A j \in 1 .. Width * w : row.cells[j] = NULL
    BY <1>1, <1>2, <1>4, <1>6
  <2> HIDE DEF row
  <2>2. /\ Len(b) = n /\ \A p \in 1 .. n : b[p] = IF p = 1 THEN row ELSE body[p]
        /\ OddBody(b, t, style, metrics) => Odd(odd, t, style, metrics)
    <3>1. odd = [page EXCEPT !.body = [page.body EXCEPT ![1] = row]]
      BY <1>7 DEF row, body
    <3> DEFINE new == [page EXCEPT !.body = [page.body EXCEPT ![1] = row]]
    <3>2. /\ Len(DataRows(new)) = n
          /\ \A p \in 1 .. n : DataRows(new)[p] = IF p = 1 THEN row ELSE page.body[p]
          /\ OddBody(DataRows(new), t, style, metrics) => Odd(new, t, style, metrics)
      BY <1>1, <2>1, OneRow DEF n
    <3>3. odd = new
      BY <3>1
    <3> HIDE DEF new
    <3> QED BY <3>2, <3>3 DEF body
  <2> HIDE DEF b
  <2>3. \A k \in 1 .. Width : NoCells(row, metrics, k)
    BY <2>1, Places DEF NoCells
  <2>4. \A p \in 2 .. n : p \in 1 .. n /\ p # 1
    BY <1>1, SMT
  <2>5. \A p \in 1 .. n : b[p].label = Rung(style, p) /\ Len(b[p].cells) = Width * w
    BY <1>2, <2>1, <2>2
  <2>6. \A p \in 2 .. n : \A k \in 1 .. Width : CellsOf(b[p], t, style, metrics, p, k)
    BY <1>3, <2>2, <2>4
  <2>7. \A k \in 1 .. Width : NoCells(b[1], metrics, k)
    BY <1>1, <2>2, <2>3
  <2>8. \A p \in 1 .. n : p = 1 \/ p \in 2 .. n
    BY <1>1, SMT
  <2>9. Emptied(b, t, style, metrics)
    BY <2>2, <2>5, <2>6, <2>7, <2>8 DEF Emptied, n
  <2> QED BY <2>2, <2>9 DEF OddBody
<1>8. CASE odd = [page EXCEPT !.body = [i \in 1 .. Len(body) |-> Erased(body[i], 1 .. w)]]
  <2> DEFINE x == [i \in 1 .. n + 1 |-> Erased(body[i], 1 .. w)]
             b == DataRows(odd)
  <2>1. x \in Seq(Rows) /\ Len(x) = n + 1 /\ \A p \in 1 .. n + 1 : x[p] = Erased(body[p], 1 .. w)
    BY <1>1, <1>4
  <2>2. odd = [page EXCEPT !.body = x]
    BY <1>1, <1>8
  <2> HIDE DEF x
  <2>3. \A p \in 1 .. n : x[p].label # Summary /\ x[p].label = Rung(style, p)
                          /\ Len(x[p].cells) = Width * w
    BY <1>1, <1>2, <1>4, <1>6, <2>1
  <2>4. x[n + 1].label = Summary /\ x[n + 1].cells = <<>>
    <3>1. n + 1 \in 1 .. n + 1
      BY <1>1, SMT
    <3>2. x[n + 1].label = Summary /\ x[n + 1] \in Rows /\ Len(x[n + 1].cells) = Len(<<>>)
      BY <1>1, <1>4, <2>1, <3>1
    <3>3. x[n + 1].cells \in Seq(Cells) /\ Len(x[n + 1].cells) = 0
      BY <3>2, EmptySeq DEF Rows
    <3> QED BY <3>2, <3>3, EmptySeq
  <2>5. /\ Len(b) = n /\ \A p \in 1 .. n : b[p] = x[p]
        /\ OddBody(b, t, style, metrics) => Odd(odd, t, style, metrics)
    <3> DEFINE new == [page EXCEPT !.body = x]
    <3>1. /\ Len(DataRows(new)) = n /\ \A p \in 1 .. n : DataRows(new)[p] = x[p]
          /\ OddBody(DataRows(new), t, style, metrics) => Odd(new, t, style, metrics)
      BY <1>1, <2>1, <2>3, <2>4, NewBody
    <3>2. odd = new
      BY <2>2
    <3> HIDE DEF new
    <3> QED BY <3>1, <3>2
  <2> HIDE DEF b
  <2>6. \A p \in 1 .. n, k \in 1 .. Width, j \in 1 .. w :
          b[p].cells[Place(k, w, j)] = IF k = 1 THEN NULL ELSE body[p].cells[Place(k, w, j)]
    <3> SUFFICES ASSUME NEW p \in 1 .. n, NEW k \in 1 .. Width, NEW j \in 1 .. w
                 PROVE  b[p].cells[Place(k, w, j)]
                          = IF k = 1 THEN NULL ELSE body[p].cells[Place(k, w, j)]
      OBVIOUS
    <3> DEFINE c == Place(k, w, j)
    <3>1. c \in 1 .. Width * w /\ (k = 1 => c = j) /\ (k # 1 => c > w) /\ w \in Nat
      BY Places, LayoutFacts
    <3> HIDE DEF c, w
    <3>2. c \in 1 .. w <=> k = 1
      BY <3>1, SMT
    <3>3. b[p].cells[c] = IF c \in 1 .. w THEN NULL ELSE body[p].cells[c]
      BY <1>1, <1>2, <1>4, <1>6, <2>1, <2>5, <3>1
    <3> QED BY <3>2, <3>3 DEF c
  <2>7. \A p \in 1 .. n : NoCells(b[p], metrics, 1)
    <3>1. 1 \in 1 .. Width
      BY PortalAssumption, SMT
    <3> QED BY <2>6, <3>1 DEF NoCells
  <2>8. \A p \in 1 .. n : \A k \in 1 .. Width : k # 1 => CellsOf(b[p], t, style, metrics, p, k)
    BY <1>3, <2>6 DEF CellsOf
  <2>9. \A p \in 2 .. n : p \in 1 .. n
    BY <1>1, SMT
  <2>10. Emptied(b, t, style, metrics)
    BY <2>3, <2>5, <2>7, <2>8, <2>9 DEF Emptied, n
  <2> QED BY <2>5, <2>10 DEF OddBody
<1> QED BY <1>5, <1>7, <1>8

\* Every disturbed page is one of these.
LEMMA DisturbedIsOdd ==
  ASSUME NEW t \in FirstDay .. LastDay, NEW style, NEW metrics \in Layouts,
         NEW odd \in {CleanPage(t, style, metrics)}
                       \cup Disturbed(CleanPage(t, style, metrics), Len(metrics))
  PROVE  Odd(odd, t, style, metrics)
<1> DEFINE page == CleanPage(t, style, metrics)
<1>1. Clean(page, t, style, metrics)
  BY CleanPageIs
<1> HIDE DEF page
<1>2. odd = page \/ odd \in OtherHeader(page, Len(metrics)) \cup OtherRows(page)
                              \cup OtherValues(page, Len(metrics))
  BY DEF Disturbed, page
<1> QED BY <1>1, <1>2, CleanIsOdd, OtherHeaderIsOdd, OtherRowsAreOdd, OtherValuesAreOdd

-----------------------------------------------------------------------------
(* What a page can change *)

LEMMA DaysDisjoint ==
  ASSUME NEW d \in Int, NEW e \in Int, d # e, NEW u \in Instants(d)
  PROVE  u \notin Instants(e)
<1>1. ASSUME NEW a \in Int, NEW b \in Int, a < b
      PROVE  Wall(a + 1, 0) <= Wall(b, 0)
  <2>1. (b - a - 1) * DayLen >= 0
    BY <1>1, ClockAssumption, SMT
  <2> QED BY <2>1, ClockAssumption, SMT DEF Wall
<1>2. /\ u \in Int /\ Reading(u) \in Int
      /\ Wall(d, 0) <= Reading(u) /\ Reading(u) < Wall(d + 1, 0)
  BY DayBounds, Changes, ClockAssumption, SMT DEF Instants, Reading
<1>3. u \in Instants(e) => Wall(e, 0) <= Reading(u) /\ Reading(u) < Wall(e + 1, 0)
  BY DEF Instants
<1>4. Wall(d, 0) \in Int /\ Wall(d + 1, 0) \in Int /\ Wall(e, 0) \in Int /\ Wall(e + 1, 0) \in Int
  BY DayBounds
<1>5. d < e => Wall(d + 1, 0) <= Wall(e, 0)
  BY <1>1
<1>6. e < d => Wall(e + 1, 0) <= Wall(d, 0)
  BY <1>1
<1> QED BY <1>2, <1>3, <1>4, <1>5, <1>6, SMT

\* A slot that exists is an instant of its day.
LEMMA SlotInDay ==
  ASSUME NEW d \in Int, NEW m \in Slots, NEW pass, slot_exists(d, m, pass)
  PROVE  localize(d, m, pass) \in Instants(d)
<1> DEFINE w == Wall(d, m)
           u == localize(d, m, pass)
<1>1. m \in Int /\ 0 <= m /\ m < DayLen
  BY ClockAssumption, SMT DEF Slots
<1>2. w \in Int /\ w = Wall(d, 0) + m /\ Wall(d + 1, 0) = Wall(d, 0) + DayLen
      /\ Wall(d, 0) \in Int /\ Wall(d + 1, 0) \in Int
  BY <1>1, SlotOfDay, DayBounds
<1>3. u \in Int /\ w - Shift <= u /\ u <= w
  BY <1>2, InstantNear DEF localize
<1>4. Reading(u) = w
  BY DEF slot_exists
<1> HIDE DEF u, w
<1>5. u \in Wall(d, 0) - Shift .. Wall(d + 1, 0)
  BY <1>1, <1>2, <1>3, ClockAssumption, SMT
<1>6. Wall(d, 0) <= Reading(u) /\ Reading(u) < Wall(d + 1, 0)
  BY <1>1, <1>2, <1>4, ClockAssumption, SMT
<1> QED BY <1>5, <1>6 DEF Instants, u

\* New rows are instants of the days the columns name.
LEMMA NewRows ==
  ASSUME NEW D, NEW reference, Around(D, reference), NEW page, Names(page, D),
         parse_interval_grid(page, reference) # Refused, NEW table \in Tables
  PROVE  LET new == store_intervals(table, parse_interval_grid(page, reference).readings) IN
         /\ new \in Tables /\ DOMAIN table \subseteq DOMAIN new
         /\ \A u \in DOMAIN new \ DOMAIN table : \E d \in D : u \in Instants(d)
<1> DEFINE grid    == parse_interval_grid(page, reference)
           dates   == Dates(page, reference)
           body    == DataRows(page)
           metrics == Groups(page, Len(dates))[1]
           new     == store_intervals(table, grid.readings)
<1>1. Fits(page, D, body, metrics, dates) /\ ReadAs(grid, body, metrics, dates)
  BY ParseFacts
<1> HIDE DEF grid, dates, body, metrics
<1>2. grid.readings \in Seq(Parsed)
  BY <1>1 DEF ReadAs
<1>3. new \in Tables /\ Stores(table, grid.readings, Len(grid.readings), new)
  BY <1>2, StoreFacts
<1> HIDE DEF new
<1>4. DOMAIN new = DOMAIN table \cup {grid.readings[x].start : x \in 1 .. Len(grid.readings)}
  BY <1>3 DEF Stores
<1>5. ASSUME NEW x \in 1 .. Len(grid.readings)
      PROVE  \E d \in D : grid.readings[x].start \in Instants(d)
  <2>1. PICK k \in 1 .. Len(dates), i \in 1 .. Len(body) :
          /\ grid.readings[x] = Entry(body, metrics, dates, k, i)
          /\ Entry(body, metrics, dates, k, i).exists
    BY <1>1 DEF ReadAs
  <2>2. dates[k] \in D /\ dates[k] \in Int /\ body[i] \in DataRow
    BY <1>1, AroundType, LenProperties DEF Fits
  <2>3. body[i].label \in Slots
    BY <2>2 DEF DataRow, Slots
  <2>4. /\ slot_exists(dates[k], body[i].label, Occurrence(body, i))
        /\ grid.readings[x].start = localize(dates[k], body[i].label, Occurrence(body, i))
    BY <2>1 DEF Entry, ReadRow
  <2> QED BY <2>2, <2>3, <2>4, SlotInDay
<1> QED BY <1>3, <1>4, <1>5 DEF new, grid

-----------------------------------------------------------------------------
(* Fetches *)

GridType ==
  /\ layout \in Layouts
  /\ today \in FirstDay .. LastDay
  /\ rows \in Tables

\* A fetch, of a clean page or of another one, and what its page can be.
Fetches(page, clean, style, late) ==
  /\ Fetch(page, clean, today + late)
  /\ Odd(page, today, style, layout)
  /\ style \in Styles(ToSet(Shown(today))) \cup Faithful(ToSet(Shown(today)))
  /\ clean => /\ style \in Faithful(ToSet(Shown(today)))
              /\ Clean(page, today, style, layout)
  /\ ~clean => late = 0

\* A fetch reads a clean page in a faithful style, or a disturbed one.
LEMMA FetchIs ==
  ASSUME GridType, FetchClean \/ FetchOdd
  PROVE  \E late \in {0, 1} : \E page, clean, style : Fetches(page, clean, style, late)
<1>1. CASE FetchClean
  <2>1. PICK style \in Faithful(ToSet(Shown(today))), late \in {0, 1} :
          Fetch(CleanPage(today, style, layout), TRUE, today + late)
    BY <1>1 DEF FetchClean
  <2>2. Clean(CleanPage(today, style, layout), today, style, layout)
    BY CleanPageIs DEF GridType
  <2>3. Odd(CleanPage(today, style, layout), today, style, layout)
    BY <2>2, CleanIsOdd
  <2>4. Fetches(CleanPage(today, style, layout), TRUE, style, late)
    BY <2>1, <2>2, <2>3 DEF Fetches
  <2> QED BY <2>4
<1>2. CASE FetchOdd
  <2>1. PICK style \in Styles(ToSet(Shown(today))) :
          \E odd \in {CleanPage(today, style, layout)}
                       \cup Disturbed(CleanPage(today, style, layout), Len(layout)) :
            Fetch(odd, FALSE, today)
    BY <1>2 DEF FetchOdd
  <2>2. PICK odd \in {CleanPage(today, style, layout)}
                       \cup Disturbed(CleanPage(today, style, layout), Len(layout)) :
          Fetch(odd, FALSE, today)
    BY <2>1
  <2>3. Odd(odd, today, style, layout)
    BY DisturbedIsOdd DEF GridType
  <2>4. today + 0 = today /\ 0 \in {0, 1}
    BY GridAssumption, SMT DEF GridType
  <2>5. Fetches(odd, FALSE, style, 0)
    BY <2>1, <2>2, <2>3, <2>4 DEF Fetches
  <2> QED BY <2>4, <2>5
<1> QED BY <1>1, <1>2

\* A fetch adds rows of the days on the page only.
LEMMA FetchAdds ==
  ASSUME GridType, FetchClean \/ FetchOdd
  PROVE  /\ GridType' /\ DOMAIN rows \subseteq DOMAIN rows'
         /\ \A u \in DOMAIN rows' \ DOMAIN rows :
              \E d \in Oldest(today) .. Newest(today) : u \in Instants(d)
<1>0. PICK late \in {0, 1} : \E page, clean, style : Fetches(page, clean, style, late)
  BY FetchIs
<1>1. PICK page, clean, style :
        Fetch(page, clean, today + late) /\ Odd(page, today, style, layout)
  BY <1>0 DEF Fetches
<1> DEFINE D == Oldest(today) .. Newest(today)
           grid == parse_interval_grid(page, today + late)
<1>2. Around(D, today + late) /\ Names(page, D)
  BY <1>1, DaysAround DEF GridType, Odd
<1>3. layout' = layout /\ today' = today
      /\ rows' = IF grid = Refused THEN rows ELSE store_intervals(rows, grid.readings)
  BY <1>1 DEF Fetch
<1>4. CASE grid = Refused
  BY <1>3, <1>4 DEF GridType
<1>5. CASE grid # Refused
  <2>1. rows \in Tables
    BY DEF GridType
  <2> HIDE DEF D
  <2>2. LET new == store_intervals(rows, grid.readings) IN
        /\ new \in Tables /\ DOMAIN rows \subseteq DOMAIN new
        /\ \A u \in DOMAIN new \ DOMAIN rows : \E d \in D : u \in Instants(d)
    BY <1>2, <1>5, <2>1, NewRows
  <2>3. rows' = store_intervals(rows, grid.readings)
    BY <1>3, <1>5
  <2> HIDE DEF grid
  <2>4. rows' \in Tables /\ DOMAIN rows \subseteq DOMAIN rows'
        /\ \A u \in DOMAIN rows' \ DOMAIN rows : \E d \in D : u \in Instants(d)
    BY <2>2, <2>3
  <2> QED BY <1>3, <2>4 DEF GridType, D
<1> QED BY <1>4, <1>5

LEMMA InitTyped == Init => GridType
<1> SUFFICES ASSUME Init  PROVE GridType
  OBVIOUS
<1>1. today \in FirstDay .. LastDay
  BY GridAssumption, SMT DEF Init
<1>2. rows \in Tables
  <2>1. rows = [u \in {} |-> NULL]
    BY DEF Init
  <2>2. rows = [u \in DOMAIN rows |-> rows[u]] /\ DOMAIN rows = {}
    BY <2>1
  <2> QED BY <2>2, TableType
<1> QED BY <1>1, <1>2 DEF Init, GridType

LEMMA DayTyped == GridType /\ DayPasses => GridType'
<1> SUFFICES ASSUME GridType, DayPasses  PROVE GridType'
  OBVIOUS
<1>1. today' \in FirstDay .. LastDay
  BY GridAssumption, SMT DEF GridType, DayPasses
<1> QED BY <1>1 DEF GridType, DayPasses

LEMMA GridTyped == Spec => []GridType
<1>1. GridType /\ [Next]_vars => GridType'
  <2> SUFFICES ASSUME GridType, [Next]_vars  PROVE GridType'
    OBVIOUS
  <2>1. CASE UNCHANGED vars
    BY <2>1 DEF vars, GridType
  <2> QED BY <2>1, FetchAdds, DayTyped DEF Next
<1> QED BY <1>1, InitTyped, PTL DEF Spec

\* What the gap report calls permanently missing never arrives: no page, clean or
\* disturbed, adds an interval of a day before its oldest column, in whichever
\* year the column is resolved (gaps, infer_year, parse_interval_grid).
THEOREM GoneForGood == Spec => GoneIsGone
<1>1. GridType /\ [Next]_vars => [Gone \cap DOMAIN rows' = {}]_vars
  <2> SUFFICES ASSUME GridType, Next, NEW d \in ReportDays, ~recoverable(d),
                      NEW u \in Missing(d), u \in DOMAIN rows'
               PROVE  FALSE
    BY DEF Gone
  <2>1. d \in Int
    BY DEF ReportDays
  <2>2. u \in Instants(d) /\ u \notin DOMAIN rows
    BY <2>1, MissingOfDay
  <2>3. FetchClean \/ FetchOdd
    BY <2>2 DEF Next, DayPasses
  <2>4. PICK e \in Oldest(today) .. Newest(today) : u \in Instants(e)
    BY <2>2, <2>3, FetchAdds
  <2>5. e \in Int /\ d < e
    <3>1. today \in Int /\ Lag \in Int /\ Width \in Int
      BY GridAssumption, PortalAssumption, SMT DEF GridType
    <3>2. e \in Int /\ Oldest(today) <= e
      BY <3>1, SMT DEF Oldest, Newest
    <3> QED BY <2>1, <3>1, <3>2, SMT DEF recoverable, Oldest
  <2> QED BY <2>1, <2>2, <2>4, <2>5, DaysDisjoint
<1> QED BY <1>1, GridTyped, PTL DEF Spec, GoneIsGone

-----------------------------------------------------------------------------
(* The headers of an odd page *)

\* The columns name the shown days, which are resolved to themselves unless the
\* weekday row is wrong.
LEMMA DatesShown ==
  ASSUME NEW t \in FirstDay .. LastDay, NEW late \in {0, 1}, NEW page \in Pages,
         Len(page.columns) = Width,
         \A k \in 1 .. Width : page.columns[k].label = Label(Shown(t)[k])
  PROVE  /\ Len(Dates(page, t + late)) = Width /\ DOMAIN Dates(page, t + late) = 1 .. Width
         /\ \A k \in 1 .. Width :
              /\ Dates(page, t + late)[k] \in {Shown(t)[k], Refused}
              /\ page.columns[k].weekday = Weekday(Shown(t)[k])
                   => Dates(page, t + late)[k] = Shown(t)[k]
              /\ page.above >= 2 /\ page.columns[k].weekday \notin {NoWeekday, Weekday(Shown(t)[k])}
                   => Dates(page, t + late)[k] = Refused
<1> DEFINE T == {c \in ToSet(page.columns) : c.label # NULL}
           r == t + late
           w(k) == IF page.above >= 2 THEN page.columns[k].weekday ELSE NoWeekday
<1>1. Around(Oldest(t) .. Newest(t), r) /\ t \in Int /\ Width \in Nat \ {0}
      /\ \A k \in 1 .. Width : Shown(t)[k] \in Oldest(t) .. Newest(t)
  BY DaysAround, ShownDays
<1>2. page.columns \in Seq(Columns) /\ DOMAIN page.columns = 1 .. Width
  BY LenProperties DEF Pages
<1>3. \A i \in 1 .. Len(page.columns) : page.columns[i] \in T <=> i <= Width
  <2> SUFFICES ASSUME NEW i \in 1 .. Width  PROVE page.columns[i] \in T
    BY <1>1, SMT
  <2>1. page.columns[i].label # NULL
    BY <1>1, LabelType
  <2> QED BY <1>2, <2>1 DEF ToSet
<1>4. Width \in 0 .. Len(page.columns)
  BY <1>1, SMT
<1> HIDE DEF T
<1>5. Kept(page.columns, T) = [k \in 1 .. Width |-> page.columns[k]]
  BY <1>2, <1>3, <1>4, KeptPrefix
<1> DEFINE dated == Kept(page.columns, T)
<1>6. Len(dated) = Width /\ \A k \in 1 .. Width : dated[k] = page.columns[k]
  BY <1>1, <1>5
<1>7. Dates(page, r) = [k \in 1 .. Len(dated) |->
         infer_year(dated[k].label,
                    IF page.above >= 2 THEN dated[k].weekday ELSE NoWeekday, r)]
  BY DEF Dates, T
<1> HIDE DEF dated
<1>8. Dates(page, r) = [k \in 1 .. Width |-> infer_year(Label(Shown(t)[k]), w(k), r)]
  BY <1>6, <1>7
<1> HIDE DEF w, r
<1>9. ASSUME NEW k \in 1 .. Width
      PROVE  /\ Dates(page, r)[k] = infer_year(Label(Shown(t)[k]), w(k), r)
             /\ infer_year(Label(Shown(t)[k]), w(k), r) \in {Shown(t)[k], Refused}
             /\ w(k) \in {NoWeekday, Weekday(Shown(t)[k])}
                  => infer_year(Label(Shown(t)[k]), w(k), r) = Shown(t)[k]
             /\ w(k) \notin {NoWeekday, Weekday(Shown(t)[k])}
                  => infer_year(Label(Shown(t)[k]), w(k), r) = Refused
  <2>1. r \in Int /\ (\A e \in Window(r) : Known(e)) /\ Shown(t)[k] \in Window(r)
    BY <1>1 DEF Around
  <2> QED BY <1>8, <2>1, InferExact, InferOrRefuse
<1>10. DOMAIN Dates(page, r) = 1 .. Width /\ Len(Dates(page, r)) = Width
  BY <1>1, <1>8
<1> QED BY <1>9, <1>10 DEF w, r

LEMMA OfMultiple ==
  ASSUME NEW n \in Nat \ {0}, NEW w \in Nat
  PROVE  (n * w) % n = 0
<1> DEFINE p == n * w
           q == p \div n
           r == p % n
<1>1. p \in Nat
  BY SMT
<1>2. q \in Int /\ r \in Int /\ 0 <= r /\ r < n /\ p = n * q + r
  <2> HIDE DEF p
  <2> QED BY <1>1, SMT
<1> HIDE DEF q, r
<1>3. r = n * (w - q)
  BY <1>2, SMT
<1>4. w - q >= 1 => n * (w - q) >= n
  BY <1>2, SMT
<1>5. w - q <= -1 => n * (w - q) <= -n
  BY <1>2, SMT
<1>6. w - q = 0 => n * (w - q) = 0
  BY <1>2, SMT
<1>7. w - q \in Int
  BY <1>2, SMT
<1>8. r = 0
  BY <1>2, <1>3, <1>4, <1>5, <1>6, <1>7, SMT
<1> QED BY <1>8 DEF r, p

\* The metrics of a layout.
Meanings(metrics) == [j \in 1 .. Len(metrics) |-> canonical_metric(metrics[j])]

LEMMA MeaningsType ==
  ASSUME NEW metrics \in Layouts
  PROVE  /\ Meanings(metrics) \in Seq(Metrics) /\ Len(Meanings(metrics)) = Len(metrics)
         /\ DOMAIN Meanings(metrics) = 1 .. Len(metrics)
         /\ \A j \in 1 .. Len(metrics) : Meanings(metrics)[j] = canonical_metric(metrics[j])
BY LayoutFacts, CanonicalType DEF Meanings

\* The groups of columns of width w.
LEMMA GroupsOf ==
  ASSUME NEW page \in Pages, NEW n \in Nat \ {0}, NEW w \in Nat, Len(page.headers) = n * w
  PROVE  /\ Len(page.headers) % n = 0 /\ DOMAIN Groups(page, n) = 1 .. n
         /\ \A k \in 1 .. n :
              Groups(page, n)[k] = [j \in 1 .. w |-> canonical_metric(page.headers[Place(k, w, j)])]
<1> DEFINE v == Len(page.headers) \div n
<1>1. Len(page.headers) % n = 0
  BY OfMultiple
<1>2. /\ v \in Nat /\ n * w = n * v
      /\ \A i \in 1 .. n :
           Groups(page, n)[i] = [j \in 1 .. v |-> canonical_metric(page.headers[(i - 1) * v + j])]
  BY <1>1, GroupsAre
<1>3. DOMAIN Groups(page, n) = 1 .. n
  BY DEF Groups
<1> HIDE DEF v
<1>4. v = w
  <2>1. v >= w + 1 => n * (v - w) >= n
    BY <1>2, SMT
  <2>2. w >= v + 1 => n * (w - v) >= n
    BY <1>2, SMT
  <2> QED BY <1>2, <2>1, <2>2, SMT
<1> QED BY <1>1, <1>2, <1>3, <1>4 DEF Place

LEMMA CleanGroups ==
  ASSUME NEW page \in Pages, NEW metrics \in Layouts, CleanHeaders(page, metrics)
  PROVE  /\ Len(page.headers) % Width = 0 /\ Len(page.headers) > 0
         /\ DOMAIN Groups(page, Width) = 1 .. Width
         /\ \A k \in 1 .. Width : Groups(page, Width)[k] = Meanings(metrics)
<1> DEFINE w == Len(metrics)
<1>1. w \in Nat \ {0} /\ Width \in Nat \ {0} /\ Len(page.headers) = Width * w
  BY LayoutFacts, PortalAssumption DEF CleanHeaders
<1>2. \A k \in 1 .. Width, j \in 1 .. w : page.headers[Place(k, w, j)] = metrics[j]
  BY DEF CleanHeaders
<1>3. Len(page.headers) > 0
  BY <1>1, SMT
<1> HIDE DEF w
<1>4. /\ Len(page.headers) % Width = 0 /\ DOMAIN Groups(page, Width) = 1 .. Width
      /\ \A k \in 1 .. Width :
           Groups(page, Width)[k] = [j \in 1 .. w |-> canonical_metric(page.headers[Place(k, w, j)])]
  BY <1>1, GroupsOf
<1> QED BY <1>2, <1>3, <1>4 DEF Meanings, w

\* Of a page that is read, all groups are the first one, and known.
LEMMA SameGroups ==
  ASSUME NEW page, NEW dates, HeaderFits(page, dates)
  PROVE  /\ \A k \in DOMAIN Groups(page, Len(dates)), i \in DOMAIN Groups(page, Len(dates)) :
              Groups(page, Len(dates))[k] = Groups(page, Len(dates))[i]
         /\ \A k \in DOMAIN Groups(page, Len(dates)) :
              \A j \in DOMAIN Groups(page, Len(dates))[k] :
                Groups(page, Len(dates))[k][j] # "unknown"
<1> DEFINE g == Groups(page, Len(dates))
<1>1. PICK m \in ToSet(g) : ToSet(g) = {m} /\ "unknown" \notin ToSet(m)
  BY DEF HeaderFits
<1> HIDE DEF g
<1>2. \A k \in DOMAIN g : g[k] = m
  BY <1>1 DEF ToSet
<1>3. \A j \in DOMAIN m : m[j] # "unknown"
  BY <1>1 DEF ToSet
<1> QED BY <1>2, <1>3 DEF g

\* A clean page has the headers of a table that is read.
LEMMA CleanHeaderFits ==
  ASSUME NEW t \in FirstDay .. LastDay, NEW late \in {0, 1}, NEW metrics \in Layouts,
         NEW style, NEW page, Clean(page, t, style, metrics)
  PROVE  /\ Len(Dates(page, t + late)) = Width /\ DOMAIN Dates(page, t + late) = 1 .. Width
         /\ \A k \in 1 .. Width : Dates(page, t + late)[k] = Shown(t)[k]
         /\ Groups(page, Width)[1] = Meanings(metrics)
         /\ HeaderFits(page, Dates(page, t + late))
<1> DEFINE dates == Dates(page, t + late)
           g == Groups(page, Width)
           m == Meanings(metrics)
<1>1. page \in Pages /\ page.above = 3 /\ CleanColumns(page, t) /\ CleanHeaders(page, metrics)
  BY DEF Clean, Names
<1>2. Len(dates) = Width /\ DOMAIN dates = 1 .. Width /\ \A k \in 1 .. Width : dates[k] = Shown(t)[k]
  <2>1. /\ Len(page.columns) = Width
        /\ \A k \in 1 .. Width : page.columns[k].label = Label(Shown(t)[k])
        /\ \A k \in 1 .. Width : page.columns[k].weekday = Weekday(Shown(t)[k])
    BY <1>1 DEF CleanColumns
  <2>2. /\ Len(dates) = Width /\ DOMAIN dates = 1 .. Width
        /\ \A k \in 1 .. Width :
             /\ dates[k] \in {Shown(t)[k], Refused}
             /\ page.columns[k].weekday = Weekday(Shown(t)[k]) => dates[k] = Shown(t)[k]
             /\ page.above >= 2 /\ page.columns[k].weekday \notin {NoWeekday, Weekday(Shown(t)[k])}
                  => dates[k] = Refused
    BY <1>1, <2>1, DatesShown, Zenon
  <2> HIDE DEF dates
  <2> QED BY <2>1, <2>2
<1>3. /\ Len(page.headers) % Width = 0 /\ Len(page.headers) > 0
      /\ DOMAIN g = 1 .. Width /\ \A k \in 1 .. Width : g[k] = m
  BY <1>1, CleanGroups
<1>4. 1 \in 1 .. Width /\ \A k \in 1 .. Width : Shown(t)[k] \in Int
  <2>1. t \in Int /\ 1 \in 1 .. Width
    BY DaysAround, PortalAssumption, SMT
  <2> QED BY <2>1, ShownDays
<1> HIDE DEF dates, g
<1>5. dates # <<>> /\ Refused \notin ToSet(dates)
  <2>1. \A k \in 1 .. Width : dates[k] # Refused
    BY <1>2, <1>4, CalendarAssumption
  <2> QED BY <1>2, <1>4, <2>1 DEF ToSet
<1>6. ToSet(g) = {m}
  BY <1>3, <1>4 DEF ToSet
<1>7. DOMAIN m = 1 .. Len(metrics) /\ \A j \in 1 .. Len(metrics) : m[j] = canonical_metric(metrics[j])
  BY MeaningsType
<1> HIDE DEF m
<1>8. "unknown" \notin ToSet(m) /\ {"kwh_delivered", "kwh"} \cap ToSet(m) # {}
  <2>1. \A j \in DOMAIN m : m[j] # "unknown"
    BY <1>7, LayoutFacts
  <2>2. \E j \in DOMAIN m : m[j] \in {"kwh", "kwh_delivered"}
    BY <1>7, LayoutFacts
  <2> QED BY <2>1, <2>2 DEF ToSet
<1>9. Len(page.headers) % Len(dates) = 0 /\ Groups(page, Len(dates)) = g /\ page.above >= 1
  BY <1>1, <1>2, <1>3, SMT DEF g
<1>10. HeaderFits(page, dates)
  BY <1>3, <1>5, <1>6, <1>8, <1>9 DEF HeaderFits
<1> QED BY <1>2, <1>3, <1>4, <1>10 DEF dates, g, m

-----------------------------------------------------------------------------
(* The rows of a clean page *)

LEMMA MidnightOffset ==
  ASSUME NEW d \in Int
  PROVE  Offset(Wall(d, 0), 0) = IF SpringDay < d /\ d <= FallDay THEN Shift ELSE 0
<1>1. ASSUME NEW e \in Int
      PROVE  d <= e \/ e * DayLen + DayLen <= d * DayLen
  <2> SUFFICES ASSUME e < d  PROVE e * DayLen + DayLen <= d * DayLen
    BY SMT
  <2>1. (d - e - 1) * DayLen >= 0
    BY ClockAssumption, SMT
  <2> QED BY <2>1, ClockAssumption, SMT
<1>2. ASSUME NEW e \in Int
      PROVE  d > e \/ d * DayLen <= e * DayLen
  <2> SUFFICES ASSUME d <= e  PROVE d * DayLen <= e * DayLen
    BY SMT
  <2>1. (e - d) * DayLen >= 0
    BY ClockAssumption, SMT
  <2> QED BY <2>1, ClockAssumption, SMT
<1>3. SpringDay \in Int /\ FallDay \in Int
  BY ClockAssumption
<1> QED BY <1>1, <1>2, <1>3, ClockAssumption, SMT DEF Wall, SpringAt, FallAt, Offset

LEMMA DayLengths ==
  ASSUME NEW d \in Int
  PROVE  day_length(d) = IF d = SpringDay THEN DayLen - Shift
                         ELSE IF d = FallDay THEN DayLen + Shift ELSE DayLen
<1> DEFINE e == d + 1
<1>1. e \in Int /\ Wall(e, 0) = Wall(d, 0) + DayLen /\ Wall(d, 0) \in Int
  BY DayBounds
<1> HIDE DEF e
<1>2. /\ Offset(Wall(d, 0), 0) = IF SpringDay < d /\ d <= FallDay THEN Shift ELSE 0
      /\ Offset(Wall(e, 0), 0) = IF SpringDay < e /\ e <= FallDay THEN Shift ELSE 0
  BY <1>1, MidnightOffset
<1>3. day_length(d) = (Wall(e, 0) - Offset(Wall(e, 0), 0)) - (Wall(d, 0) - Offset(Wall(d, 0), 0))
  BY DEF day_length, local_midnight_utc, Instant, e
<1> QED BY <1>1, <1>2, <1>3, ClockAssumption, SMT DEF e

LEMMA LargestIs ==
  ASSUME NEW S \in SUBSET Int, NEW x \in S, \A y \in S : y <= x
  PROVE  Max(S) = x
<1>1. \A y \in S : x >= y
  BY SMT
<1>2. \A y \in S : (\A z \in S : y >= z) => y = x
  BY SMT
<1> QED BY <1>1, <1>2 DEF Max

\* The rows at which the labels of a style turn back.
LEMMA Descents ==
  ASSUME NEW style, NEW b, Len(b) = Rungs(style),
         \A i \in 1 .. Rungs(style) : b[i].label = Rung(style, i)
  PROVE  Backward(b) \subseteq IF style = "block" THEN {Change}
                               ELSE IF style = "appended" THEN {DayLen} ELSE {}
<1> SUFFICES ASSUME NEW i \in Backward(b)
             PROVE  \/ style = "block" /\ i = Change
                    \/ style = "appended" /\ i = DayLen
  BY Zenon
<1>1. Rungs(style) \in Nat
  BY RungsType
<1>2. i \in 1 .. Rungs(style) - 1 /\ b[i + 1].label < b[i].label
  BY DEF Backward
<1>3. i \in Int /\ i \in 1 .. Rungs(style) /\ i + 1 \in 1 .. Rungs(style)
  BY <1>1, <1>2, SMT
<1>4. Rung(style, i + 1) < Rung(style, i)
  BY <1>2, <1>3
<1>5. CASE style = "block"
  <2>1. i = Change
    BY <1>3, <1>4, <1>5, ClockAssumption, SMT DEF Rung
  <2> QED BY <1>5, <2>1
<1>6. CASE style = "pairs"
  <2>1. FALSE
    BY <1>3, <1>4, <1>6, ClockAssumption, SMT DEF Rung
  <2> QED BY <2>1
<1>7. CASE style = "appended"
  <2>1. i = DayLen
    BY <1>3, <1>4, <1>7, ClockAssumption, SMT DEF Rung
  <2> QED BY <1>7, <2>1
<1>8. CASE style \notin {"block", "pairs", "appended"}
  <2>1. FALSE
    BY <1>3, <1>4, <1>8, SMT DEF Rung
  <2> QED BY <2>1
<1> QED BY <1>5, <1>6, <1>7, <1>8

\* The columns of a page, in the order of its dates.
DatesAre(dates, t) ==
  /\ Len(dates) = Width /\ DOMAIN dates = 1 .. Width
  /\ \A k \in 1 .. Width : dates[k] = Shown(t)[k]

LEMMA DatesSet ==
  ASSUME NEW t \in Int, NEW dates, DatesAre(dates, t)
  PROVE  ToSet(dates) = ToSet(Shown(t)) /\ ToSet(dates) = Oldest(t) .. Newest(t)
<1>1. DOMAIN Shown(t) = 1 .. Width /\ ToSet(Shown(t)) = Oldest(t) .. Newest(t)
  BY ShownDays
<1>2. DOMAIN dates = 1 .. Width /\ \A k \in 1 .. Width : dates[k] = Shown(t)[k]
  BY DEF DatesAre
<1> QED BY <1>1, <1>2, Zenon DEF ToSet

\* In a week without a clock change all days are equally long.
LEMMA PlainWeek ==
  ASSUME NEW t \in Int, NEW dates, DatesAre(dates, t), NEW b,
         ~has_dst_transition(ToSet(dates))
  PROVE  CountIsOff(b, dates) <=> Len(b) # DayLen
<1> DEFINE S == {day_length(d) : d \in ToSet(dates)}
<1>1. \A d \in ToSet(dates) : day_length(d) = DayLen
  BY DEF has_dst_transition
<1>2. 1 \in 1 .. Width /\ Shown(t)[1] \in ToSet(dates)
  <2>1. 1 \in 1 .. Width
    BY PortalAssumption, SMT
  <2> QED BY <2>1 DEF DatesAre, ToSet
<1>3. S = {DayLen}
  BY <1>1, <1>2
<1> HIDE DEF S
<1>4. DayLen \in Int /\ S \in SUBSET Int /\ DayLen \in S /\ \A y \in S : y <= DayLen
  BY <1>3, ClockAssumption, SMT
<1>5. Max(S) = DayLen
  BY <1>4, LargestIs
<1> QED BY <1>5 DEF CountIsOff, S

\* A week with the long day has a transition.
LEMMA FallWeek ==
  ASSUME NEW t \in Int, NEW dates, DatesAre(dates, t)
  PROVE  FallDay \in ToSet(Shown(t)) => has_dst_transition(ToSet(dates))
<1>1. FallDay \in Int /\ day_length(FallDay) = DayLen + Shift
  BY DayLengths, ClockAssumption, SMT
<1>2. day_length(FallDay) # DayLen
  BY <1>1, ClockAssumption, SMT
<1>3. ToSet(dates) = ToSet(Shown(t))
  BY DatesSet
<1> QED BY <1>2, <1>3 DEF has_dst_transition

LEMMA CleanRowsFit ==
  ASSUME NEW t \in Int, NEW dates, DatesAre(dates, t), NEW metrics \in Layouts,
         NEW style \in Faithful(ToSet(Shown(t))), NEW b, b \in Seq(DataRow),
         Emptied(b, t, style, metrics)
  PROVE  RowsFit(b, dates, Width * Len(metrics))
<1> DEFINE dst == has_dst_transition(ToSet(dates))
           turns == Backward(b)
<1>1. /\ Len(b) = Rungs(style)
      /\ \A i \in 1 .. Rungs(style) : /\ b[i].label = Rung(style, i)
                                      /\ Len(b[i].cells) = Width * Len(metrics)
  BY DEF Emptied
<1>2. DOMAIN b = 1 .. Rungs(style) /\ Rungs(style) \in Nat /\ DayLen <= Rungs(style)
  BY <1>1, LenProperties, RungsType
<1>3. b # <<>>
  <2>1. Len(b) # 0
    BY <1>1, <1>2, ClockAssumption, SMT
  <2> QED BY <2>1, EmptySeq
<1>4. turns \subseteq IF style = "block" THEN {Change}
                      ELSE IF style = "appended" THEN {DayLen} ELSE {}
  BY <1>1, Descents
<1>5. FallDay \notin ToSet(Shown(t)) => style = "single" /\ Rungs(style) = DayLen
  BY DEF Faithful, Rungs
<1>6. FallDay \in ToSet(Shown(t)) => dst
  BY FallWeek
<1>7. CountIsOff(b, dates) => dst
  <2>1. ~dst => Len(b) = DayLen
    BY <1>1, <1>5, <1>6
  <2> QED BY <2>1, PlainWeek
<1> HIDE DEF dst
<1>8. turns # {} => dst /\ Cardinality(turns) = 1
  <2> SUFFICES ASSUME turns # {}  PROVE dst /\ Cardinality(turns) = 1
    OBVIOUS
  <2> HIDE DEF turns
  <2>1. style # "single"
    BY <1>4
  <2>2. turns = {Change} \/ turns = {DayLen}
    BY <1>4
  <2>3. Cardinality(turns) = 1
    BY <2>2, FS_Singleton
  <2> QED BY <1>5, <1>6, <2>1, <2>3
<1>9. \A i \in DOMAIN b : Len(b[i].cells) >= Width * Len(metrics)
  <2>1. Width * Len(metrics) \in Int
    BY LayoutFacts, PortalAssumption, SMT
  <2> QED BY <1>1, <1>2, <2>1
<1> QED BY <1>3, <1>7, <1>8, <1>9 DEF RowsFit, dst, turns

-----------------------------------------------------------------------------
(* The rows of a slot *)

LEMMA FirstRow ==
  ASSUME NEW style, NEW m \in Slots
  PROVE  \E i \in 1 .. Rungs(style) :
           Rung(style, i) = m /\ \A j \in 1 .. i - 1 : Rung(style, j) # m
<1>0. m \in Int /\ 0 <= m /\ m < DayLen
  BY ClockAssumption, SMT DEF Slots
<1>1. CASE style = "block"
  <2> DEFINE i == IF m < Change THEN m + 1 ELSE m + 1 + Shift
  <2>1. i \in 1 .. Rungs(style) /\ Rung(style, i) = m
    BY <1>0, <1>1, ClockAssumption, SMT DEF Rung, Rungs
  <2>2. \A j \in 1 .. i - 1 : Rung(style, j) # m
    BY <1>0, <1>1, ClockAssumption, SMT DEF Rung
  <2> QED BY <2>1, <2>2
<1>2. CASE style = "pairs"
  <2> DEFINE i == IF m < Change - Shift THEN m + 1
                  ELSE IF m < Change THEN 2 * m + 1 - (Change - Shift)
                  ELSE m + 1 + Shift
  <2>1. i \in 1 .. Rungs(style)
    BY <1>0, <1>2, ClockAssumption, SMT DEF Rungs
  <2>2. Rung(style, i) = m
    BY <1>0, <1>2, ClockAssumption, SMT DEF Rung
  <2>3. \A j \in 1 .. i - 1 : Rung(style, j) # m
    BY <1>0, <1>2, ClockAssumption, SMT DEF Rung
  <2> QED BY <2>1, <2>2, <2>3
<1>3. CASE style \notin {"block", "pairs"}
  <2> DEFINE i == m + 1
  <2>1. i \in 1 .. Rungs(style)
    BY <1>0, <1>3, ClockAssumption, SMT DEF Rungs
  <2>2. i \in Int /\ i <= DayLen /\ i - 1 = m
    BY <1>0, ClockAssumption, SMT
  <2> HIDE DEF i
  <2>3. \A j \in 1 .. i : Rung(style, j) = j - 1
    BY <1>3, <2>2, ClockAssumption, SMT DEF Rung
  <2>4. i \in 1 .. i /\ \A j \in 1 .. i - 1 : j \in 1 .. i /\ j - 1 # m
    BY <2>1, <2>2, SMT
  <2> QED BY <2>1, <2>2, <2>3, <2>4
<1> QED BY <1>1, <1>2, <1>3

\* Where the long day is rendered in full, a repeated slot has a second row.
LEMMA SecondRow ==
  ASSUME NEW style \in {"block", "pairs", "appended"}, NEW m \in Change - Shift .. Change - 1
  PROVE  \E i \in 1 .. Rungs(style) :
           Rung(style, i) = m /\ \E j \in 1 .. i - 1 : Rung(style, j) = m
<1>0. m \in Int /\ Change - Shift <= m /\ m < Change
  BY ClockAssumption, SMT
<1>1. CASE style = "block"
  <2> DEFINE i == m + 1 + Shift
             j == m + 1
  <2>1. i \in 1 .. Rungs(style) /\ Rung(style, i) = m /\ j \in 1 .. i - 1 /\ Rung(style, j) = m
    BY <1>0, <1>1, ClockAssumption, SMT DEF Rung, Rungs
  <2> QED BY <2>1
<1>2. CASE style = "pairs"
  <2> DEFINE i == 2 * m + 2 - (Change - Shift)
             j == 2 * m + 1 - (Change - Shift)
  <2>1. i \in 1 .. Rungs(style) /\ j \in 1 .. i - 1
    BY <1>0, <1>2, ClockAssumption, SMT DEF Rungs
  <2>2. Rung(style, i) = m /\ Rung(style, j) = m
    BY <1>0, <1>2, ClockAssumption, SMT DEF Rung
  <2> QED BY <2>1, <2>2
<1>3. CASE style = "appended"
  <2> DEFINE i == DayLen + 1 + m - (Change - Shift)
             j == m + 1
  <2>1. i \in 1 .. Rungs(style) /\ Rung(style, i) = m /\ j \in 1 .. i - 1 /\ Rung(style, j) = m
    BY <1>0, <1>3, ClockAssumption, SMT DEF Rung, Rungs
  <2> QED BY <2>1
<1> QED BY <1>1, <1>2, <1>3

\* Only the repeated slots of the long day have a second pass.
LEMMA SecondPass ==
  ASSUME NEW d \in Int, NEW m \in Slots, slot_exists(d, m, 1)
  PROVE  d = FallDay /\ m \in Change - Shift .. Change - 1
<1> DEFINE w == Wall(d, m)
<1>0. m \in Int /\ 0 <= m /\ m < DayLen
  BY ClockAssumption, SMT DEF Slots
<1>1. w \in Int
  BY <1>0, SlotOfDay
<1>2. Reading(Instant(w, 1)) = w /\ Offset(w, 1) # Offset(w, 0)
  BY SMT DEF slot_exists, localize
<1> HIDE DEF w
<1>3. FallAt - Shift <= w /\ w < FallAt
  BY <1>1, <1>2, Changes, FarApart, ClockAssumption, SMT DEF Reading, Instant, Offset
<1>4. d < FallDay => d * DayLen + DayLen <= FallDay * DayLen
  <2>1. d < FallDay => (FallDay - d - 1) * DayLen >= 0
    BY ClockAssumption, SMT
  <2> QED BY <2>1, ClockAssumption, SMT
<1>5. d > FallDay => FallDay * DayLen + DayLen <= d * DayLen
  <2>1. d > FallDay => (d - FallDay - 1) * DayLen >= 0
    BY ClockAssumption, SMT
  <2> QED BY <2>1, ClockAssumption, SMT
<1>6. d * DayLen \in Int /\ FallDay * DayLen \in Int /\ w = d * DayLen + m
      /\ FallAt = FallDay * DayLen + Change
  BY ClockAssumption, SMT DEF Wall, FallAt, w
<1>7. d = FallDay
  BY <1>0, <1>3, <1>4, <1>5, <1>6, ClockAssumption, SMT
<1> QED BY <1>0, <1>3, <1>6, <1>7, ClockAssumption, SMT

\* Which pass it is does not matter beyond the first.
LEMMA PassOnly ==
  ASSUME NEW d, NEW m, NEW p, NEW q, p # 0 <=> q # 0
  PROVE  (slot_exists(d, m, p) <=> slot_exists(d, m, q)) /\ localize(d, m, p) = localize(d, m, q)
<1>1. localize(d, m, p) = localize(d, m, q)
  BY Zenon DEF localize
<1> QED BY <1>1, Zenon DEF slot_exists

LEMMA OccurrenceIs ==
  ASSUME NEW b, NEW i \in Nat
  PROVE  Occurrence(b, i) # 0 <=> \E j \in 1 .. i - 1 : b[j].label = b[i].label
<1> DEFINE S == {j \in 1 .. i - 1 : b[j].label = b[i].label}
<1>1. IsFiniteSet(1 .. i - 1)
  <2>1. 1 \in Int /\ i - 1 \in Int
    BY SMT
  <2> QED BY <2>1, FS_Interval
<1>2. IsFiniteSet(S) /\ Occurrence(b, i) = Cardinality(S)
  BY <1>1, FS_Subset DEF Occurrence
<1>3. S # {} <=> \E j \in 1 .. i - 1 : b[j].label = b[i].label
  OBVIOUS
<1> HIDE DEF S
<1>4. Cardinality(S) # 0 <=> S # {}
  BY <1>2, FS_EmptySet
<1> QED BY <1>2, <1>3, <1>4

\* Every instant of a day has a row, in a style that renders the day in full.
LEMMA InstantHasRow ==
  ASSUME NEW t \in Int, NEW style \in Faithful(ToSet(Shown(t))),
         NEW d \in Oldest(t) .. Newest(t), NEW u \in Instants(d),
         NEW b, Len(b) = Rungs(style), \A i \in 1 .. Rungs(style) : b[i].label = Rung(style, i)
  PROVE  \E i \in 1 .. Len(b) :
           /\ slot_exists(d, b[i].label, Occurrence(b, i))
           /\ localize(d, b[i].label, Occurrence(b, i)) = u
<1>1. d \in Int /\ d \in ToSet(Shown(t))
  BY ShownDays
<1>2. PICK s \in day_slots(d) : localize(d, s[1], s[2]) = u
  BY <1>1, InstantsAreSlots
<1>3. PICK m \in Slots, p \in {0, 1} : s = <<m, p>> /\ slot_exists(d, m, p)
  BY DEF day_slots, Slots
<1>4. localize(d, m, p) = u
  BY <1>2, <1>3
<1>5. Rungs(style) \in Nat
  BY RungsType
<1>6. \A i \in 1 .. Rungs(style) : \A j \in 1 .. i - 1 : j \in 1 .. Rungs(style)
  BY <1>5, SMT
<1>7. \E i \in 1 .. Rungs(style) :
        b[i].label = m /\ (p # 0 <=> \E j \in 1 .. i - 1 : b[j].label = b[i].label)
  <2>1. CASE p = 0
    <3>1. PICK i \in 1 .. Rungs(style) :
            Rung(style, i) = m /\ \A j \in 1 .. i - 1 : Rung(style, j) # m
      BY FirstRow
    <3> QED BY <1>6, <2>1, <3>1
  <2>2. CASE p = 1
    <3>1. d = FallDay /\ m \in Change - Shift .. Change - 1
      BY <1>1, <1>3, <2>2, SecondPass
    <3>2. style \in {"block", "pairs", "appended"}
      BY <1>1, <3>1 DEF Faithful
    <3>3. PICK i \in 1 .. Rungs(style) :
            Rung(style, i) = m /\ \E j \in 1 .. i - 1 : Rung(style, j) = m
      BY <3>1, <3>2, SecondRow
    <3> QED BY <1>6, <2>2, <3>3
  <2> QED BY <2>1, <2>2
<1>8. PICK i \in 1 .. Rungs(style) :
        b[i].label = m /\ (p # 0 <=> \E j \in 1 .. i - 1 : b[j].label = b[i].label)
  BY <1>7
<1>9. p # 0 <=> Occurrence(b, i) # 0
  <2>1. i \in Nat
    BY <1>5, SMT
  <2> QED BY <1>8, <2>1, OccurrenceIs
<1>10. (slot_exists(d, m, p) <=> slot_exists(d, m, Occurrence(b, i)))
       /\ localize(d, m, p) = localize(d, m, Occurrence(b, i))
  BY <1>9, PassOnly
<1> QED BY <1>3, <1>4, <1>8, <1>10

\* A clean page is read, whatever the week, and its days are complete then.
LEMMA CleanFills ==
  ASSUME NEW t \in FirstDay .. LastDay, NEW late \in {0, 1}, NEW metrics \in Layouts,
         NEW style \in Faithful(ToSet(Shown(t))), NEW page, Clean(page, t, style, metrics),
         NEW table \in Tables
  PROVE  LET grid == parse_interval_grid(page, t + late) IN
         /\ grid # Refused
         /\ \A d \in Oldest(t) .. Newest(t) :
              Instants(d) \subseteq DOMAIN store_intervals(table, grid.readings)
<1> DEFINE D == Oldest(t) .. Newest(t)
           r == t + late
           dates == Dates(page, r)
           b == DataRows(page)
           m == Groups(page, Len(dates))[1]
           cells == ReadRows(b, m, dates)
           T == {e \in ToSet(cells) : e.exists}
           grid == parse_interval_grid(page, r)
<1>1. t \in Int /\ Around(D, r) /\ Names(page, D) /\ page \in Pages
  BY DaysAround DEF Clean, Names
<1>2. DatesAre(dates, t) /\ Groups(page, Width)[1] = Meanings(metrics) /\ HeaderFits(page, dates)
  BY CleanHeaderFits DEF DatesAre
<1>3. Len(dates) = Width
  BY <1>2 DEF DatesAre
<1>4. m = Meanings(metrics) /\ Len(m) = Len(metrics)
  BY <1>2, <1>3, MeaningsType
<1>5. b \in Seq(DataRow) /\ Emptied(b, t, style, metrics)
  BY <1>1, DataRowsAre, CleanIsEmptied DEF Clean
<1> HIDE DEF dates, b
<1>6. RowsFit(b, dates, Width * Len(metrics))
  BY <1>1, <1>2, <1>5, CleanRowsFit
<1>7. RowsFit(b, dates, Len(dates) * Len(m))
  BY <1>3, <1>4, <1>6
<1>8. Fits(page, D, b, m, dates) /\ Entries(cells, b, m, dates)
  BY <1>1, <1>2, <1>7, TableOf DEF dates, b
<1> HIDE DEF m, cells, T
<1>9. Kept(cells, T) \in Seq(Parsed)
  BY <1>8, KeptIs DEF Entries
<1> DEFINE odd == \/ CountIsOff(b, dates)
                  \/ Backward(b) # {}
                  \/ \E i \in DOMAIN cells : Ghost(cells[i])
           read == [readings |-> Kept(cells, T), anomaly |-> odd]
<1>10. grid = read
  BY <1>2, <1>7 DEF parse_interval_grid, dates, b, m, cells, T
<1>11. grid # Refused
  <2>1. odd \in BOOLEAN
    OBVIOUS
  <2> HIDE DEF odd
  <2>2. read \in [readings : Seq(Parsed), anomaly : BOOLEAN]
    BY <1>9, <2>1
  <2> HIDE DEF read
  <2> QED BY <1>10, <2>2, GridAssumption
<1>12. ReadAs(grid, b, m, dates)
  BY <1>1, <1>11, ParseFacts DEF dates, b, m
<1> HIDE DEF grid
<1>13. grid.readings \in Seq(Parsed)
  BY <1>12 DEF ReadAs
<1> DEFINE new == store_intervals(table, grid.readings)
<1>14. DOMAIN new = DOMAIN table \cup {grid.readings[x].start : x \in 1 .. Len(grid.readings)}
  <2>1. Stores(table, grid.readings, Len(grid.readings), new)
    BY <1>13, StoreFacts
  <2> QED BY <2>1 DEF Stores
<1> HIDE DEF new
<1>15. ASSUME NEW d \in D, NEW u \in Instants(d)
       PROVE  u \in DOMAIN new
  <2>1. PICK k \in 1 .. Width : dates[k] = d
    <3> DEFINE x == Newest(t) - d + 1
    <3>1. x \in 1 .. Width /\ Shown(t)[x] = d
      BY <1>1, ShownDays
    <3> HIDE DEF x
    <3> QED BY <1>2, <3>1 DEF DatesAre
  <2>2. PICK i \in 1 .. Len(b) :
          /\ slot_exists(d, b[i].label, Occurrence(b, i))
          /\ localize(d, b[i].label, Occurrence(b, i)) = u
    <3>1. Len(b) = Rungs(style) /\ \A i \in 1 .. Rungs(style) : b[i].label = Rung(style, i)
      BY <1>5 DEF Emptied
    <3> QED BY <1>1, <3>1, InstantHasRow
  <2>3. Entry(b, m, dates, k, i).exists /\ Entry(b, m, dates, k, i).start = u
    BY <2>1, <2>2 DEF Entry, ReadRow
  <2>4. PICK x \in 1 .. Len(grid.readings) : grid.readings[x] = Entry(b, m, dates, k, i)
    BY <1>3, <1>12, <2>3 DEF ReadAs
  <2> QED BY <1>14, <2>3, <2>4
<1> QED BY <1>11, <1>15 DEF grid, new

-----------------------------------------------------------------------------
(* What a clean fetch leaves *)

\* After a clean page the days it showed are complete.
FillsIInv ==
  /\ GridType
  /\ last.clean => /\ last.read = "ok"
                   /\ \A d \in Oldest(today) .. Newest(today) : Instants(d) \subseteq DOMAIN rows

LEMMA FillsStep == FillsIInv /\ [Next]_vars => FillsIInv'
<1> SUFFICES ASSUME FillsIInv, [Next]_vars  PROVE FillsIInv'
  OBVIOUS
<1>1. CASE FetchClean \/ FetchOdd
  <2>1. GridType'
    BY <1>1, FetchAdds DEF FillsIInv
  <2>2. PICK late \in {0, 1} : \E page, clean, style : Fetches(page, clean, style, late)
    BY <1>1, FetchIs DEF FillsIInv
  <2>3. PICK page, clean, style : Fetches(page, clean, style, late)
    BY <2>2
  <2> DEFINE grid == parse_interval_grid(page, today + late)
  <2>4. /\ today' = today
        /\ last' = [clean |-> clean, read |-> IF grid = Refused THEN "refused" ELSE "ok"]
        /\ grid # Refused => rows' = store_intervals(rows, grid.readings)
    BY <2>3 DEF Fetches, Fetch
  <2>5. last'.clean => clean
    BY <2>4
  <2>6. ASSUME clean
        PROVE  /\ grid # Refused
               /\ \A d \in Oldest(today) .. Newest(today) :
                    Instants(d) \subseteq DOMAIN store_intervals(rows, grid.readings)
    <3>1. style \in Faithful(ToSet(Shown(today))) /\ Clean(page, today, style, layout)
      BY <2>3, <2>6 DEF Fetches
    <3>2. today \in FirstDay .. LastDay /\ layout \in Layouts /\ rows \in Tables
      BY DEF FillsIInv, GridType
    <3> QED BY <3>1, <3>2, CleanFills
  <2> HIDE DEF grid
  <2>7. ASSUME last'.clean
        PROVE  /\ last'.read = "ok"
               /\ \A d \in Oldest(today') .. Newest(today') : Instants(d) \subseteq DOMAIN rows'
    <3>1. /\ grid # Refused
          /\ \A d \in Oldest(today) .. Newest(today) :
               Instants(d) \subseteq DOMAIN store_intervals(rows, grid.readings)
      BY <2>5, <2>6, <2>7
    <3> QED BY <2>4, <3>1
  <2> QED BY <2>1, <2>7 DEF FillsIInv
<1>2. CASE DayPasses
  <2>1. GridType'
    BY <1>2, DayTyped DEF FillsIInv
  <2>2. ~last'.clean
    BY <1>2 DEF DayPasses
  <2> QED BY <2>1, <2>2 DEF FillsIInv
<1>3. CASE UNCHANGED vars
  BY <1>3 DEF vars, FillsIInv, GridType
<1> QED BY <1>1, <1>2, <1>3 DEF Next

\* A clean page is accepted in every week, those of the clock changes and of the
\* turn of the year included, also when the date turns while it is fetched; and
\* after it nothing that the gap report calls recoverable is missing ("Missing a
\* day is recoverable for about a week", README.md).
THEOREM CleanIsComplete == Spec => []CleanFetchFills
<1>1. Init => FillsIInv
  <2> SUFFICES ASSUME Init  PROVE FillsIInv
    OBVIOUS
  <2>1. GridType
    BY InitTyped
  <2>2. ~last.clean
    BY DEF Init
  <2> QED BY <2>1, <2>2 DEF FillsIInv
<1>2. FillsIInv => CleanFetchFills
  <2> SUFFICES ASSUME FillsIInv, last.clean  PROVE last.read = "ok" /\ Fetchable = {}
    BY DEF CleanFetchFills
  <2>1. ASSUME NEW d \in ReportDays, recoverable(d)
        PROVE  Missing(d) = {}
    <3>1. today \in Int /\ Lag \in Int /\ Width \in Int
      BY GridAssumption, PortalAssumption, SMT DEF FillsIInv, GridType
    <3>2. d \in Int /\ d <= today - Lag
      <4>1. d \in DayAt(Min(DOMAIN rows)) .. today - Lag
        BY DEF ReportDays
      <4> QED BY <3>1, <4>1, SMT
    <3>3. d \in Oldest(today) .. Newest(today)
      BY <2>1, <3>1, <3>2, SMT DEF recoverable, Oldest, Newest
    <3>4. Instants(d) \subseteq DOMAIN rows
      BY <3>3 DEF FillsIInv
    <3> QED BY <3>2, <3>4, MissingOfDay
  <2>2. Fetchable = {}
    BY <2>1 DEF Fetchable
  <2> QED BY <2>2 DEF FillsIInv
<1> QED BY <1>1, <1>2, FillsStep, PTL DEF Spec

-----------------------------------------------------------------------------
(* The headers of a page that is accepted *)

\* All dates of an accepted page are known.
LEMMA KnownDates ==
  ASSUME NEW page, NEW dates, HeaderFits(page, dates)
  PROVE  \A k \in DOMAIN dates : dates[k] # Refused
BY DEF HeaderFits, ToSet

\* A wrong weekday is refused.
LEMMA WeekdayRefused ==
  ASSUME NEW t \in FirstDay .. LastDay, NEW late \in {0, 1}, NEW page \in Pages,
         WrongWeekday(page, t), HeaderFits(page, Dates(page, t + late))
  PROVE  FALSE
<1> DEFINE dates == Dates(page, t + late)
<1>1. page.above >= 2 /\ Len(page.columns) = Width
      /\ \A k \in 1 .. Width : page.columns[k].label = Label(Shown(t)[k])
  BY DEF WrongWeekday
<1>2. PICK i \in 1 .. Width : page.columns[i].weekday = (Weekday(Shown(t)[i]) + 1) % 7
  BY DEF WrongWeekday
<1>3. page.columns[i].weekday \notin {NoWeekday, Weekday(Shown(t)[i])}
  <2>1. Shown(t)[i] \in Int
    BY DaysAround, ShownDays
  <2> DEFINE v == Shown(t)[i]
  <2> HIDE DEF v
  <2>2. ((v % 7) + 1) % 7 \in Int /\ ((v % 7) + 1) % 7 # v % 7
    BY <2>1, SMT DEF v
  <2> QED BY <1>2, <2>2, CalendarAssumption DEF Weekday, v
<1>4. i \in DOMAIN dates /\ dates[i] = Refused
  BY <1>1, <1>3, DatesShown
<1> QED BY <1>4, KnownDates

\* A day without its date: the groups of the others do not match.
LEMMA UndatedRefused ==
  ASSUME Width >= 3, NEW reference, NEW page \in Pages, NEW t \in FirstDay .. LastDay,
         NEW metrics \in Layouts, Undated(page, t), CleanHeaders(page, metrics),
         HeaderFits(page, Dates(page, reference))
  PROVE  FALSE
<1> DEFINE T == {c \in ToSet(page.columns) : c.label # NULL}
           dated == Kept(page.columns, T)
           n == Width - 1
           w == Len(metrics)
           v == Len(page.headers) \div n
           g == Groups(page, n)
<1>1. PICK i \in 1 .. Width :
        /\ page.columns[i].label = NULL
        /\ \A k \in (1 .. Width) \ {i} : page.columns[k].label = Label(Shown(t)[k])
  BY DEF Undated
<1>2. page.columns \in Seq(Columns) /\ Len(page.columns) = Width /\ DOMAIN page.columns = 1 .. Width
  BY LenProperties DEF Pages, Undated
<1>3. {k \in 1 .. Width : page.columns[k] \in T} = (1 .. Width) \ {i}
  <2>1. \A k \in 1 .. Width : page.columns[k] \in T <=> page.columns[k].label # NULL
    BY <1>2 DEF ToSet
  <2>2. \A k \in 1 .. Width : Label(Shown(t)[k]) # NULL
    <3>1. /\ t \in Int /\ Around(Oldest(t) .. Newest(t), t + 0)
          /\ \A k \in 1 .. Width : Shown(t)[k] \in Oldest(t) .. Newest(t)
      BY DaysAround, ShownDays
    <3> QED BY <3>1, LabelType
  <2> HIDE DEF T
  <2> QED BY <1>1, <2>1, <2>2
<1> HIDE DEF T
<1>4. Len(dated) = n
  <2>1. Len(dated) = Cardinality({k \in 1 .. Width : page.columns[k] \in T})
    BY <1>2, KeptCount
  <2>2. IsFiniteSet(1 .. Width) /\ Cardinality(1 .. Width) = Width
    <3>1. 1 \in Int /\ Width \in Int /\ (IF 1 > Width THEN 0 ELSE Width - 1 + 1) = Width
      BY PortalAssumption, SMT
    <3> QED BY <3>1, FS_Interval
  <2>3. Cardinality((1 .. Width) \ {i}) = n
    BY <2>2, FS_RemoveElement
  <2> QED BY <1>3, <2>1, <2>3
<1>5. Len(Dates(page, reference)) = n
  <2>1. dated \in Seq(Columns) /\ n \in Nat
    BY <1>2, KeptIs, PortalAssumption, SMT
  <2>2. Dates(page, reference) = [k \in 1 .. Len(dated) |->
           infer_year(dated[k].label,
                      IF page.above >= 2 THEN dated[k].weekday ELSE NoWeekday, reference)]
    BY DEF Dates, T
  <2> HIDE DEF dated
  <2> QED BY <1>4, <2>1, <2>2
<1>6. Len(page.headers) % n = 0 /\ n \in Nat \ {0} /\ 2 <= n /\ n + 1 = Width
  <2>1. Len(page.headers) % Len(Dates(page, reference)) = 0
    BY DEF HeaderFits
  <2>2. n \in Nat \ {0} /\ 2 <= n /\ n + 1 = Width
    BY PortalAssumption, SMT
  <2> QED BY <1>5, <2>1, <2>2
<1>7. w \in Nat \ {0} /\ Len(page.headers) = Width * w
  BY LayoutFacts DEF CleanHeaders
<1>8. /\ v \in Nat /\ Len(page.headers) = n * v
      /\ \A k \in 1 .. n : g[k] = [j \in 1 .. v |-> canonical_metric(page.headers[(k - 1) * v + j])]
  BY <1>6, GroupsAre
<1> HIDE DEF v
<1>9. \A k, l \in 1 .. n : g[k] = g[l]
  <2>1. DOMAIN g = 1 .. n
    BY DEF Groups
  <2> QED BY <1>5, <2>1, SameGroups
<1> HIDE DEF g, n, w
<1> DEFINE q == v - w
<1>10. n * w + w = n * v /\ w = n * q
  BY <1>6, <1>7, <1>8, SMT
<1>11. q \in Nat /\ 1 <= q /\ q + 1 <= w
  <2>1. q \in Int
    BY <1>7, <1>8, SMT
  <2> HIDE DEF q
  <2>2. q <= 0 => n * q <= 0
    BY <1>6, <2>1, SMT
  <2>3. 1 <= q
    BY <1>7, <1>10, <2>1, <2>2, SMT
  <2>4. 2 * q <= n * q
    BY <1>6, <2>1, <2>3, SMT
  <2> QED BY <1>10, <2>1, <2>3, <2>4, <1>7, SMT
<1>12. 1 \in 1 .. v /\ 1 \in 1 .. n /\ 2 \in 1 .. n /\ 1 \in 1 .. w /\ q + 1 \in 1 .. w
       /\ 1 \in 1 .. Width /\ 2 \in 1 .. Width
       /\ (1 - 1) * v + 1 = 1 /\ (2 - 1) * v + 1 = v + 1
       /\ Place(1, w, 1) = 1 /\ Place(2, w, q + 1) = v + 1
  BY <1>6, <1>7, <1>8, <1>11, SMT DEF Place
<1> HIDE DEF q
<1>13. page.headers[1] = metrics[1] /\ page.headers[v + 1] = metrics[q + 1]
  BY <1>12 DEF CleanHeaders, w
<1> DEFINE text(x) == canonical_metric(page.headers[x])
<1>14. \A k \in 1 .. n : g[k] = [j \in 1 .. v |-> text((k - 1) * v + j)]
  BY <1>8
<1> HIDE DEF text
<1>15. g[1][1] = text((1 - 1) * v + 1) /\ g[2][1] = text((2 - 1) * v + 1)
  BY <1>12, <1>14
<1>16. g[1][1] = text(1) /\ g[2][1] = text(v + 1)
  BY <1>12, <1>15
<1>17. canonical_metric(metrics[1]) = canonical_metric(metrics[q + 1])
  BY <1>9, <1>12, <1>13, <1>16 DEF text
<1>18. 1 = q + 1
  BY <1>12, <1>17, LayoutFacts DEF w
<1> QED BY <1>11, <1>18, SMT

\* A metric nobody knows is refused.
LEMMA UnheardRefused ==
  ASSUME NEW page \in Pages, NEW metrics \in Layouts, Unheard(page, metrics),
         NEW dates, Len(dates) = Width, HeaderFits(page, dates)
  PROVE  FALSE
<1> DEFINE w == Len(metrics)
           text == "$ Cost"
<1>1. w \in Nat \ {0} /\ Width \in Nat \ {0} /\ Len(page.headers) = Width * w
  BY LayoutFacts, PortalAssumption DEF Unheard
<1>2. PICK i \in 1 .. w : page.headers[i] = text
  BY DEF Unheard
<1>3. canonical_metric(text) = "unknown"
  BY Zenon DEF canonical_metric
<1> HIDE DEF text, w
<1>4. /\ DOMAIN Groups(page, Width) = 1 .. Width
      /\ Groups(page, Width)[1] = [j \in 1 .. w |-> canonical_metric(page.headers[Place(1, w, j)])]
  <2>1. 1 \in 1 .. Width
    BY <1>1, SMT
  <2>2. /\ DOMAIN Groups(page, Width) = 1 .. Width
        /\ \A k \in 1 .. Width : Groups(page, Width)[k] =
             [j \in 1 .. w |-> canonical_metric(page.headers[Place(k, w, j)])]
    BY <1>1, GroupsOf
  <2> QED BY <2>1, <2>2
<1>5. Place(1, w, i) = i /\ 1 \in 1 .. Width
  BY <1>1, SMT DEF Place
<1>6. Groups(page, Width)[1][i] = "unknown" /\ i \in DOMAIN Groups(page, Width)[1]
  BY <1>2, <1>3, <1>4, <1>5
<1>7. \A k \in DOMAIN Groups(page, Width) : \A j \in DOMAIN Groups(page, Width)[k] :
        Groups(page, Width)[k][j] # "unknown"
  BY SameGroups
<1> QED BY <1>4, <1>5, <1>6, <1>7

\* Metrics in another order are refused, unless there is only one.
LEMMA RearrangedRefused ==
  ASSUME Width >= 3, NEW page \in Pages, NEW metrics \in Layouts, Rearranged(page, metrics),
         NEW dates, Len(dates) = Width, HeaderFits(page, dates)
  PROVE  CleanHeaders(page, metrics)
<1> DEFINE w == Len(metrics)
           g == Groups(page, Width)
<1>1. /\ w \in Nat \ {0} /\ Width \in Nat \ {0} /\ Len(page.headers) = Width * w
      /\ \A k \in 1 .. Width, j \in 1 .. w :
           page.headers[Place(k, w, j)] =
             IF k # 1 THEN metrics[j]
             ELSE IF j = 1 THEN metrics[w] ELSE IF j = w THEN metrics[1] ELSE metrics[j]
  BY LayoutFacts, PortalAssumption DEF Rearranged
<1>2. /\ DOMAIN g = 1 .. Width
      /\ \A k \in 1 .. Width :
           g[k] = [j \in 1 .. w |-> canonical_metric(page.headers[Place(k, w, j)])]
  BY <1>1, GroupsOf
<1> HIDE DEF g
<1>3. 1 \in 1 .. Width /\ 2 \in 1 .. Width /\ 1 \in 1 .. w /\ w \in 1 .. w
  BY <1>1, SMT
<1>4. g[1] = g[2]
  BY <1>2, <1>3, SameGroups DEF g
<1>5. g[1][1] = canonical_metric(metrics[w]) /\ g[2][1] = canonical_metric(metrics[1])
  BY <1>1, <1>2, <1>3
<1>6. w = 1
  BY <1>3, <1>4, <1>5, LayoutFacts
<1>7. \A k \in 1 .. Width, j \in 1 .. w : page.headers[Place(k, w, j)] = metrics[j]
  BY <1>1, <1>6
<1>8. \A k \in 1 .. Width, j \in 1 .. w : Place(k, w, j) \in 1 .. Width * w
  BY Places
<1> QED BY <1>1, <1>7, <1>8 DEF CleanHeaders

\* The columns of an accepted page are the days shown, its groups the layout.
LEMMA AcceptedHeaders ==
  ASSUME Width >= 3, NEW t \in FirstDay .. LastDay, NEW late \in {0, 1}, NEW style,
         NEW metrics \in Layouts, NEW page, Odd(page, t, style, metrics),
         HeaderFits(page, Dates(page, t + late))
  PROVE  /\ DatesAre(Dates(page, t + late), t)
         /\ Groups(page, Width)[1] = Meanings(metrics)
         /\ OddBody(DataRows(page), t, style, metrics)
         /\ Len(DataRows(page)) = Rungs(style) => Bare(page)
<1> DEFINE dates == Dates(page, t + late)
<1>1. page \in Pages /\ OddForm(page, t, style, metrics)
  BY DEF Odd, Names
<1>2. ~WrongWeekday(page, t)
  BY <1>1, WeekdayRefused
<1>3. ~(Undated(page, t) /\ CleanHeaders(page, metrics))
  BY <1>1, UndatedRefused
<1>4. CleanColumns(page, t)
  BY <1>1, <1>2, <1>3 DEF OddForm
<1>5. DatesAre(dates, t)
  <2>1. /\ Len(page.columns) = Width
        /\ \A k \in 1 .. Width : page.columns[k].label = Label(Shown(t)[k])
    BY <1>4 DEF CleanColumns
  <2>2. /\ Len(dates) = Width /\ DOMAIN dates = 1 .. Width
        /\ \A k \in 1 .. Width : dates[k] \in {Shown(t)[k], Refused}
    BY <1>1, <2>1, DatesShown
  <2>3. \A k \in DOMAIN dates : dates[k] # Refused
    BY KnownDates
  <2> HIDE DEF dates
  <2> QED BY <2>2, <2>3 DEF DatesAre
<1>6. Len(dates) = Width
  BY <1>5 DEF DatesAre
<1>7. ~Unheard(page, metrics)
  BY <1>1, <1>6, UnheardRefused
<1>8. Rearranged(page, metrics) => CleanHeaders(page, metrics)
  BY <1>1, <1>6, RearrangedRefused
<1> HIDE DEF dates
<1>9. CleanHeaders(page, metrics) /\ OddBody(DataRows(page), t, style, metrics)
      /\ (Len(DataRows(page)) = Rungs(style) => Bare(page))
  BY <1>1, <1>2, <1>3, <1>7, <1>8 DEF OddForm, OddBody
<1>10. Groups(page, Width)[1] = Meanings(metrics)
  <2>1. 1 \in 1 .. Width
    BY PortalAssumption, SMT
  <2> QED BY <1>1, <1>9, <2>1, CleanGroups
<1> QED BY <1>5, <1>9, <1>10 DEF dates

-----------------------------------------------------------------------------
(* The rows of a page without an anomaly *)

\* Of three days one is as long as most.
LEMMA LongestDay ==
  ASSUME Width >= 3, NEW t \in Int, NEW dates, DatesAre(dates, t)
  PROVE  Max({day_length(d) : d \in ToSet(dates)})
           = IF FallDay \in ToSet(Shown(t)) THEN DayLen + Shift ELSE DayLen
<1> DEFINE S == {day_length(d) : d \in ToSet(dates)}
<1>1. ToSet(dates) = ToSet(Shown(t)) /\ ToSet(dates) = Oldest(t) .. Newest(t)
  BY DatesSet
<1>2. Oldest(t) \in Int /\ Newest(t) \in Int /\ Oldest(t) + 2 <= Newest(t)
  BY PortalAssumption, SMT DEF Oldest, Newest
<1>3. \A d \in ToSet(dates) :
        /\ d \in Int
        /\ day_length(d) = IF d = SpringDay THEN DayLen - Shift
                           ELSE IF d = FallDay THEN DayLen + Shift ELSE DayLen
  <2>1. \A d \in Oldest(t) .. Newest(t) : d \in Int
    BY <1>2, SMT
  <2> QED BY <1>1, <2>1, DayLengths
<1>4. \E d \in ToSet(dates) : d # SpringDay /\ d # FallDay
  <2> DEFINE o == Oldest(t)
  <2>1. o \in ToSet(dates) /\ o + 1 \in ToSet(dates) /\ o + 2 \in ToSet(dates)
    BY <1>1, <1>2, SMT
  <2>2. o # o + 1 /\ o # o + 2 /\ o + 1 # o + 2
    BY <1>2, SMT
  <2> HIDE DEF o
  <2> QED BY <2>1, <2>2
<1>5. DayLen \in S /\ (FallDay \in ToSet(dates) => DayLen + Shift \in S)
  <2>1. PICK d \in ToSet(dates) : d # SpringDay /\ d # FallDay
    BY <1>4
  <2>2. day_length(d) = DayLen
    BY <1>3, <2>1
  <2>3. FallDay \in ToSet(dates) => day_length(FallDay) = DayLen + Shift
    BY <1>3, ClockAssumption, SMT
  <2> QED BY <2>1, <2>2, <2>3
<1>6. DayLen \in Nat /\ Shift \in Nat /\ 0 < Shift
  BY ClockAssumption
<1>7. S \in SUBSET Int
      /\ \A y \in S : y <= IF FallDay \in ToSet(dates) THEN DayLen + Shift ELSE DayLen
  BY <1>3, <1>6, SMT
<1> HIDE DEF S
<1>8. CASE FallDay \in ToSet(dates)
  <2>1. DayLen + Shift \in S /\ \A y \in S : y <= DayLen + Shift
    BY <1>5, <1>7, <1>8
  <2>2. Max(S) = DayLen + Shift
    BY <1>7, <2>1, LargestIs
  <2> QED BY <1>1, <1>8, <2>2 DEF S
<1>9. CASE FallDay \notin ToSet(dates)
  <2>1. \A y \in S : y <= DayLen
    BY <1>7, <1>9
  <2>2. Max(S) = DayLen
    BY <1>5, <1>7, <2>1, LargestIs
  <2> QED BY <1>1, <1>9, <2>2 DEF S
<1> QED BY <1>8, <1>9

\* The number of rows tells a row too few, that the second pass of the long day
\* is missing, and a row too many unless it stands in for that second pass.
LEMMA CountTells ==
  ASSUME Width >= 3, NEW t \in Int, NEW dates, DatesAre(dates, t),
         NEW style \in Styles(ToSet(Shown(t))) \cup Faithful(ToSet(Shown(t))), NEW b,
         ~CountIsOff(b, dates)
  PROVE  /\ Len(b) # Rungs(style) - 1
         /\ Len(b) = Rungs(style) + 1 => style \in {"single", "late"}
         /\ Len(b) = Rungs(style) => style # "late"
<1>1. Len(b) = IF FallDay \in ToSet(Shown(t)) THEN DayLen + Shift ELSE DayLen
  BY LongestDay DEF CountIsOff
<1>2. DayLen \in Int /\ Shift \in Int /\ 0 < Shift
  BY ClockAssumption, SMT
<1>3. CASE FallDay \in ToSet(Shown(t))
  <2>1. style \in {"block", "pairs", "appended", "single", "late"}
    BY <1>3 DEF Styles, Faithful
  <2>2. style \in {"block", "pairs", "appended"} => Rungs(style) = DayLen + Shift
    BY DEF Rungs
  <2>3. style \in {"single", "late"} => Rungs(style) = DayLen
    BY DEF Rungs
  <2> QED BY <1>1, <1>2, <1>3, <2>1, <2>2, <2>3, SMT
<1>4. CASE FallDay \notin ToSet(Shown(t))
  <2>1. style \in {"single", "elapsed"}
    BY <1>4 DEF Styles, Faithful
  <2>2. style # "late" /\ Rungs(style) = DayLen
    BY <2>1 DEF Rungs
  <2> QED BY <1>1, <1>2, <1>4, <2>2, SMT
<1> QED BY <1>3, <1>4

-----------------------------------------------------------------------------
(* What a column says *)

\* A metric of the layout is read from its own column.
LEMMA ValueAt ==
  ASSUME NEW metrics \in Layouts, NEW cells, NEW k, NEW metric
  PROVE  /\ \A j \in 1 .. Len(metrics) :
              canonical_metric(metrics[j]) = metric
              => Value(cells, Meanings(metrics), k, metric) = cells[Place(k, Len(metrics), j)]
         /\ (\A j \in 1 .. Len(metrics) : canonical_metric(metrics[j]) # metric)
            => Value(cells, Meanings(metrics), k, metric) = NULL
<1> DEFINE m == Meanings(metrics)
           at == {j \in DOMAIN m : m[j] = metric}
           w == Len(metrics)
<1>1. /\ DOMAIN m = 1 .. w /\ Len(m) = w
      /\ \A j \in 1 .. w : m[j] = canonical_metric(metrics[j])
  BY MeaningsType
<1>2. Value(cells, m, k, metric) = IF at = {} THEN NULL ELSE cells[(k - 1) * Len(m) + Max(at)]
  BY DEF Value
<1>3. \A i, j \in 1 .. w : canonical_metric(metrics[i]) = canonical_metric(metrics[j]) => i = j
  BY LayoutFacts
<1> HIDE DEF m, w
<1>4. ASSUME NEW j \in 1 .. w, canonical_metric(metrics[j]) = metric
      PROVE  Value(cells, m, k, metric) = cells[Place(k, w, j)]
  <2>1. at = {j}
    BY <1>1, <1>3, <1>4
  <2> HIDE DEF at
  <2>2. Max(at) = j
    <3>1. j \in Int /\ at \in SUBSET Int /\ j \in at /\ \A y \in at : y <= j
      BY <2>1, SMT
    <3> QED BY <3>1, LargestIs
  <2> QED BY <1>1, <1>2, <2>1, <2>2 DEF Place
<1>5. ASSUME \A j \in 1 .. w : canonical_metric(metrics[j]) # metric
      PROVE  Value(cells, m, k, metric) = NULL
  <2>1. at = {}
    BY <1>1, <1>5
  <2> QED BY <1>2, <2>1
<1> QED BY <1>4, <1>5 DEF m, w

\* A header carries a register exactly if its metric is one of that register's.
LEMMA CarriesIs ==
  ASSUME NEW header
  PROVE  /\ canonical_metric(header) \in {"kwh", "kwh_delivered"} <=> Carries(header) = "delivered"
         /\ canonical_metric(header) = "kwh_received" <=> Carries(header) = "received"
<1>1. CASE header \in {"kWh", "kWh Del", "kWh Delivered"}
  <2>1. canonical_metric(header) \in {"kwh", "kwh_delivered"}
    BY <1>1, Zenon DEF canonical_metric
  <2>2. Carries(header) = "delivered"
    BY <1>1, Zenon DEF Carries
  <2> QED BY <2>1, <2>2
<1>2. CASE header \in {"kWh Rcvd", "kWh Received"}
  <2>1. canonical_metric(header) = "kwh_received"
    BY <1>2, Zenon DEF canonical_metric
  <2>2. Carries(header) = "received"
    BY <1>2, Zenon DEF Carries
  <2> QED BY <2>1, <2>2
<1>3. CASE header \notin {"kWh", "kWh Del", "kWh Delivered"} \cup {"kWh Rcvd", "kWh Received"}
  <2>1. canonical_metric(header) \in {"temperature_f", "kw", "unknown"}
    BY <1>3, Zenon DEF canonical_metric
  <2>2. Carries(header) = "other"
    BY <1>3, Zenon DEF Carries
  <2> QED BY <2>1, <2>2
<1> QED BY <1>1, <1>2, <1>3

\* cells holds the group of an instant in its k-th column.
Holds(cells, metrics, k, at) ==
  \A j \in 1 .. Len(metrics) : cells[Place(k, Len(metrics), j)] = Group(metrics, at)[j]

\* What is read of a group: its own usage, delivered always, received if the
\* layout has a column for it.
Reads(r, metrics, at) ==
  /\ at = NULL => r.delivered = NULL /\ r.received = NULL
  /\ at # NULL => /\ r.delivered = [at |-> at, of |-> "delivered"]
                  /\ r.received \in {NULL, [at |-> at, of |-> "received"]}
                  /\ (\E j \in 1 .. Len(metrics) : Carries(metrics[j]) = "received")
                     => r.received = [at |-> at, of |-> "received"]

LEMMA ColumnReads ==
  ASSUME NEW metrics \in Layouts, NEW row, NEW k, NEW d, NEW pass,
         NEW at \in Int \cup {NULL}, Holds(row.cells, metrics, k, at)
  PROVE  Reads(ReadRow(row, pass, Meanings(metrics), d, k), metrics, at)
<1> DEFINE w == Len(metrics)
           r == ReadRow(row, pass, Meanings(metrics), d, k)
           v(metric) == Value(row.cells, Meanings(metrics), k, metric)
           use(of) == IF at = NULL THEN NULL ELSE [at |-> at, of |-> of]
           dl == "kwh_delivered"
           kw == "kwh"
           rc == "kwh_received"
<1>1. \A j \in 1 .. w : row.cells[Place(k, w, j)] = use(Carries(metrics[j]))
  <2>1. Len(metrics) \in Nat
    BY LayoutFacts
  <2>2. \A j \in 1 .. Len(metrics) :
          Group(metrics, at)[j] = IF at = NULL THEN NULL ELSE [at |-> at, of |-> Carries(metrics[j])]
    BY <2>1, GroupType
  <2> QED BY <2>2 DEF Holds
<1>2. /\ r.delivered = IF v(dl) # NULL THEN v(dl) ELSE v(kw)
      /\ r.received = v(rc)
  BY DEF ReadRow
<1>3. \A metric : /\ \A j \in 1 .. w : canonical_metric(metrics[j]) = metric
                                       => v(metric) = use(Carries(metrics[j]))
                  /\ (\A j \in 1 .. w : canonical_metric(metrics[j]) # metric) => v(metric) = NULL
  <2> SUFFICES ASSUME NEW metric
               PROVE  /\ \A j \in 1 .. w : canonical_metric(metrics[j]) = metric
                                           => v(metric) = use(Carries(metrics[j]))
                      /\ (\A j \in 1 .. w : canonical_metric(metrics[j]) # metric) => v(metric) = NULL
    OBVIOUS
  <2> QED BY <1>1, ValueAt
<1> HIDE DEF v, r
<1>4. use("delivered") # NULL \/ at = NULL
  <2>1. at # NULL => [at |-> at, of |-> "delivered"] \in Usage
    BY DEF Usage, Registers
  <2> QED BY <2>1, CellAssumption
<1>5. v(dl) \in {NULL, use("delivered")} /\ v(kw) \in {NULL, use("delivered")}
      /\ (v(dl) = use("delivered") \/ v(kw) = use("delivered"))
  <2>1. PICK j \in 1 .. w : canonical_metric(metrics[j]) \in {kw, dl}
    BY LayoutFacts
  <2>2. \A i \in 1 .. w : canonical_metric(metrics[i]) \in {kw, dl} => Carries(metrics[i]) = "delivered"
    BY CarriesIs
  <2> HIDE DEF dl, kw, use
  <2>3. v(dl) \in {NULL, use("delivered")}
    BY <1>3, <2>2
  <2>4. v(kw) \in {NULL, use("delivered")}
    BY <1>3, <2>2
  <2>5. v(canonical_metric(metrics[j])) = use("delivered")
    BY <1>3, <2>1, <2>2
  <2> QED BY <2>1, <2>3, <2>4, <2>5
<1>6. /\ v(rc) \in {NULL, use("received")}
      /\ (\E j \in 1 .. w : Carries(metrics[j]) = "received") => v(rc) = use("received")
  <2>1. \A i \in 1 .. w : canonical_metric(metrics[i]) = rc <=> Carries(metrics[i]) = "received"
    BY CarriesIs
  <2> HIDE DEF rc, use
  <2> QED BY <1>3, <2>1
<1> HIDE DEF use, dl, kw, rc
<1>7. r.delivered = use("delivered")
  BY <1>2, <1>5
<1>8. at = NULL => use("delivered") = NULL /\ use("received") = NULL
  BY DEF use
<1>9. at # NULL => /\ use("delivered") = [at |-> at, of |-> "delivered"]
                   /\ use("received") = [at |-> at, of |-> "received"]
  BY DEF use
<1>10. Reads(r, metrics, at)
  BY <1>2, <1>6, <1>7, <1>8, <1>9 DEF Reads, w
<1> QED BY <1>10 DEF r

-----------------------------------------------------------------------------
(* What a row shows *)

\* Every slot exists once, but those that the short day skips.
LEMMA FirstPass ==
  ASSUME NEW d \in Int, NEW m \in Slots, d # SpringDay \/ m < Change \/ Change + Shift <= m
  PROVE  slot_exists(d, m, 0)
<1> DEFINE w == Wall(d, m)
<1>0. m \in Int /\ 0 <= m /\ m < DayLen
  BY ClockAssumption, SMT DEF Slots
<1>1. w \in Int
  BY <1>0, SlotOfDay
<1>2. d < SpringDay => d * DayLen + DayLen <= SpringDay * DayLen
  <2>1. d < SpringDay => (SpringDay - d - 1) * DayLen >= 0
    BY ClockAssumption, SMT
  <2> QED BY <2>1, ClockAssumption, SMT
<1>3. d > SpringDay => SpringDay * DayLen + DayLen <= d * DayLen
  <2>1. d > SpringDay => (d - SpringDay - 1) * DayLen >= 0
    BY ClockAssumption, SMT
  <2> QED BY <2>1, ClockAssumption, SMT
<1>4. d * DayLen \in Int /\ SpringDay * DayLen \in Int /\ w = d * DayLen + m
      /\ SpringAt = SpringDay * DayLen + Change
  BY ClockAssumption, SMT DEF Wall, SpringAt
<1>5. w < SpringAt \/ SpringAt + Shift <= w
  BY <1>0, <1>2, <1>3, <1>4, ClockAssumption, SMT
<1> HIDE DEF w
<1>6. Reading(Instant(w, 0)) = w
  BY <1>1, <1>5, Changes, FarApart, ClockAssumption, SMT DEF Reading, Instant, Offset
<1> QED BY <1>6 DEF slot_exists, localize, w

LEMMA SkippedSlot == ~slot_exists(SpringDay, Change, 0)
<1>1. Reading(Instant(SpringAt, 0)) # SpringAt
  BY Changes, FarApart, ClockAssumption, SMT DEF Reading, Instant, Offset
<1> QED BY <1>1 DEF slot_exists, localize, SpringAt

\* On a day without a change the slots are counted from midnight.
LEMMA PlainDay ==
  ASSUME NEW d \in Int, NEW m \in Slots, d # SpringDay, d # FallDay
  PROVE  localize(d, m, 0) = local_midnight_utc(d) + m
<1> DEFINE w == Wall(d, m)
           v == Wall(d, 0)
<1>0. m \in Int /\ 0 <= m /\ m < DayLen
  BY ClockAssumption, SMT DEF Slots
<1>1. w \in Int /\ v \in Int /\ w = v + m
  BY <1>0, DayBounds, SlotOfDay
<1>2. ASSUME NEW e \in Int, d # e
      PROVE  d * DayLen + DayLen <= e * DayLen \/ e * DayLen + DayLen <= d * DayLen
  <2>1. d < e => (e - d - 1) * DayLen >= 0
    BY ClockAssumption, SMT
  <2>2. d > e => (d - e - 1) * DayLen >= 0
    BY ClockAssumption, SMT
  <2> QED BY <1>2, <2>1, <2>2, ClockAssumption, SMT
<1>3. /\ d * DayLen + DayLen <= SpringDay * DayLen \/ SpringDay * DayLen + DayLen <= d * DayLen
      /\ d * DayLen + DayLen <= FallDay * DayLen \/ FallDay * DayLen + DayLen <= d * DayLen
  BY <1>2, ClockAssumption
<1>4. v = d * DayLen /\ d * DayLen \in Int /\ SpringDay * DayLen \in Int /\ FallDay * DayLen \in Int
      /\ SpringAt = SpringDay * DayLen + Change /\ FallAt = FallDay * DayLen + Change
  BY ClockAssumption, SMT DEF Wall, SpringAt, FallAt
<1> HIDE DEF w, v
<1>5. \/ w < SpringAt /\ v < SpringAt
      \/ SpringAt + Shift <= w /\ SpringAt + Shift <= v
  BY <1>0, <1>1, <1>3, <1>4, ClockAssumption, SMT
<1>6. \/ w < FallAt - Shift /\ v < FallAt - Shift
      \/ FallAt <= w /\ FallAt <= v
  BY <1>0, <1>1, <1>3, <1>4, ClockAssumption, SMT
<1>7. Offset(w, 0) = Offset(v, 0)
  BY <1>1, <1>5, <1>6, Changes, ClockAssumption, SMT DEF Offset
<1>8. Offset(v, 0) \in Int
  BY ClockAssumption, SMT DEF Offset
<1>9. Instant(w, 0) = Instant(v, 0) + m
  BY <1>0, <1>1, <1>7, <1>8, SMT DEF Instant
<1> QED BY <1>9 DEF localize, local_midnight_utc, w, v

\* A row of a page in labels shows the slot and the pass it has.
LEMMA ShownIs ==
  ASSUME NEW style, style \notin {"late", "elapsed"}, NEW d \in Int, NEW i \in 1 .. Rungs(style),
         NEW b, \A j \in 1 .. Rungs(style) : b[j].label = Rung(style, j)
  PROVE  ShownAt(style, d, i) = IF slot_exists(d, b[i].label, Occurrence(b, i))
                                THEN localize(d, b[i].label, Occurrence(b, i)) ELSE NULL
<1> DEFINE labels == Ladder(style)
           pass == Cardinality({j \in 1 .. i - 1 : labels[j] = labels[i]})
<1>1. \A j \in 1 .. Rungs(style) : labels[j] = Rung(style, j)
  BY LadderIs DEF Climbs
<1>2. Rungs(style) \in Nat
  BY RungsType
<1>3. \A j \in 1 .. i - 1 : j \in 1 .. Rungs(style)
  BY <1>2, SMT
<1> HIDE DEF labels
<1>4. labels[i] = b[i].label /\ \A j \in 1 .. i - 1 : labels[j] = b[j].label
  BY <1>1, <1>3
<1>5. {j \in 1 .. i - 1 : labels[j] = labels[i]} = {j \in 1 .. i - 1 : b[j].label = b[i].label}
  BY <1>4
<1>6. pass = Occurrence(b, i)
  BY <1>5 DEF Occurrence
<1> HIDE DEF pass
<1>7. ShownAt(style, d, i) = IF slot_exists(d, labels[i], pass) THEN localize(d, labels[i], pass) ELSE NULL
  BY Zenon DEF ShownAt, labels, pass
<1> QED BY <1>4, <1>6, <1>7

-----------------------------------------------------------------------------
(* A page without an anomaly tells the truth *)

\* The k-th column of a row is empty, or shows the instant it is read as.
Shows(r, cells, metrics, k) ==
  \E at \in Int \cup {NULL} :
    /\ Holds(cells, metrics, k, at)
    /\ at # NULL => r.exists /\ r.start = at

Truthful(b, dates, metrics) ==
  \A k \in 1 .. Width, i \in 1 .. Len(b) :
    Shows(Entry(b, Meanings(metrics), dates, k, i), b[i].cells, metrics, k)

\* No slot that a day does not have carries usage.
NoGhosts(b, dates, metrics) ==
  \A k \in 1 .. Width, i \in 1 .. Len(b) : ~Ghost(Entry(b, Meanings(metrics), dates, k, i))

LEMMA EntryIs ==
  ASSUME NEW b, NEW m, NEW dates, NEW k, NEW i
  PROVE  /\ Entry(b, m, dates, k, i).exists = slot_exists(dates[k], b[i].label, Occurrence(b, i))
         /\ Entry(b, m, dates, k, i).start = localize(dates[k], b[i].label, Occurrence(b, i))
BY DEF Entry, ReadRow

LEMMA NoCellsHold ==
  ASSUME NEW metrics \in Layouts, NEW row, NEW k, NoCells(row, metrics, k)
  PROVE  Holds(row.cells, metrics, k, NULL)
<1>1. Len(metrics) \in Nat
  BY LayoutFacts
<1>2. \A j \in 1 .. Len(metrics) : Group(metrics, NULL)[j] = NULL
  BY <1>1, GroupType
<1> QED BY <1>2 DEF NoCells, Holds

\* A column with usage where its day has no slot leaves an anomaly.
LEMMA UsageIsGhost ==
  ASSUME NEW metrics \in Layouts, NEW b, NEW dates, NEW k, NEW i, NEW at \in Int,
         Holds(b[i].cells, metrics, k, at),
         ~slot_exists(dates[k], b[i].label, Occurrence(b, i))
  PROVE  Ghost(Entry(b, Meanings(metrics), dates, k, i))
<1> DEFINE e == Entry(b, Meanings(metrics), dates, k, i)
<1>1. at \in Int \cup {NULL} /\ at # NULL
  BY PortalAssumption
<1>2. Reads(e, metrics, at)
  BY <1>1, ColumnReads DEF Entry
<1>3. ~e.exists
  BY EntryIs
<1>4. [at |-> at, of |-> "delivered"] # NULL
  <2>1. [at |-> at, of |-> "delivered"] \in Usage
    BY DEF Usage, Registers
  <2> QED BY <2>1, CellAssumption
<1>5. e.delivered # NULL
  BY <1>1, <1>2, <1>4 DEF Reads
<1> QED BY <1>3, <1>5 DEF Ghost

\* Slots counted from midnight betray themselves on the short day.
LEMMA ElapsedTells ==
  ASSUME NEW t \in Int, NEW dates, DatesAre(dates, t), NEW metrics \in Layouts, NEW b,
         FallDay \notin ToSet(Shown(t)),
         Emptied(b, t, "elapsed", metrics), NoGhosts(b, dates, metrics)
  PROVE  Truthful(b, dates, metrics)
<1> DEFINE style == "elapsed"
<1>1. /\ Rungs(style) = DayLen /\ Len(b) = DayLen /\ DayLen \in Nat
      /\ \A i \in 1 .. DayLen : /\ b[i].label = i - 1 /\ i \in Nat /\ i - 1 \in Slots
                                /\ \A j \in 1 .. i - 1 : j \in 1 .. DayLen
  <2>1. \A i : Rung(style, i) = i - 1
    BY DEF Rung
  <2>2. Rungs(style) = DayLen /\ DayLen \in Nat
    BY ClockAssumption DEF Rungs
  <2>3. \A i \in 1 .. DayLen : i \in Nat /\ i - 1 \in Slots /\ \A j \in 1 .. i - 1 : j \in 1 .. DayLen
    BY <2>2, SMT DEF Slots
  <2> QED BY <2>1, <2>2, <2>3, Zenon DEF Emptied
<1>2. \A k \in 1 .. Width : /\ dates[k] = Shown(t)[k] /\ Shown(t)[k] \in Int /\ Shown(t)[k] # FallDay
  BY ShownDays DEF DatesAre, ToSet
<1>3. ASSUME NEW i \in 1 .. DayLen
      PROVE  Occurrence(b, i) = 0
  <2>1. \A j \in 1 .. i - 1 : j - 1 # i - 1
    BY SMT
  <2>2. \A j \in 1 .. i - 1 : b[j].label # b[i].label
    BY <1>1, <2>1
  <2>3. i \in Nat
    BY <1>1
  <2> QED BY <2>2, <2>3, OccurrenceIs
<1>4. \A k \in 1 .. Width : \A i \in 1 .. DayLen :
        CellsOf(b[i], t, style, metrics, i, k)
        => Holds(b[i].cells, metrics, k, ShownAt(style, Shown(t)[k], i))
  BY DEF CellsOf, Holds
<1>5. \A d, i : ShownAt(style, d, i) = IF i <= day_length(d) THEN local_midnight_utc(d) + i - 1 ELSE NULL
  BY DEF ShownAt
<1>6. ASSUME NEW k \in 1 .. Width, NEW i \in 1 .. DayLen, NoCells(b[i], metrics, k)
      PROVE  Shows(Entry(b, Meanings(metrics), dates, k, i), b[i].cells, metrics, k)
  <2>1. Holds(b[i].cells, metrics, k, NULL)
    BY <1>6, NoCellsHold
  <2> QED BY <2>1 DEF Shows
<1>7. ASSUME NEW k \in 1 .. Width, NEW i \in 1 .. DayLen, CellsOf(b[i], t, style, metrics, i, k),
             Shown(t)[k] # SpringDay
      PROVE  Shows(Entry(b, Meanings(metrics), dates, k, i), b[i].cells, metrics, k)
  <2> DEFINE d == Shown(t)[k]
             at == ShownAt(style, d, i)
             e == Entry(b, Meanings(metrics), dates, k, i)
  <2>1. d \in Int /\ d # FallDay /\ d # SpringDay /\ dates[k] = d
    BY <1>2, <1>7
  <2>2. day_length(d) = DayLen
    BY <2>1, DayLengths
  <2>3. local_midnight_utc(d) \in Int
    BY <2>1, DayIsInterval
  <2>4. at = local_midnight_utc(d) + (i - 1) /\ at \in Int
    <3>1. i <= day_length(d)
      BY <2>2, <1>1, SMT
    <3>2. at = local_midnight_utc(d) + i - 1
      BY <1>5, <3>1
    <3> HIDE DEF at, d
    <3> QED BY <2>3, <3>2, SMT
  <2>5. slot_exists(d, i - 1, 0) /\ localize(d, i - 1, 0) = local_midnight_utc(d) + (i - 1)
    BY <1>1, <2>1, FirstPass, PlainDay
  <2>6. e.exists /\ e.start = at
    <3>1. e.exists = slot_exists(d, i - 1, 0) /\ e.start = localize(d, i - 1, 0)
      BY <1>1, <1>3, <2>1, EntryIs
    <3> QED BY <2>4, <2>5, <3>1
  <2>7. Holds(b[i].cells, metrics, k, at)
    BY <1>4, <1>7
  <2> HIDE DEF at, e
  <2>8. Shows(e, b[i].cells, metrics, k)
    BY <2>4, <2>6, <2>7 DEF Shows
  <2> QED BY <2>8 DEF e
<1>8. ASSUME NEW k \in 1 .. Width, Shown(t)[k] = SpringDay
      PROVE  \A i \in 1 .. DayLen : NoCells(b[i], metrics, k)
  <2> DEFINE c == Change + 1
  <2>1. c \in 2 .. DayLen /\ c \in 1 .. DayLen /\ c - 1 = Change /\ c <= DayLen - Shift
    BY ClockAssumption, SMT
  <2>2. day_length(SpringDay) = DayLen - Shift /\ local_midnight_utc(SpringDay) \in Int
    BY DayLengths, DayIsInterval, ClockAssumption
  <2> HIDE DEF c
  <2>3. ASSUME CellsOf(b[c], t, style, metrics, c, k)
        PROVE  FALSE
    <3> DEFINE at == ShownAt(style, SpringDay, c)
    <3>1. at = local_midnight_utc(SpringDay) + c - 1
      BY <1>5, <2>1, <2>2
    <3> HIDE DEF at
    <3>2. at \in Int
      BY <2>1, <2>2, <3>1, SMT
    <3>3. Holds(b[c].cells, metrics, k, at)
      BY <1>4, <1>8, <2>1, <2>3 DEF at
    <3>4. ~slot_exists(dates[k], b[c].label, Occurrence(b, c))
      <4>1. dates[k] = SpringDay /\ b[c].label = Change /\ Occurrence(b, c) = 0
        BY <1>1, <1>2, <1>3, <1>8, <2>1
      <4> QED BY <4>1, SkippedSlot
    <3>5. Ghost(Entry(b, Meanings(metrics), dates, k, c))
      BY <3>2, <3>3, <3>4, UsageIsGhost
    <3> QED BY <1>1, <2>1, <3>5 DEF NoGhosts
  <2>4. \/ \A i \in 2 .. DayLen : CellsOf(b[i], t, style, metrics, i, k)
        \/ \A i \in 1 .. DayLen : NoCells(b[i], metrics, k)
    BY <1>1 DEF Emptied
  <2> QED BY <2>1, <2>3, <2>4
<1>9. \A k \in 1 .. Width, i \in 1 .. DayLen :
        CellsOf(b[i], t, style, metrics, i, k) \/ NoCells(b[i], metrics, k)
  BY <1>1 DEF Emptied
<1> HIDE DEF style
<1> QED BY <1>1, <1>6, <1>7, <1>8, <1>9 DEF Truthful

\* So does any other rendering that is complete but for empty columns.
LEMMA EmptiedTells ==
  ASSUME NEW t \in Int, NEW dates, DatesAre(dates, t), NEW metrics \in Layouts, NEW b,
         NEW style \in Styles(ToSet(Shown(t))) \cup Faithful(ToSet(Shown(t))), style # "late",
         Emptied(b, t, style, metrics), NoGhosts(b, dates, metrics)
  PROVE  Truthful(b, dates, metrics)
<1>1. CASE style = "elapsed"
  <2>1. "elapsed" \notin Faithful(ToSet(Shown(t)))
    BY DEF Faithful
  <2>2. FallDay \in ToSet(Shown(t)) => "elapsed" \notin Styles(ToSet(Shown(t)))
    BY DEF Styles
  <2> QED BY <1>1, <2>1, <2>2, ElapsedTells
<1>2. CASE style # "elapsed"
  <2>1. Len(b) = Rungs(style) /\ \A i \in 1 .. Rungs(style) : b[i].label = Rung(style, i)
    BY DEF Emptied
  <2> SUFFICES ASSUME NEW k \in 1 .. Width, NEW i \in 1 .. Rungs(style)
               PROVE  Shows(Entry(b, Meanings(metrics), dates, k, i), b[i].cells, metrics, k)
    BY <2>1 DEF Truthful
  <2> DEFINE e == Entry(b, Meanings(metrics), dates, k, i)
             d == Shown(t)[k]
             at == ShownAt(style, d, i)
  <2>2. d \in Int /\ dates[k] = d
    BY ShownDays DEF DatesAre
  <2>3. at \in Int \cup {NULL}
    BY <2>2, ShownAtType
  <2>4. at = IF e.exists THEN e.start ELSE NULL
    <3>1. at = IF slot_exists(d, b[i].label, Occurrence(b, i))
               THEN localize(d, b[i].label, Occurrence(b, i)) ELSE NULL
      BY <1>2, <2>1, <2>2, ShownIs
    <3>2. /\ e.exists = slot_exists(d, b[i].label, Occurrence(b, i))
          /\ e.start = localize(d, b[i].label, Occurrence(b, i))
      BY <2>2, EntryIs
    <3> HIDE DEF at, e
    <3> QED BY <3>1, <3>2
  <2>5. CellsOf(b[i], t, style, metrics, i, k) \/ NoCells(b[i], metrics, k)
    BY DEF Emptied
  <2>6. CASE CellsOf(b[i], t, style, metrics, i, k)
    <3>1. Holds(b[i].cells, metrics, k, at)
      BY <2>6 DEF CellsOf, Holds
    <3> HIDE DEF at, e
    <3>2. Shows(e, b[i].cells, metrics, k)
      BY <2>3, <2>4, <3>1 DEF Shows
    <3> QED BY <3>2 DEF e
  <2>7. CASE NoCells(b[i], metrics, k)
    <3>1. Holds(b[i].cells, metrics, k, NULL)
      BY <2>7, NoCellsHold
    <3> QED BY <3>1 DEF Shows
  <2> QED BY <2>5, <2>6, <2>7
<1> QED BY <1>1, <1>2

\* A window of three days has one without a change.
LEMMA OrdinaryColumn ==
  ASSUME Width >= 3, NEW t \in Int
  PROVE  \E k \in 1 .. Width :
           Shown(t)[k] \in Int /\ Shown(t)[k] # FallDay /\ Shown(t)[k] # SpringDay
<1>1. 1 \in 1 .. Width /\ 2 \in 1 .. Width /\ 3 \in 1 .. Width
  BY PortalAssumption, SMT
<1>2. /\ Shown(t)[1] \in Int /\ Shown(t)[2] \in Int /\ Shown(t)[3] \in Int
      /\ Shown(t)[1] = Newest(t) - 1 + 1 /\ Shown(t)[2] = Newest(t) - 2 + 1
      /\ Shown(t)[3] = Newest(t) - 3 + 1
  BY <1>1, ShownDays
<1>3. Newest(t) \in Int
  BY ShownDays
<1>4. Shown(t)[1] # Shown(t)[2] /\ Shown(t)[1] # Shown(t)[3] /\ Shown(t)[2] # Shown(t)[3]
  BY <1>2, <1>3, SMT
<1> QED BY <1>1, <1>2, <1>4

\* A label that comes again is read as a second pass, which only the long day has.
LEMMA RepeatIsGhost ==
  ASSUME NEW metrics \in Layouts, NEW b, NEW dates, NEW k, dates[k] \in Int, dates[k] # FallDay,
         NEW i \in Nat, NEW j \in 1 .. i - 1, b[j].label = b[i].label, b[i].label \in Slots,
         NEW at \in Int, Holds(b[i].cells, metrics, k, at)
  PROVE  Ghost(Entry(b, Meanings(metrics), dates, k, i))
<1> DEFINE p == Occurrence(b, i)
           m == b[i].label
           d == dates[k]
<1>1. p # 0 <=> 1 # 0
  BY OccurrenceIs
<1>2. ~slot_exists(d, m, 1)
  BY SecondPass
<1> HIDE DEF p, m, d
<1>3. slot_exists(d, m, p) <=> slot_exists(d, m, 1)
  BY <1>1, PassOnly
<1>4. ~slot_exists(dates[k], b[i].label, Occurrence(b, i))
  BY <1>2, <1>3 DEF p, m, d
<1> QED BY <1>4, UsageIsGhost

\* The number of rows may be that of the long day where a row comes twice.
LEMMA TwiceIsGhost ==
  ASSUME Width >= 3, NEW t \in Int, NEW dates, DatesAre(dates, t), NEW metrics \in Layouts,
         NEW style \in {"single", "late"}, NEW b, NEW x, Twice(b, t, style, metrics, x)
  PROVE  ~NoGhosts(b, dates, metrics)
<1>1. PICK k \in 1 .. Width :
        Shown(t)[k] \in Int /\ Shown(t)[k] # FallDay /\ Shown(t)[k] # SpringDay
  BY OrdinaryColumn
<1> DEFINE d == Shown(t)[k]
           i == x + 1
           at == ShownAt(style, d, x)
           labels == Ladder(style)
           pass == IF style = "late" /\ slot_exists(d, labels[x], 1) THEN 1
                   ELSE Cardinality({j \in 1 .. x - 1 : labels[j] = labels[x]})
<1>2. /\ x \in Int /\ x \in 1 .. DayLen /\ x - 1 \in Slots
      /\ \A j \in 1 .. x - 1 : j \in 1 .. DayLen /\ j - 1 # x - 1
  <2>1. x \in 1 .. DayLen - 1
    BY PortalAssumption DEF Twice
  <2> QED BY <2>1, ClockAssumption, SMT DEF Slots
<1>3. Rungs(style) = DayLen /\ \A j : Rung(style, j) = j - 1
  BY DEF Rungs, Rung
<1>4. i \in Nat /\ i \in 1 .. Len(b) /\ x \in 1 .. i - 1 /\ b[x].label = x - 1 /\ b[i].label = x - 1
  <2>1. i \in Nat /\ i \in 1 .. DayLen + 1 /\ x \in 1 .. i - 1
    BY <1>2, ClockAssumption, SMT
  <2> QED BY <1>3, <2>1 DEF Twice
<1>5. dates[k] = d /\ d \in Int /\ d # FallDay /\ d # SpringDay
  BY <1>1 DEF DatesAre
<1>6. at \in Int
  <2>1. \A j \in 1 .. DayLen : labels[j] = j - 1
    BY <1>3, LadderIs DEF Climbs
  <2> HIDE DEF labels, d
  <2>2. ~slot_exists(d, labels[x], 1) /\ slot_exists(d, labels[x], 0)
    BY <1>2, <1>5, <2>1, SecondPass, FirstPass
  <2>3. {j \in 1 .. x - 1 : labels[j] = labels[x]} = {}
    BY <1>2, <2>1
  <2>4. pass = 0
    BY <2>2, <2>3, FS_EmptySet
  <2> HIDE DEF pass
  <2>5. at = IF slot_exists(d, labels[x], pass) THEN localize(d, labels[x], pass) ELSE NULL
    BY Zenon DEF ShownAt, labels, pass
  <2>6. at = localize(d, x - 1, 0)
    BY <1>2, <2>1, <2>2, <2>4, <2>5
  <2> HIDE DEF at
  <2>7. x - 1 \in Int
    BY <1>2, SMT
  <2>8. localize(d, x - 1, 0) \in Int
    BY <1>5, <2>7, SlotOfDay, InstantNear DEF localize
  <2> QED BY <2>6, <2>8
<1>7. Holds(b[i].cells, metrics, k, at)
  BY DEF Twice, CellsOf, Holds
<1> HIDE DEF at, i, d
<1>8. Ghost(Entry(b, Meanings(metrics), dates, k, i))
  BY <1>2, <1>4, <1>5, <1>6, <1>7, RepeatIsGhost
<1> QED BY <1>4, <1>8 DEF NoGhosts

\* Labels that were traded were equal, or the row above the repeated hour now
\* reads as a second pass, which only the long day has.
LEMMA SwappedIsEmptied ==
  ASSUME Width >= 3, NEW t \in Int, NEW dates, DatesAre(dates, t),
         NEW metrics \in Layouts, NEW style, NEW b, NEW x, Swapped(b, t, style, metrics, x),
         Backward(b) = {}, NoGhosts(b, dates, metrics)
  PROVE  Emptied(b, t, style, metrics)
<1> DEFINE n == Rungs(style)
<1>1. n \in Nat /\ DayLen <= n /\ Len(b) = n
  BY RungsType DEF Swapped
<1>2. x \in Int /\ 1 <= x /\ x <= DayLen - 1 /\ x \in 1 .. n /\ x + 1 \in 1 .. n /\ x \in 1 .. n - 1
  <2>1. x \in 1 .. DayLen - 1
    BY PortalAssumption DEF Swapped
  <2> HIDE DEF n
  <2> QED BY <1>1, <2>1, ClockAssumption, SMT
<1>3. \A i \in 1 .. n : /\ b[i].label = Rung(style, Traded(x, i))
                        /\ Len(b[i].cells) = Width * Len(metrics)
                        /\ \A k \in 1 .. Width : CellsOf(b[i], t, style, metrics, i, k)
  BY Zenon DEF Swapped
<1>4. Traded(x, x) = x + 1 /\ Traded(x, x + 1) = x
  BY <1>2, SMT DEF Traded
<1>5. ~(Rung(style, x) < Rung(style, x + 1))
  <2>1. ~(b[x + 1].label < b[x].label)
    BY <1>1, <1>2 DEF Backward
  <2> QED BY <1>2, <1>3, <1>4, <2>1
<1> HIDE DEF n
<1>6. Rung(style, x) = Rung(style, x + 1) \/ (style = "block" /\ x = Change /\ Shift >= 2)
  <2>1. CASE style = "block"
    <3>1. x = Change /\ (Shift >= 2 \/ Rung(style, x) = Rung(style, x + 1))
      BY <1>2, <1>5, <2>1, ClockAssumption, SMT DEF Rung
    <3> QED BY <2>1, <3>1
  <2>2. CASE style = "pairs"
    <3>1. Rung(style, x) = Rung(style, x + 1)
      BY <1>2, <1>5, <2>2, ClockAssumption, SMT DEF Rung
    <3> QED BY <3>1
  <2>3. CASE style \notin {"block", "pairs"}
    <3>1. FALSE
      BY <1>2, <1>5, <2>3, ClockAssumption, SMT DEF Rung
    <3> QED BY <3>1
  <2> QED BY <2>1, <2>2, <2>3
<1>7. CASE Rung(style, x) = Rung(style, x + 1)
  <2>1. \A i \in 1 .. n : Rung(style, Traded(x, i)) = Rung(style, i)
    BY <1>7 DEF Traded
  <2>2. \A i \in 1 .. n : /\ b[i].label = Rung(style, i) /\ Len(b[i].cells) = Width * Len(metrics)
                          /\ \A k \in 1 .. Width : CellsOf(b[i], t, style, metrics, i, k)
    BY <1>3, <2>1
  <2>3. \A i \in 2 .. n : i \in 1 .. n
    BY <1>1, SMT
  <2> QED BY <1>1, <2>2, <2>3 DEF Emptied, n
<1>8. CASE style = "block" /\ x = Change /\ Shift >= 2
  <2> DEFINE j == Change - Shift + 1
  <2>1. /\ Change \in Nat \ {0} /\ Change \in 1 .. n
        /\ j \in 1 .. Change - 1 /\ j \in 1 .. n /\ j # Change /\ j # Change + 1
        /\ Change - 1 \in Slots /\ Change - Shift \in Slots
        /\ \A i \in 1 .. Change - 1 : i \in Int /\ i <= Change /\ i - 1 # Change - 1
    BY <1>1, <1>8, ClockAssumption, SMT DEF Slots
  <2>2. /\ Rung("block", Change) = Change - 1
        /\ Rung("block", j) = Change - Shift
        /\ Rung("block", Change + 1) = Change - Shift
        /\ \A i \in 1 .. Change - 1 : Rung("block", i) = i - 1
    BY <2>1, ClockAssumption, SMT DEF Rung
  <2>3. PICK k \in 1 .. Width : Shown(t)[k] \in Int /\ Shown(t)[k] # FallDay
    BY OrdinaryColumn
  <2> DEFINE d == Shown(t)[k]
             at == ShownAt("block", d, Change)
             c == [i \in 1 .. n |-> [label |-> Rung("block", i)]]
  <2>4. dates[k] = d
    BY DEF DatesAre
  <2> HIDE DEF d, j
  <2>5. at \in Int
    <3>1. \A i \in 1 .. n : c[i].label = Rung("block", i)
      OBVIOUS
    <3> HIDE DEF c
    <3>2. c[Change].label = Change - 1 /\ \A i \in 1 .. Change - 1 : c[i].label # c[Change].label
      <4>1. \A i \in 1 .. Change - 1 : i \in 1 .. n
        BY <1>1, <2>1, SMT
      <4> QED BY <2>1, <2>2, <3>1, <4>1
    <3>3. Occurrence(c, Change) = 0
      BY <2>1, <3>2, OccurrenceIs
    <3>4. slot_exists(d, Change - 1, 0)
      <4>1. Change - 1 < Change
        BY <2>1, SMT
      <4> QED BY <2>1, <2>3, <4>1, FirstPass DEF d
    <3>5. at = localize(d, Change - 1, 0)
      <4>1. style = "block" /\ Change \in 1 .. Rungs("block")
        BY <1>8, <2>1 DEF n
      <4>2. \A i \in 1 .. Rungs("block") : c[i].label = Rung("block", i)
        BY <1>8, <3>1 DEF n
      <4>3. at = IF slot_exists(d, c[Change].label, Occurrence(c, Change))
                 THEN localize(d, c[Change].label, Occurrence(c, Change)) ELSE NULL
        BY <2>3, <4>1, <4>2, ShownIs DEF d
      <4> QED BY <3>2, <3>3, <3>4, <4>3
    <3>6. Change - 1 \in Int
      BY <2>1, SMT
    <3>7. localize(d, Change - 1, 0) \in Int
      BY <2>3, <3>6, SlotOfDay, InstantNear DEF localize, d
    <3> QED BY <3>5, <3>7
  <2>6. Holds(b[Change].cells, metrics, k, at)
    BY <1>3, <1>8, <2>1 DEF CellsOf, Holds, d
  <2> HIDE DEF at, c
  <2>7. b[Change].label = Change - Shift
    BY <1>3, <1>4, <1>8, <2>1, <2>2
  <2>8. b[j].label = Change - Shift
    <3>1. Traded(x, j) = j
      BY <1>8, <2>1 DEF Traded
    <3> QED BY <1>3, <1>8, <2>1, <2>2, <3>1
  <2>9. Ghost(Entry(b, Meanings(metrics), dates, k, Change))
    <3>1. dates[k] \in Int /\ dates[k] # FallDay /\ Change \in Nat
      BY <2>1, <2>3, <2>4 DEF d
    <3> QED BY <2>1, <2>5, <2>6, <2>7, <2>8, <3>1, RepeatIsGhost
  <2> QED BY <1>1, <2>1, <2>9 DEF NoGhosts
<1> QED BY <1>6, <1>7, <1>8

\* What a page without an anomaly is read as.
Told(grid, page, body, dates, metrics) ==
  /\ ReadAs(grid, body, Meanings(metrics), dates)
  /\ body = DataRows(page) /\ Bare(page)
  /\ Len(dates) = Width
  /\ \A i \in 1 .. Len(body) : Len(body[i].cells) = Width * Len(metrics)
  /\ Truthful(body, dates, metrics)

LEMMA AcceptedTells ==
  ASSUME Width >= 3, NEW t \in FirstDay .. LastDay, NEW late \in {0, 1},
         NEW style \in Styles(ToSet(Shown(t))) \cup Faithful(ToSet(Shown(t))),
         NEW metrics \in Layouts, NEW page, Odd(page, t, style, metrics),
         parse_interval_grid(page, t + late) # Refused,
         ~parse_interval_grid(page, t + late).anomaly
  PROVE  Told(parse_interval_grid(page, t + late), page, DataRows(page),
              Dates(page, t + late), metrics)
<1> DEFINE grid  == parse_interval_grid(page, t + late)
           b     == DataRows(page)
           dates == Dates(page, t + late)
           m     == Groups(page, Len(dates))[1]
           w     == Len(metrics)
<1>1. t \in Int /\ Around(Oldest(t) .. Newest(t), t + late) /\ Names(page, Oldest(t) .. Newest(t))
  BY DaysAround DEF Odd
<1>2. Fits(page, Oldest(t) .. Newest(t), b, m, dates) /\ ReadAs(grid, b, m, dates)
  BY <1>1, ParseFacts
<1>3. HeaderFits(page, dates) /\ RowsFit(b, dates, Len(dates) * Len(m))
  BY <1>2 DEF Fits
<1>4. /\ DatesAre(dates, t) /\ Groups(page, Width)[1] = Meanings(metrics)
      /\ OddBody(b, t, style, metrics)
      /\ Len(b) = Rungs(style) => Bare(page)
  BY <1>3, AcceptedHeaders
<1>5. Len(dates) = Width /\ m = Meanings(metrics) /\ Len(m) = w
  BY <1>4, MeaningsType DEF DatesAre
<1>6. ~grid.anomaly
  OBVIOUS
<1> HIDE DEF grid, b, dates, m, w
<1>7. /\ ~CountIsOff(b, dates) /\ Backward(b) = {}
      /\ \A k \in 1 .. Width, i \in 1 .. Len(b) : ~Ghost(Entry(b, Meanings(metrics), dates, k, i))
  BY <1>2, <1>5, <1>6 DEF ReadAs
<1>8. NoGhosts(b, dates, metrics)
  BY <1>7 DEF NoGhosts
<1>9. /\ Len(b) # Rungs(style) - 1
      /\ Len(b) = Rungs(style) + 1 => style \in {"single", "late"}
      /\ Len(b) = Rungs(style) => style # "late"
  BY <1>1, <1>4, <1>7, CountTells
<1>10. ~(Len(b) = Rungs(style) /\ Len(b[1].cells) < Width * w)
  <2> SUFFICES ASSUME Len(b) = Rungs(style), Len(b[1].cells) < Width * w  PROVE FALSE
    OBVIOUS
  <2>1. 1 \in DOMAIN b
    <3>1. b \in Seq(DataRow)
      BY <1>2 DEF Fits
    <3>2. DOMAIN b = 1 .. Len(b) /\ Len(b) \in Nat /\ DayLen <= Len(b)
      BY <3>1, LenProperties, RungsType
    <3> QED BY <3>2, ClockAssumption, SMT
  <2>2. Len(b[1].cells) >= Width * w
    BY <1>3, <1>5, <2>1 DEF RowsFit
  <2>3. b[1] \in DataRow
    BY <1>2, <2>1, LenProperties DEF Fits
  <2>4. Len(b[1].cells) \in Nat
    BY <2>3, LenProperties DEF DataRow
  <2>5. Width * w \in Nat
    BY PortalAssumption, LayoutFacts, SMT DEF w
  <2> QED BY <2>2, <2>4, <2>5, SMT
<1>11. Emptied(b, t, style, metrics)
  <2>1. CASE \E x : Swapped(b, t, style, metrics, x)
    BY <1>1, <1>4, <1>7, <1>8, <2>1, SwappedIsEmptied
  <2>2. \A x : ~Twice(b, t, style, metrics, x)
    <3> SUFFICES ASSUME NEW x, Twice(b, t, style, metrics, x)  PROVE FALSE
      OBVIOUS
    <3>1. style \in {"single", "late"}
      BY <1>9 DEF Twice
    <3> QED BY <1>1, <1>4, <1>8, <3>1, TwiceIsGhost
  <2> QED BY <1>4, <1>9, <1>10, <2>1, <2>2 DEF OddBody, w
<1>12. Len(b) = Rungs(style) /\ \A i \in 1 .. Rungs(style) : Len(b[i].cells) = Width * w
  BY <1>11 DEF Emptied, w
<1>13. Truthful(b, dates, metrics)
  BY <1>1, <1>4, <1>8, <1>9, <1>11, <1>12, EmptiedTells
<1> QED BY <1>2, <1>4, <1>5, <1>12, <1>13 DEF Told, b, w, grid, dates

\* Every value read of such a page is of the instant and the register it is
\* archived under.
LEMMA ToldValues ==
  ASSUME NEW metrics \in Layouts, NEW grid, NEW page, NEW body, NEW dates,
         Told(grid, page, body, dates, metrics),
         NEW x \in 1 .. Len(grid.readings), NEW f \in Registers
  PROVE  Values(grid.readings[x])[f] \in {NULL, [at |-> grid.readings[x].start, of |-> f]}
<1> DEFINE m == Meanings(metrics)
<1>1. ReadAs(grid, body, m, dates) /\ Len(dates) = Width /\ Truthful(body, dates, metrics)
  BY DEF Told
<1>2. PICK k \in 1 .. Width, i \in 1 .. Len(body) : grid.readings[x] = Entry(body, m, dates, k, i)
  BY <1>1 DEF ReadAs
<1> DEFINE r == Entry(body, m, dates, k, i)
<1>3. PICK at \in Int \cup {NULL} : /\ Holds(body[i].cells, metrics, k, at)
                                    /\ at # NULL => r.exists /\ r.start = at
  BY <1>1 DEF Truthful, Shows
<1>4. Reads(r, metrics, at)
  BY <1>3, ColumnReads DEF Entry
<1> HIDE DEF r
<1>5. /\ r.delivered \in {NULL, [at |-> r.start, of |-> "delivered"]}
      /\ r.received \in {NULL, [at |-> r.start, of |-> "received"]}
  BY <1>3, <1>4 DEF Reads
<1>6. Values(r)[f] \in {NULL, [at |-> r.start, of |-> f]}
  <2>1. CASE f = "delivered"
    BY <1>5, <2>1 DEF Values
  <2>2. CASE f = "received"
    BY <1>5, <2>2 DEF Values
  <2> QED BY <2>1, <2>2 DEF Registers
<1> QED BY <1>2, <1>6 DEF r

\* All usage that such a page displays is read.
LEMMA ToldAll ==
  ASSUME NEW metrics \in Layouts, NEW grid, NEW page \in Pages, NEW body, NEW dates,
         Told(grid, page, body, dates, metrics), NEW c \in Displayed(page)
  PROVE  /\ c.of \in Registers
         /\ \E x \in 1 .. Len(grid.readings) :
              grid.readings[x].start = c.at /\ Values(grid.readings[x])[c.of] # NULL
<1> DEFINE m == Meanings(metrics)
           w == Len(metrics)
           T == {row \in ToSet(page.body) : row.label # Summary}
<1>1. /\ ReadAs(grid, body, m, dates) /\ Len(dates) = Width /\ Truthful(body, dates, metrics)
      /\ body = DataRows(page) /\ Bare(page)
      /\ \A i \in 1 .. Len(body) : Len(body[i].cells) = Width * w
  BY DEF Told
<1>2. PICK y \in 1 .. Len(page.body) : c \in ToSet(page.body[y].cells)
  BY DEF Displayed
<1>3. c # NULL /\ c.of \in Registers
  BY DEF Displayed
<1>4. page.body \in Seq(Rows) /\ DOMAIN page.body = 1 .. Len(page.body)
  BY LenProperties DEF Pages
<1>5. page.body[y].label # Summary
  <2>1. ToSet(<<>>) = {}
    BY DEF ToSet
  <2> QED BY <1>1, <1>2, <2>1 DEF Bare
<1>6. PICK i \in 1 .. Len(body) : body[i] = page.body[y]
  <2>1. page.body[y] \in T
    BY <1>4, <1>5 DEF ToSet
  <2>2. body = Kept(page.body, T)
    BY <1>1 DEF DataRows
  <2> HIDE DEF T
  <2>3. PICK f : Picked(page.body, T, Len(page.body), body, f)
    BY <1>4, <2>2, KeptIs
  <2> QED BY <2>1, <2>3 DEF Picked
<1>7. PICK p \in 1 .. Width * w : c = body[i].cells[p]
  <2>1. body[i] \in Rows
    BY <1>4, <1>6
  <2>2. DOMAIN body[i].cells = 1 .. Width * w
    BY <1>1, <2>1, LenProperties DEF Rows
  <2> QED BY <1>2, <1>6, <2>2 DEF ToSet
<1>8. w \in Nat /\ Width \in Nat
  BY LayoutFacts, PortalAssumption
<1>9. PICK k \in 1 .. Width, j \in 1 .. w : p = Place(k, w, j)
  BY <1>8, Split DEF Place
<1> DEFINE r == Entry(body, m, dates, k, i)
<1>10. PICK at \in Int \cup {NULL} : /\ Holds(body[i].cells, metrics, k, at)
                                     /\ at # NULL => r.exists /\ r.start = at
  BY <1>1 DEF Truthful, Shows
<1>11. Reads(r, metrics, at)
  BY <1>10, ColumnReads DEF Entry
<1>12. at # NULL /\ c = [at |-> at, of |-> Carries(metrics[j])]
  <2>1. c = Group(metrics, at)[j]
    BY <1>7, <1>9, <1>10 DEF Holds
  <2>2. Group(metrics, at)[j] = IF at = NULL THEN NULL ELSE [at |-> at, of |-> Carries(metrics[j])]
    BY <1>8, GroupType
  <2> QED BY <1>3, <2>1, <2>2
<1>13. PICK x \in 1 .. Len(grid.readings) : grid.readings[x] = r
  BY <1>1, <1>10, <1>12 DEF ReadAs
<1> HIDE DEF r
<1>14. Values(r)[c.of] # NULL
  <2>1. c.of = Carries(metrics[j])
    BY <1>12
  <2>2. \A f \in Registers : [at |-> at, of |-> f] # NULL
    <3>1. \A f \in Registers : [at |-> at, of |-> f] \in Usage
      BY <1>12 DEF Usage
    <3> QED BY <3>1, CellAssumption
  <2>3. r.delivered # NULL
    BY <1>11, <1>12, <2>2 DEF Reads, Registers
  <2>4. c.of = "received" => r.received # NULL
    BY <1>11, <1>12, <2>1, <2>2 DEF Reads, Registers
  <2>5. CASE c.of = "delivered"
    BY <2>3, <2>5 DEF Values
  <2>6. CASE c.of = "received"
    BY <2>4, <2>6 DEF Values
  <2> QED BY <1>3, <2>5, <2>6 DEF Registers
<1>15. r.start = c.at
  BY <1>10, <1>12
<1> QED BY <1>3, <1>13, <1>14, <1>15

\* The readings give a cell a value where they fill it.
LEMMA GivenIsFilled ==
  ASSUME NEW readings \in Seq(Parsed), NEW u, NEW f \in Registers
  PROVE  /\ <<u, f>> \in Filled(readings) <=> Given(readings, Len(readings), u, f) # {}
         /\ \A x \in 1 .. Len(readings) :
              readings[x].start = u /\ Values(readings[x])[f] # NULL
              => Given(readings, Len(readings), u, f) # {}
<1>1. DOMAIN readings = 1 .. Len(readings)
  BY LenProperties
<1>2. ASSUME <<u, f>> \in Filled(readings)
      PROVE  \E x \in 1 .. Len(readings) : readings[x].start = u /\ Values(readings[x])[f] # NULL
  BY <1>1, <1>2 DEF Filled
<1>3. ASSUME NEW x \in 1 .. Len(readings), readings[x].start = u, Values(readings[x])[f] # NULL
      PROVE  <<u, f>> \in Filled(readings) /\ Given(readings, Len(readings), u, f) # {}
  BY <1>1, <1>3 DEF Filled, Given
<1>4. Given(readings, Len(readings), u, f) # {}
      => \E x \in 1 .. Len(readings) : readings[x].start = u /\ Values(readings[x])[f] # NULL
  BY DEF Given
<1> QED BY <1>2, <1>3, <1>4

-----------------------------------------------------------------------------
(* Nothing is moved, nothing is lost *)

MovedIInv == GridType /\ NothingMovedSilently

LEMMA MovedStep ==
  ASSUME Width >= 3, MovedIInv, [Next]_vars
  PROVE  MovedIInv'
<1>1. CASE FetchClean \/ FetchOdd
  <2>1. GridType' /\ GridType
    BY <1>1, FetchAdds DEF MovedIInv
  <2>2. PICK late \in {0, 1} : \E page, clean, style : Fetches(page, clean, style, late)
    BY <1>1, FetchIs DEF MovedIInv
  <2>3. PICK page, clean, style : Fetches(page, clean, style, late)
    BY <2>2
  <2> DEFINE grid == parse_interval_grid(page, today + late)
             readings == grid.readings
             n == Len(readings)
  <2>4. /\ grid = Refused => rows' = rows /\ doubtful' = doubtful
        /\ grid # Refused => rows' = store_intervals(rows, readings)
        /\ grid # Refused /\ grid.anomaly => doubtful' = doubtful \cup Filled(readings)
        /\ grid # Refused /\ ~grid.anomaly => doubtful' = doubtful \ Filled(readings)
    BY <2>3 DEF Fetches, Fetch
  <2>5. grid # Refused => readings \in Seq(Parsed)
    <3>1. Odd(page, today, style, layout) /\ today \in FirstDay .. LastDay
      BY <2>1, <2>3 DEF Fetches, GridType
    <3>2. /\ Around(Oldest(today) .. Newest(today), today + late)
          /\ Names(page, Oldest(today) .. Newest(today))
      BY <3>1, DaysAround DEF Odd
    <3> QED BY <3>2, ParseFacts DEF ReadAs
  <2>6. grid # Refused /\ ~grid.anomaly
        => \A x \in 1 .. n, f \in Registers :
             Values(readings[x])[f] \in {NULL, [at |-> readings[x].start, of |-> f]}
    <3> SUFFICES ASSUME grid # Refused, ~grid.anomaly, NEW x \in 1 .. n, NEW f \in Registers
                 PROVE  Values(readings[x])[f] \in {NULL, [at |-> readings[x].start, of |-> f]}
      OBVIOUS
    <3>1. /\ Odd(page, today, style, layout)
          /\ style \in Styles(ToSet(Shown(today))) \cup Faithful(ToSet(Shown(today)))
          /\ today \in FirstDay .. LastDay /\ layout \in Layouts
      BY <2>1, <2>3 DEF Fetches, GridType
    <3>2. Told(grid, page, DataRows(page), Dates(page, today + late), layout)
      BY <3>1, AcceptedTells
    <3> QED BY <3>1, <3>2, ToldValues
  <2> HIDE DEF grid
  <2>7. ASSUME grid # Refused, NEW u \in DOMAIN rows', NEW f \in Registers
        PROVE  rows'[u][f] \in {NULL, [at |-> u, of |-> f]} \/ <<u, f>> \in doubtful'
    <3> DEFINE given == Given(readings, n, u, f)
    <3>1. Stores(rows, readings, n, rows')
      BY <2>1, <2>4, <2>5, <2>7, StoreFacts DEF GridType
    <3>2. IF given = {} THEN rows'[u][f] = IF u \in DOMAIN rows THEN rows[u][f] ELSE NULL
                        ELSE rows'[u][f] \in given
      BY <2>7, <3>1 DEF Stores
    <3>3. <<u, f>> \in Filled(readings) <=> given # {}
      BY <2>5, <2>7, GivenIsFilled
    <3>4. CASE given = {}
      <4>1. u \in DOMAIN rows
            => rows[u][f] \in {NULL, [at |-> u, of |-> f]} \/ <<u, f>> \in doubtful
        BY <2>7 DEF MovedIInv, NothingMovedSilently
      <4>2. <<u, f>> \in doubtful => <<u, f>> \in doubtful'
        BY <2>4, <2>7, <3>3, <3>4
      <4> QED BY <3>2, <3>4, <4>1, <4>2
    <3>5. CASE given # {} /\ grid.anomaly
      BY <2>4, <2>7, <3>3, <3>5
    <3>6. CASE given # {} /\ ~grid.anomaly
      <4>1. PICK x \in 1 .. n : readings[x].start = u /\ rows'[u][f] = Values(readings[x])[f]
        BY <3>2, <3>6 DEF Given
      <4> QED BY <2>6, <2>7, <3>6, <4>1
    <3> QED BY <3>4, <3>5, <3>6
  <2>8. grid = Refused => NothingMovedSilently'
    BY <2>4 DEF MovedIInv, NothingMovedSilently
  <2>9. grid # Refused => NothingMovedSilently'
    BY <2>7 DEF NothingMovedSilently
  <2> QED BY <2>1, <2>8, <2>9 DEF MovedIInv
<1>2. CASE DayPasses
  <2>1. GridType'
    BY <1>2, DayTyped DEF MovedIInv
  <2>2. rows' = rows /\ doubtful' = doubtful
    BY <1>2 DEF DayPasses
  <2> QED BY <2>1, <2>2 DEF MovedIInv, NothingMovedSilently
<1>3. CASE UNCHANGED vars
  BY <1>3 DEF vars, MovedIInv, GridType, NothingMovedSilently
<1> QED BY <1>1, <1>2, <1>3 DEF Next

\* A value in the archive is of the instant and the register it stands at, unless
\* the page that wrote it left an anomaly in its signature: of all disturbed
\* pages, in whatever rendering of a week with a clock change, those whose year,
\* metric order, pass or row would be inferred wrong are refused or leave an
\* anomaly (parse_interval_grid, infer_year).  The portal's window has seven days;
\* of two, one without its date would leave a single day with twice the columns,
\* which is accepted.
THEOREM NothingIsMoved ==
  ASSUME Width >= 3
  PROVE  Spec => []NothingMovedSilently
<1>1. Init => MovedIInv
  <2> SUFFICES ASSUME Init  PROVE MovedIInv
    OBVIOUS
  <2>1. GridType
    BY InitTyped
  <2>2. DOMAIN rows = {}
    <3>1. rows = [u \in {} |-> NULL]
      BY DEF Init
    <3> QED BY <3>1
  <2> QED BY <2>1, <2>2 DEF MovedIInv, NothingMovedSilently
<1>2. MovedIInv /\ [Next]_vars => MovedIInv'
  BY MovedStep
<1>3. MovedIInv => NothingMovedSilently
  BY DEF MovedIInv
<1> QED BY <1>1, <1>2, <1>3, PTL DEF Spec

LostIInv ==
  /\ GridType
  /\ \A c \in displayed : c.of \in Registers /\ c.at \in DOMAIN rows /\ rows[c.at][c.of] # NULL

LEMMA LostStep ==
  ASSUME Width >= 3, LostIInv, [Next]_vars
  PROVE  LostIInv'
<1>1. CASE FetchClean \/ FetchOdd
  <2>1. GridType' /\ GridType
    BY <1>1, FetchAdds DEF LostIInv
  <2>2. PICK late \in {0, 1} : \E page, clean, style : Fetches(page, clean, style, late)
    BY <1>1, FetchIs DEF LostIInv
  <2>3. PICK page, clean, style : Fetches(page, clean, style, late)
    BY <2>2
  <2> DEFINE grid == parse_interval_grid(page, today + late)
             readings == grid.readings
             n == Len(readings)
  <2>4. /\ grid = Refused => rows' = rows /\ displayed' = displayed
        /\ grid # Refused => rows' = store_intervals(rows, readings)
        /\ grid # Refused /\ grid.anomaly => displayed' = displayed
        /\ grid # Refused /\ ~grid.anomaly => displayed' = displayed \cup Displayed(page)
    BY <2>3 DEF Fetches, Fetch
  <2>5. /\ Odd(page, today, style, layout) /\ page \in Pages
        /\ style \in Styles(ToSet(Shown(today))) \cup Faithful(ToSet(Shown(today)))
        /\ today \in FirstDay .. LastDay /\ layout \in Layouts
        /\ Names(page, Oldest(today) .. Newest(today))
    BY <2>1, <2>3 DEF Fetches, GridType, Odd, Names
  <2>6. grid # Refused => readings \in Seq(Parsed)
    <3>1. Around(Oldest(today) .. Newest(today), today + late)
      BY <2>5, DaysAround
    <3> QED BY <2>5, <3>1, ParseFacts DEF ReadAs
  <2>7. grid # Refused /\ ~grid.anomaly
        => Told(grid, page, DataRows(page), Dates(page, today + late), layout)
    BY <2>5, AcceptedTells
  <2> HIDE DEF grid
  <2>8. ASSUME grid # Refused
        PROVE  Stores(rows, readings, n, rows')
    BY <2>1, <2>4, <2>6, <2>8, StoreFacts DEF GridType
  <2>9. ASSUME grid # Refused, NEW c \in displayed
        PROVE  c.of \in Registers /\ c.at \in DOMAIN rows' /\ rows'[c.at][c.of] # NULL
    <3>1. c.of \in Registers /\ c.at \in DOMAIN rows /\ rows[c.at][c.of] # NULL
      BY <2>9 DEF LostIInv
    <3>2. NULL \notin Given(readings, n, c.at, c.of)
      BY DEF Given
    <3> QED BY <2>8, <2>9, <3>1, <3>2 DEF Stores
  <2>10. ASSUME grid # Refused, ~grid.anomaly, NEW c \in Displayed(page)
         PROVE  c.of \in Registers /\ c.at \in DOMAIN rows' /\ rows'[c.at][c.of] # NULL
    <3> DEFINE given == Given(readings, n, c.at, c.of)
    <3>1. /\ c.of \in Registers
          /\ \E x \in 1 .. n : readings[x].start = c.at /\ Values(readings[x])[c.of] # NULL
      BY <2>5, <2>7, <2>10, ToldAll
    <3>2. PICK x \in 1 .. n : readings[x].start = c.at /\ Values(readings[x])[c.of] # NULL
      BY <3>1
    <3>3. given # {}
      BY <2>6, <2>10, <3>1, <3>2, GivenIsFilled
    <3>4. NULL \notin given
      BY DEF Given
    <3> HIDE DEF given
    <3>5. c.at \in DOMAIN rows'
      BY <2>8, <2>10, <3>2 DEF Stores
    <3>6. rows'[c.at][c.of] \in given
      BY <2>8, <2>10, <3>1, <3>3, <3>5 DEF Stores, given
    <3> QED BY <3>1, <3>4, <3>5, <3>6
  <2>11. \A c \in displayed' :
           c.of \in Registers /\ c.at \in DOMAIN rows' /\ rows'[c.at][c.of] # NULL
    <3>1. CASE grid = Refused
      BY <2>4, <3>1 DEF LostIInv
    <3>2. CASE grid # Refused /\ grid.anomaly
      BY <2>4, <2>9, <3>2
    <3>3. CASE grid # Refused /\ ~grid.anomaly
      BY <2>4, <2>9, <2>10, <3>3
    <3> QED BY <3>1, <3>2, <3>3
  <2> QED BY <2>1, <2>11 DEF LostIInv
<1>2. CASE DayPasses
  <2>1. GridType'
    BY <1>2, DayTyped DEF LostIInv
  <2>2. rows' = rows /\ displayed' = displayed
    BY <1>2 DEF DayPasses
  <2> QED BY <2>1, <2>2 DEF LostIInv
<1>3. CASE UNCHANGED vars
  BY <1>3 DEF vars, LostIInv, GridType
<1> QED BY <1>1, <1>2, <1>3 DEF Next

\* All usage that was ever displayed on a page accepted without an anomaly is in
\* the archive: no row of such a page is left out or taken for another day's
\* (parse_interval_grid), and no later page empties it (store_intervals).
THEOREM NothingIsDropped ==
  ASSUME Width >= 3
  PROVE  Spec => []NothingLostSilently
<1>1. Init => LostIInv
  <2> SUFFICES ASSUME Init  PROVE LostIInv
    OBVIOUS
  <2>1. GridType
    BY InitTyped
  <2> QED BY <2>1 DEF LostIInv, Init
<1>2. LostIInv /\ [Next]_vars => LostIInv'
  BY LostStep
<1>3. LostIInv => NothingLostSilently
  BY DEF LostIInv, NothingLostSilently
<1> QED BY <1>1, <1>2, <1>3, PTL DEF Spec

=============================================================================
